-------------------------------- MODULE Kore --------------------------------
(***************************************************************************)
(* The terms that plugin-c/json.cpp builds for K: an immediate (null,      *)
(* undef, the empty list) or an allocated block, which is its header and its data.    *)
(* The header is what every later test looks at.                           *)
(***************************************************************************)
EXTENDS SequencesExt

null        == [tag |-> "null"]
undef       == [tag |-> "undef"]
dotList     == [tag |-> "dotList"]
bool(b)     == [tag |-> "bool", data |-> b]
int(z)      == [tag |-> "int", data |-> z]
str(s)      == [tag |-> "str", data |-> s]
memb(k, v)  == [tag |-> "memb", key |-> k, val |-> v]
list(h, t)  == [tag |-> "list", hd |-> h, tl |-> t]
obj(l)      == [tag |-> "obj", data |-> l]
listWrap(l) == [tag |-> "listWrap", data |-> l]

(* Immediates carry their tag in the pointer; there is no header behind it. *)
Immediate(t) == t \in {null, undef, dotList}

(* The list of blocks that holds the terms of s in their order. *)
Conses(s) == FoldRight(list, s, dotList)

(* The members of an object, given as key, value, key, value, ... *)
Members(s) == [i \in 1 .. Len(s) \div 2 |-> memb(s[2 * i - 1], s[2 * i])]

=============================================================================
