------------------------------ MODULE JsonTree ------------------------------
(***************************************************************************)
(* What building a JSON document means: every open container collects its  *)
(* own children, a closing bracket makes a term of exactly those, and the  *)
(* term becomes a child of the container around it.  There is no shared    *)
(* stack here and nothing is counted.                                      *)
(***************************************************************************)
EXTENDS Kore

CONSTANTS Scalar, Name    \* terms without children; member names

VARIABLES
  open,   \* the open containers, outermost first: kind and children; in an
          \* object the children are alternately keys and values
  root    \* the finished document, once there is one

vars == <<open, root>>

Half(c) == Len(c.items) % 2 = 1     \* a key waits for its value

(* A term becomes the last child of the innermost container, or the document. *)
Add(cs, t) ==
  IF cs = <<>> THEN cs
  ELSE [cs EXCEPT ![Len(cs)].items = Append(@, t)]

Grown(r, cs, t) == IF cs = <<>> THEN Append(r, t) ELSE r

TermAllowed == IF open = <<>> THEN root = <<>>
               ELSE Last(open).kind = "object" => Half(Last(open))

Init == open = <<>> /\ root = <<>>

Value(t) == /\ TermAllowed
            /\ open' = Add(open, t)
            /\ root' = Grown(root, open, t)

Member(k) == /\ open # <<>>
             /\ Last(open).kind = "object" /\ ~ Half(Last(open))
             /\ open' = Add(open, k)
             /\ UNCHANGED root

Open(kind) == /\ TermAllowed
              /\ open' = Append(open, [kind |-> kind, items |-> <<>>])
              /\ UNCHANGED root

Close ==
  /\ open # <<>>
  /\ LET c == Last(open)
         t == IF c.kind = "object" THEN obj(Conses(Members(c.items)))
                                   ELSE listWrap(Conses(c.items))
     IN /\ c.kind = "object" => ~ Half(c)
        /\ open' = Add(Front(open), t)
        /\ root' = Grown(root, Front(open), t)

Next == \/ \E t \in Scalar : Value(t)
        \/ \E k \in Name : Member(k)
        \/ \E kind \in {"object", "array"} : Open(kind)
        \/ Close

Spec == Init /\ [][Next]_vars

=============================================================================
