---------------------------- MODULE KoreHandler ----------------------------
(***************************************************************************)
(* hook_JSON_read of plugin-c/json.cpp and the KoreHandler it gives to     *)
(* rapidjson.  The handler keeps one flat stack for the whole document and *)
(* at a closing bracket pops as many terms as the reader counted.  The     *)
(* reader is external: it calls the handler in the order of a well-formed  *)
(* document, and may give up between any two calls.  The member `result`   *)
(* of the handler is the running value of the pop loops and is read by     *)
(* nobody else; it is not a variable here.                                 *)
(***************************************************************************)
EXTENDS Kore, Integers

CONSTANTS
  Text,         \* strings
  Number,       \* number tokens, as text
  IntText,      \* those of them that are a decimal integer
  Zero,         \* "0", one of them
  MaxCalls      \* bound: handler calls

ASSUME NumberAssumption == IntText \subseteq Number /\ Zero \in IntText
ASSUME CallAssumption == MaxCalls \in Nat

VARIABLES
  stack,
  frames,   \* the reader: its open containers, each with the number of
            \* elements it has counted, whether a key waits for its value,
            \* and (history) the height of the stack when it was opened
  status,   \* the reader: "parsing", "done", "empty", "error"
  events,   \* history: the calls the reader has made
  outcome   \* what hook_JSON_read returned, as a sequence of at most one

vars == <<stack, frames, status, events, outcome>>

-----------------------------------------------------------------------------
(* The reader. *)

ValueAllowed == /\ status = "parsing"
                /\ Len(events) < MaxCalls
                /\ frames # <<>> /\ Last(frames).kind = "object"
                     => Last(frames).keyed

Call(name, arg) == events' = Append(events, [call |-> name, arg |-> arg])

(* The element that just ended is counted in the container around it. *)
Counted(fs) ==
  IF fs = <<>> THEN fs
  ELSE [fs EXCEPT ![Len(fs)].count = @ + 1, ![Len(fs)].keyed = FALSE]

Ended(fs) == /\ frames' = Counted(fs)
             /\ status' = IF fs = <<>> THEN "done" ELSE status

Enter(kind) ==
  /\ ValueAllowed
  /\ Call(kind, kind)
  /\ frames' = Append(frames, [kind |-> kind, count |-> 0, keyed |-> FALSE,
                               base |-> Len(stack)])
  /\ UNCHANGED <<stack, status, outcome>>

-----------------------------------------------------------------------------
(* The handler's functions. *)

Push(name, arg, t) == /\ ValueAllowed
                      /\ Call(name, arg)
                      /\ stack' = Append(stack, t)
                      /\ Ended(frames)
                      /\ UNCHANGED outcome

(* mpz_init_set_str takes the token as a decimal integer.  Of any other one
   ("1.5", "1e3") it makes nothing and leaves 0. *)
IntOf(n) == IF n \in IntText THEN n ELSE Zero

Null         == Push("Null", "Null", null)
Bool(b)      == Push("Bool", b, bool(b))
RawNumber(n) == Push("Number", n, int(IntOf(n)))
String(s)    == Push("String", s, str(s))

Key(s) == /\ status = "parsing"
          /\ Len(events) < MaxCalls
          /\ frames # <<>> /\ Last(frames).kind = "object" /\ ~ Last(frames).keyed
          /\ Call("Key", s)
          /\ stack' = Append(stack, str(s))
          /\ frames' = [frames EXCEPT ![Len(frames)].keyed = TRUE]
          /\ UNCHANGED <<status, outcome>>

StartObject == Enter("object")
StartArray  == Enter("array")

(* The terms the pop loop takes off the stack, and what it leaves. *)
Taken(n) == Reverse(SubSeq(stack, Len(stack) - n + 1, Len(stack)))   \* mutant
Popped(n)  == SubSeq(stack, Len(stack) - n + 1, Len(stack))
Beneath(n) == SubSeq(stack, 1, Len(stack) - n)

(* Mutant: one term a member. *)
KeylessEndObject ==
  /\ status = "parsing" /\ frames # <<>>
  /\ Last(frames).kind = "object" /\ ~ Last(frames).keyed
  /\ LET memberCount == Last(frames).count
     IN stack' = Append(Beneath(memberCount), obj(Conses(Popped(memberCount))))
  /\ Call("EndObject", "End")
  /\ Ended(Front(frames))
  /\ UNCHANGED outcome

(* Value, then key, memberCount times; each member is put in front of the list. *)
EndObject ==
  /\ status = "parsing" /\ frames # <<>>
  /\ Last(frames).kind = "object" /\ ~ Last(frames).keyed
  /\ LET memberCount == Last(frames).count
     IN stack' = Append(Beneath(2 * memberCount),
                        obj(Conses(Members(Popped(2 * memberCount)))))
  /\ Call("EndObject", "End")
  /\ Ended(Front(frames))
  /\ UNCHANGED outcome

(* Mutant: the loop counts from 1. *)
ShyEndArray ==
  /\ status = "parsing" /\ frames # <<>>
  /\ Last(frames).kind = "array"
  /\ LET elementCount == IF Last(frames).count = 0 THEN 0 ELSE Last(frames).count - 1
     IN stack' = Append(Beneath(elementCount), listWrap(Conses(Popped(elementCount))))
  /\ Call("EndArray", "End")
  /\ Ended(Front(frames))
  /\ UNCHANGED outcome

EndArray ==
  /\ status = "parsing" /\ frames # <<>>
  /\ Last(frames).kind = "array"
  /\ LET elementCount == Last(frames).count
     IN stack' = Append(Beneath(elementCount),
                        listWrap(Conses(Popped(elementCount))))
  /\ Call("EndArray", "End")
  /\ Ended(Front(frames))
  /\ UNCHANGED outcome

(* The reader gives up: nothing there, or something that is not JSON. *)
Fail == /\ status = "parsing"
        /\ \/ status' = "empty" /\ events = <<>>
           \/ status' = "error"
        /\ UNCHANGED <<stack, frames, events, outcome>>

(* The hook's return.  The header of the document is read even when the
   document is the immediate null: the address is then its tag, where no
   memory is mapped. *)
ReturnValue ==
  CASE status = "empty" -> [kind |-> "eof"]
    [] status = "error" -> [kind |-> "undef", json |-> undef]
    [] status = "done" /\ Immediate(Last(stack)) -> [kind |-> "trap"]
    [] status = "done" /\ Last(stack).tag \in {"obj", "listWrap"} ->
         [kind |-> "IOJSON", json |-> Last(stack)]
    [] OTHER -> [kind |-> "bare", json |-> Last(stack)]

Return == /\ status # "parsing" /\ outcome = <<>>
          /\ outcome' = <<ReturnValue>>
          /\ UNCHANGED <<stack, frames, status, events>>

-----------------------------------------------------------------------------
Init == /\ stack = <<>> /\ frames = <<>>
        /\ status = "parsing" /\ events = <<>> /\ outcome = <<>>

Next == \/ Null
        \/ \E b \in BOOLEAN : Bool(b)
        \/ \E n \in Number : RawNumber(n)
        \/ \E s \in Text : String(s)
        \/ \E s \in Text : Key(s)
        \/ StartObject \/ EndObject
        \/ StartArray \/ EndArray
        \/ Fail \/ Return

Spec == Init /\ [][Next]_vars

-----------------------------------------------------------------------------
(* Correctness. *)

(* Where the children of the i-th open container end on the stack. *)
Top(i) == IF i = Len(frames) THEN Len(stack) ELSE frames[i + 1].base

(* How many stack slots its counted children and its waiting key take. *)
Slots(f) == IF f.kind = "object"
            THEN 2 * f.count + (IF f.keyed THEN 1 ELSE 0)
            ELSE f.count

(* The reader's counts and the handler's stack agree: the open containers
   divide the stack into consecutive segments, one for each, that are as long
   as the counts say.  So no pop loop reaches into another container's
   children, and stack.back() is never called on an empty vector. *)
Segmented ==
  /\ \A i \in 1 .. Len(frames) : Top(i) = frames[i].base + Slots(frames[i])
  /\ frames # <<>> => frames[1].base = 0
  /\ frames = <<>> => stack = <<>> \/ (status = "done" /\ Len(stack) = 1)

(* Closing a container leaves what lies beneath it on the stack untouched. *)
OthersKept ==
  [][Len(frames') < Len(frames) =>
       LET base == Last(frames).base
       IN /\ Len(stack') = base + 1
          /\ SubSeq(stack', 1, base) = SubSeq(stack, 1, base)]_vars

Scalars == {null} \cup {bool(b) : b \in BOOLEAN}
             \cup {int(n) : n \in IntText} \cup {str(s) : s \in Text}

(* The flat stack implements the tree: cut at the bases of the containers, it
   is the children of each, and the loops make the term of a container from
   its own children, keys with their values and in document order. *)
Tree == INSTANCE JsonTree WITH
  Scalar <- Scalars,
  Name <- {str(s) : s \in Text},
  open <- [i \in 1 .. Len(frames) |->
             [kind |-> frames[i].kind,
              items |-> SubSeq(stack, frames[i].base + 1, Top(i))]],
  root <- IF frames = <<>> THEN stack ELSE <<>>

ImplementsTree == Tree!Spec

=============================================================================
