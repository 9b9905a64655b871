----------------------------- MODULE JsonHooks -----------------------------
(***************************************************************************)
(* hook_JSON_read followed by hook_JSON_write: a K program reads a         *)
(* document and writes it back, unchanged or with one scalar replaced.     *)
(* write_json turns a term into calls of rapidjson's writer (external),    *)
(* which knows where the commas go.                                        *)
(***************************************************************************)
EXTENDS KoreHandler

CONSTANT Foreign   \* an allocated term with a header write_json does not know

VARIABLES
  given,   \* what the program gave to hook_JSON_write, at most one term
  reply    \* what came of it, at most one

hookVars == <<vars, given, reply>>

-----------------------------------------------------------------------------
(* write_json.  st says how it ended: "ok", "fail" (it returned false), "trap"
   (it read the header of an immediate) or "abort" (an assertion of rapidjson's).
   The assertions are in the code unless the build defines NDEBUG. *)

Emit(name, arg) == [st |-> "ok", calls |-> <<[call |-> name, arg |-> arg]>>]
Nothing(st)     == [st |-> st, calls |-> <<>>]

(* Mutant: the tail of a list is written before its head. *)
TailFirst(r, s) == IF r.st = "ok" THEN [s EXCEPT !.calls = @ \o r.calls] ELSE r

(* r, and then s unless r did not succeed. *)
And(r, s) == IF r.st = "ok" THEN [s EXCEPT !.calls = r.calls \o @] ELSE r

(* Mutant: a failure leaves the container open. *)
OpenWithin(first, r, last, asserts) ==
  [st |-> r.st,
   calls |-> Emit(first[1], first[2]).calls \o r.calls
               \o (IF r.st = "ok" THEN Emit(last, "End").calls ELSE <<>>)]

(* EndObject asserts that the object's last key has a value. *)
Asserted(last, calls) ==
  last = "EndObject" /\ calls # <<>> /\ Last(calls).call = "Key"

(* r between the two calls of a container.  The closing call is made whether or
   not r succeeded, and is an assertion's end where a member's value is missing. *)
Within(first, r, last, asserts) ==
  LET in == [st |-> r.st, calls |-> Emit(first[1], first[2]).calls \o r.calls]
  IN CASE r.st \in {"trap", "abort"} -> in
       [] r.st = "fail" /\ asserts /\ Asserted(last, r.calls) -> [in EXCEPT !.st = "abort"]
       [] OTHER -> [in EXCEPT !.calls = @ \o Emit(last, "End").calls]

RECURSIVE write_json(_, _)
write_json(t, asserts) ==
  CASE t = dotList        -> Nothing("ok")
    [] t = null           -> Emit("Null", "Null")
    [] t = undef          -> Nothing("trap")
    [] t.tag = "bool"     -> Emit("Bool", t.data)
    [] t.tag = "int"      -> Emit("Number", t.data)
    [] t.tag = "str"      -> Emit("String", t.data)
    [] t.tag = "obj"      -> Within(<<"object", "object">>, write_json(t.data, asserts),
                                    "EndObject", asserts)
    [] t.tag = "listWrap" -> Within(<<"array", "array">>, write_json(t.data, asserts),
                                    "EndArray", asserts)
    [] t.tag = "list"     -> LET hd == write_json(t.hd, asserts)
                             IN IF hd.st = "ok" THEN And(hd, write_json(t.tl, asserts))
                                ELSE hd
    [] t.tag = "memb"     -> And(Emit("Key", t.key.data), write_json(t.val, asserts))
    [] OTHER              -> Nothing("fail")

-----------------------------------------------------------------------------
(* The program. *)

foreign == [tag |-> Foreign]

(* t with one of its scalars replaced by x. *)
RECURSIVE Edits(_, _)
Edits(t, x) ==
  CASE t = dotList -> {}
    [] t.tag \in {"obj", "listWrap"} ->
         { [t EXCEPT !.data = d] : d \in Edits(t.data, x) }
    [] t.tag = "list" -> { [t EXCEPT !.hd = h] : h \in Edits(t.hd, x) }
                           \cup { [t EXCEPT !.tl = r] : r \in Edits(t.tl, x) }
    [] t.tag = "memb" -> { [t EXCEPT !.val = v] : v \in Edits(t.val, x) }
    [] OTHER -> {x}

HasJson == outcome # <<>> /\ Last(outcome).kind \in {"IOJSON", "bare", "undef"}
Json    == Last(outcome).json

Give == /\ HasJson /\ given = <<>>
        /\ \E t \in {Json} \cup Edits(Json, foreign) \cup Edits(Json, undef) :
             given' = <<t>>
        /\ UNCHANGED <<vars, reply>>

(* The hook returns putResponseError(json) or the empty K sequence. *)
hook_JSON_write ==
  /\ given # <<>> /\ reply = <<>>
  /\ \E asserts \in BOOLEAN :
       LET r == write_json(Last(given), asserts)
       IN reply' = <<[r EXCEPT !.st = CASE r.st = "ok"   -> "dotk"
                                        [] r.st = "fail" -> "putResponseError"
                                        [] OTHER         -> r.st]>>
  /\ UNCHANGED <<vars, given>>

HookInit == Init /\ given = <<>> /\ reply = <<>>

HookNext == \/ Next /\ UNCHANGED <<given, reply>>
            \/ Give
            \/ hook_JSON_write

HookSpec == HookInit /\ [][HookNext]_hookVars

-----------------------------------------------------------------------------
(* Correctness. *)

(* What the reader called, with the numbers as they come out. *)
Normalised ==
  [i \in 1 .. Len(events) |->
     IF events[i].call = "Number"
     THEN [call |-> "Number", arg |-> IntOf(events[i].arg)]
     ELSE events[i]]

(* The first n of these calls are the first n of the document. *)
Agree(cs, n) ==
  /\ n <= Len(cs) /\ n <= Len(Normalised)
  /\ \A i \in 1 .. n : /\ cs[i].call = Normalised[i].call
                        /\ cs[i].arg = Normalised[i].arg

Unchanged == reply # <<>> /\ Last(given) = Json

(* Reading a document and writing it back makes the same calls in the same
   order, keys and duplicates included; only a number that is not an integer
   comes back as 0. *)
RoundTrip ==
  Unchanged /\ status = "done" =>
    /\ Last(reply).st = "dotk"
    /\ Len(Last(reply).calls) = Len(Normalised)
    /\ Agree(Last(reply).calls, Len(Normalised))

Closes(c) == c.call \in {"EndObject", "EndArray"}
Scalar(c) == c.call \notin {"object", "array", "Key"} /\ ~ Closes(c)

(* What a receiver of the calls makes of them, by the grammar of JSON alone: a
   stack of what may come next, at first one value. *)
Receive(expected, c) ==
  LET top  == Last(expected)
      rest == Front(expected)
  IN CASE expected = <<>> \/ top = "error" -> <<"error">>
       [] c.call = "Key" /\ top = "members" -> Append(expected, "value")
       [] c.call = "EndObject" /\ top = "members" -> rest
       [] c.call = "EndArray" /\ top = "elements" -> rest
       [] c.call # "Key" /\ ~ Closes(c) /\ top \in {"value", "elements"} ->
            (IF top = "value" THEN rest ELSE expected)
              \o CASE c.call = "object" -> <<"members">>
                   [] c.call = "array"  -> <<"elements">>
                   [] OTHER             -> <<>>
       [] OTHER -> <<"error">>

Complete(cs) == FoldLeft(Receive, <<"value">>, cs) = <<>>

(* When the program has put something into a document that cannot be written,
   write_json emits the document up to there and then only closing brackets.
   What the receiver can tell depends on where it was.  An element of an array is
   missing without a trace: the receiver has a complete document, although the
   hook reports an error.  A member's value leaves a key without one, or the
   process ends in the assertion; a document that is nothing else emits nothing;
   and an immediate with no header ends the process with its brackets open. *)
FailureHidden ==
  reply # <<>> /\ status = "done" /\ Last(reply).st # "dotk" =>
    LET cs == Last(reply).calls
    IN \E k \in 0 .. Len(cs) :
         /\ Agree(cs, k)
         /\ k < Len(Normalised) /\ Scalar(Normalised[k + 1])
         /\ \A i \in k + 1 .. Len(cs) : Closes(cs[i])
         /\ Complete(cs) <=> /\ Last(reply).st = "putResponseError"
                             /\ k > 0 /\ Normalised[k].call # "Key"

=============================================================================
