------------------------------ MODULE Blake2 ------------------------------
(***************************************************************************)
(* hook_KRYPTO_blake2compress of plugin-c/crypto.cpp, called again and     *)
(* again with one K term, and the loops of the two kernels it can end up   *)
(* in.  The kernels work in the memory of the argument: h points into it.  *)
(*                                                                         *)
(* The words v are kept as what they were before the first round and the   *)
(* rounds applied to them, each named by the row of sigma it stands for.   *)
(* Which row a vectorised round stands for is computed in Blake2Rounds.    *)
(***************************************************************************)
EXTENDS Blake2Rounds

CONSTANTS
  MaxRounds,    \* bound: the rounds field, 2^32 - 1 in the code
  MaxCalls      \* bound: calls of the hook

ASSUME BoundsAssumption == MaxRounds \in Nat /\ MaxCalls \in Nat

VARIABLES
  avx2,       \* the build has __AVX2__ and the processor has avx2
  bytes,      \* the memory of the argument
  pc, i,
  start,      \* v before the first round
  applied,    \* the rounds applied to it
  outcomes    \* history: what the calls returned, <<>> if nothing

vars == <<avx2, bytes, pc, i, start, applied, outcomes>>

Params == [sized : BOOLEAN, rounds : 0 .. MaxRounds, f : 0 .. 2, h : {<<>>}]

-----------------------------------------------------------------------------
(* What the compression function promises. *)

Rows10(n) == [k \in 1 .. n |-> (k - 1) % 10]

(* The value of h after one more compression c.  It is the list of those that
   went into it; after no round at all the old h cancels out. *)
Compressed(h, c) == IF c.rows = <<>> THEN <<c>> ELSE Append(h, c)

F(p) == Compressed(p.h, [start |-> GenericStart(p.f = 1), rows |-> Rows10(p.rounds),
                         finish |-> GenericFinish])

-----------------------------------------------------------------------------
Refused == ~ bytes.sized \/ bytes.f > 1

Call ==
  /\ pc = "idle" /\ Len(outcomes) < MaxCalls
  /\ IF Refused THEN /\ outcomes' = Append(outcomes, <<>>)
                     /\ UNCHANGED <<pc, i, applied>>
                ELSE /\ pc' = (IF avx2 THEN "avx2" ELSE "generic")
                     /\ i' = 0 /\ applied' = <<>>
                     /\ UNCHANGED outcomes
  /\ UNCHANGED <<avx2, bytes, start>>

(* Loads and stores of halign and blake2b_iv ask for an alignment that nobody
   declared: they may trap, before h is written. *)
Misaligned ==
  /\ pc \in {"avx2", "finish"} /\ avx2
  /\ pc' = "trap"
  /\ UNCHANGED <<avx2, bytes, i, start, applied, outcomes>>

Generic ==
  /\ pc = "generic"
  /\ start' = GenericStart(bytes.f = 1) /\ pc' = "rounds"
  /\ UNCHANGED <<avx2, bytes, i, applied, outcomes>>

GenericLoop ==
  /\ pc = "rounds"
  /\ IF i < bytes.rounds
     THEN i' = i + 1 /\ applied' = Append(applied, i % 10) /\ UNCHANGED pc
     ELSE pc' = "finish" /\ UNCHANGED <<i, applied>>
  /\ UNCHANGED <<avx2, bytes, start, outcomes>>

Avx2 ==
  /\ pc = "avx2"
  /\ start' = Avx2Start(bytes.f = 1) /\ pc' = "tens"
  /\ UNCHANGED <<avx2, bytes, i, applied, outcomes>>

(* Mutant: one counter for both loops. *)
ContinuingTens ==
  /\ pc = "tens"
  /\ IF i < bytes.rounds \div 10
     THEN /\ i' = i + 1 /\ UNCHANGED pc
          /\ applied' = applied \o [k \in 1 .. 10 |-> StraightRow(k - 1)]
     ELSE pc' = "ones" /\ UNCHANGED <<i, applied>>
  /\ UNCHANGED <<avx2, bytes, start, outcomes>>

(* Ten rounds an iteration, each with its own load macros. *)
Tens ==
  /\ pc = "tens"
  /\ IF i < bytes.rounds \div 10
     THEN /\ i' = i + 1 /\ UNCHANGED pc
          /\ applied' = applied \o [k \in 1 .. 10 |-> StraightRow(k - 1)]
     ELSE pc' = "ones" /\ i' = 0 /\ UNCHANGED applied
  /\ UNCHANGED <<avx2, bytes, start, outcomes>>

Ones ==
  /\ pc = "ones"
  /\ IF i < bytes.rounds % 10
     THEN i' = i + 1 /\ applied' = Append(applied, GatheredRow(i)) /\ UNCHANGED pc
     ELSE pc' = "finish" /\ UNCHANGED <<i, applied>>
  /\ UNCHANGED <<avx2, bytes, start, outcomes>>

(* h is written, and what was written is encoded. *)
Finish ==
  LET h == Compressed(bytes.h, [start |-> start, rows |-> applied,
             finish |-> IF avx2 THEN Avx2Finish ELSE GenericFinish])
  IN /\ pc = "finish" /\ pc' = "idle"
     /\ bytes' = [bytes EXCEPT !.h = h]
     /\ outcomes' = Append(outcomes, h)
     /\ UNCHANGED <<avx2, i, start, applied>>

Init == /\ avx2 \in BOOLEAN /\ bytes \in Params
        /\ pc = "idle" /\ i = 0
        /\ start = GenericStart(FALSE) /\ applied = <<>> /\ outcomes = <<>>

Next == \/ Call \/ Misaligned \/ Finish
        \/ Generic \/ GenericLoop
        \/ Avx2 \/ Tens \/ Ones

Spec == Init /\ [][Next]_vars

-----------------------------------------------------------------------------
(* Correctness. *)

(* Each of the ten rounds that are written out with shuffles, and each of the
   ten that gather by the table, makes the words of the scalar round of its row:
   forty message loads, the rotations and the turning of the rows. *)
TablesAgree == avx2 => Agreeing = Round

(* At every moment of either kernel the rounds applied are the first ones of
   sigma's cycle, and all of them when h is about to be written: tens by
   quotient and ones by remainder are the same as i % 10. *)
RowsInOrder ==
  /\ applied = Rows10(Len(applied))
  /\ pc = "finish" => Len(applied) = bytes.rounds

(* Whichever kernel runs, the argument's memory changes by one whole
   application of the compression function to what it held, and the call that
   changes it returns that; no other step touches it. *)
WholeSteps ==
  [][bytes' # bytes => /\ bytes' = [bytes EXCEPT !.h = F(bytes)]
                       /\ outcomes' = Append(outcomes, F(bytes))]_vars

(* krypto.md declares Blake2Compress as a function of a byte string: calls with
   the same term have the same value.  The code overwrites the term. *)
IsFunction == \A j, k \in DOMAIN outcomes : outcomes[j] = outcomes[k]

=============================================================================
