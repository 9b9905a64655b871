------------------------------- MODULE Bn128 -------------------------------
(***************************************************************************)
(* The BN128 hooks of plugin-c/crypto.cpp, called by several threads of    *)
(* one process.  Every hook first calls initBN128, which fills the         *)
(* library's global parameters unless a flag says that it was done.  The   *)
(* flag is a plain bool without a lock.  A thread that reads it while      *)
(* another writes it gets the old or the new value: either order of the    *)
(* two steps.                                                              *)
(*                                                                         *)
(* The library (libff) is external.  G1 is a cyclic group of R elements,   *)
(* the curve of G2 one of R * Cofactor; a point is its discrete logarithm, *)
(* with 0 at infinity.  K may also pass OffCurve, coordinates of the field *)
(* that are no point of the curve, and OffField, some coordinate not       *)
(* below the modulus.  Coordinates and scalars are not negative.           *)
(***************************************************************************)
EXTENDS Integers, SequencesExt

CONSTANTS
  Thread,
  R, Cofactor,
  OffCurve, OffField,
  Calls,       \* what each thread may call: records with a hook and its arguments
  MaxCalls     \* bound: calls of each thread

ASSUME GroupAssumption == R \in Nat \ {0, 1} /\ Cofactor \in Nat \ {0}
ASSUME MaxCallsAssumption == MaxCalls \in Nat

Inf == 0
G1  == 0 .. R - 1
G2  == 0 .. R * Cofactor - 1

InSubgroup(q) == q \in G2 /\ q % Cofactor = 0

(* Calls name points as above, and OffCurve and OffField are none of the curve.
   The lists of bn128ate are of points of the two groups, or none of the field:
   the hook does not test that, and what the library makes of others is not
   modelled. *)
ASSUME CallsAssumption ==
  /\ {OffCurve, OffField} \cap G2 = {}
  /\ \A t \in Thread : \A c \in Calls[t] :
       /\ c.hook = "bn128g2valid" => c.q \in G2 \cup {OffCurve, OffField}
       /\ c.hook = "bn128ate" =>
            /\ c.g1 \in Seq(G1 \cup {OffField})
            /\ c.g2 \in Seq({ q \in G2 : InSubgroup(q) } \cup {OffField})

VARIABLES
  bn128_initialized,
  complete,    \* some init_public_params has returned
  pc,          \* where each thread is
  call,        \* its call
  i, accum,    \* the loop of bn128ate: pairs looked at, and the product
  outcome,     \* what its last call came to
  ncalls

vars == <<bn128_initialized, complete, pc, call, i, accum, outcome, ncalls>>

Value(v)    == [kind |-> "value", value |-> v]
Throw(what) == [kind |-> "throw", value |-> what]

-----------------------------------------------------------------------------
(* initBN128. *)

Begin(t, c) == /\ pc[t] = "idle" /\ ncalls[t] < MaxCalls
               /\ pc' = [pc EXCEPT ![t] = "check"]
               /\ call' = [call EXCEPT ![t] = c]
               /\ ncalls' = [ncalls EXCEPT ![t] = @ + 1]
               /\ UNCHANGED <<bn128_initialized, complete, i, accum, outcome>>

(* Mutants: the flag is raised first; it is not looked at. *)
EagerCheckFlag(t) ==
  /\ pc[t] = "check"
  /\ pc' = [pc EXCEPT ![t] = IF bn128_initialized THEN "run" ELSE "init"]
  /\ bn128_initialized' = TRUE
  /\ UNCHANGED <<complete, call, i, accum, outcome, ncalls>>

BlindCheckFlag(t) ==
  /\ pc[t] = "check"
  /\ pc' = [pc EXCEPT ![t] = "init"]
  /\ UNCHANGED <<bn128_initialized, complete, call, i, accum, outcome, ncalls>>

CheckFlag(t) ==
  /\ pc[t] = "check"
  /\ pc' = [pc EXCEPT ![t] = IF bn128_initialized THEN "run" ELSE "init"]
  /\ UNCHANGED <<bn128_initialized, complete, call, i, accum, outcome, ncalls>>

(* A thread is at "init" as long as it may write the parameters. *)
Initialise(t) ==
  /\ pc[t] = "init"
  /\ complete' = TRUE
  /\ pc' = [pc EXCEPT ![t] = "flag"]
  /\ UNCHANGED <<bn128_initialized, call, i, accum, outcome, ncalls>>

SilentRaiseFlag(t) ==    \* mutant
  /\ pc[t] = "flag"
  /\ pc' = [pc EXCEPT ![t] = "run"]
  /\ UNCHANGED <<bn128_initialized, complete, call, i, accum, outcome, ncalls>>

RaiseFlag(t) ==
  /\ pc[t] = "flag"
  /\ bn128_initialized' = TRUE
  /\ pc' = [pc EXCEPT ![t] = "run"]
  /\ UNCHANGED <<complete, call, i, accum, outcome, ncalls>>

-----------------------------------------------------------------------------
(* The hooks, behind initBN128. *)

getPointThrows(p) == p = OffField

(* libff: sums and multiples; of coordinates that are no point of the curve
   it makes other coordinates. *)
Sum(p, q, n) == IF OffCurve \in {p, q} THEN OffCurve ELSE (p + q) % n
Times(s, p, n) == IF p = OffCurve THEN OffCurve ELSE (s * p) % n

G1Valid(p) == ~ getPointThrows(p) /\ p # OffCurve

WellFormedOnly(q) == ~ getPointThrows(q) /\ q # OffCurve    \* mutant

(* -1 is R - 1 in the scalar field, so the sum is R times the point. *)
G2Valid(q) ==
  /\ ~ getPointThrows(q) /\ q # OffCurve
  /\ Sum(Times(R - 1, q, R * Cofactor), q, R * Cofactor) = Inf

NotMember == Throw("not a member of the field")

Result(c) ==
  CASE c.hook = "bn128valid"   -> Value(G1Valid(c.p))
    [] c.hook = "bn128g2valid" -> Value(G2Valid(c.q))
    [] c.hook = "bn128add"     -> IF getPointThrows(c.p) \/ getPointThrows(c.p2)
                                  THEN NotMember ELSE Value(Sum(c.p, c.p2, R))
    [] c.hook = "bn128mul"     -> IF getPointThrows(c.p) THEN NotMember
                                  ELSE Value(Times(c.s, c.p, R))

Return(t, o) == /\ pc' = [pc EXCEPT ![t] = "idle"]
                /\ outcome' = [outcome EXCEPT ![t] = <<o>>]
                /\ UNCHANGED <<bn128_initialized, complete, call, i, accum, ncalls>>

Run(t) == pc[t] = "run" /\ call[t].hook # "bn128ate" /\ Return(t, Result(call[t]))

(* Mutant: the second list may be longer. *)
LenientAteStart(t) ==
  /\ pc[t] = "run" /\ call[t].hook = "bn128ate"
  /\ \/ Len(call[t].g1) > Len(call[t].g2) /\ Return(t, Throw("mismatched list sizes"))
     \/ /\ Len(call[t].g1) <= Len(call[t].g2)
        /\ pc' = [pc EXCEPT ![t] = "loop"]
        /\ i' = [i EXCEPT ![t] = 0] /\ accum' = [accum EXCEPT ![t] = 0]
        /\ UNCHANGED <<bn128_initialized, complete, call, outcome, ncalls>>

AteStart(t) ==
  /\ pc[t] = "run" /\ call[t].hook = "bn128ate"
  /\ \/ Len(call[t].g1) # Len(call[t].g2) /\ Return(t, Throw("mismatched list sizes"))
     \/ /\ Len(call[t].g1) = Len(call[t].g2)
        /\ pc' = [pc EXCEPT ![t] = "loop"]
        /\ i' = [i EXCEPT ![t] = 0]
        /\ accum' = [accum EXCEPT ![t] = 0]
        /\ UNCHANGED <<bn128_initialized, complete, call, outcome, ncalls>>

miller_loop(p, q) == (p * (q \div Cofactor)) % R

(* Mutant: a pair with a point at infinity starts the product anew. *)
RestartedPaired(t, p, q) ==
  IF p = Inf \/ q = Inf THEN 0 ELSE (accum[t] + miller_loop(p, q)) % R

Paired(t, p, q) ==
  IF p = Inf \/ q = Inf THEN accum[t] ELSE (accum[t] + miller_loop(p, q)) % R

AteStep(t) ==
  /\ pc[t] = "loop" /\ i[t] < Len(call[t].g1)
  /\ LET p == call[t].g1[i[t] + 1]
         q == call[t].g2[i[t] + 1]
     IN \/ (getPointThrows(p) \/ getPointThrows(q)) /\ Return(t, NotMember)
        \/ /\ ~ getPointThrows(p) /\ ~ getPointThrows(q)
           /\ accum' = [accum EXCEPT ![t] = Paired(t, p, q)]
           /\ i' = [i EXCEPT ![t] = @ + 1]
           /\ UNCHANGED <<bn128_initialized, complete, pc, call, outcome, ncalls>>

AteFinish(t) == /\ pc[t] = "loop" /\ i[t] = Len(call[t].g1)
                /\ Return(t, Value(accum[t] = 0))

-----------------------------------------------------------------------------
NoCall == [hook |-> "none"]

Init == /\ bn128_initialized = FALSE /\ complete = FALSE
        /\ pc = [t \in Thread |-> "idle"] /\ call = [t \in Thread |-> NoCall]
        /\ i = [t \in Thread |-> 0] /\ accum = [t \in Thread |-> 0]
        /\ outcome = [t \in Thread |-> <<>>] /\ ncalls = [t \in Thread |-> 0]

Hook(t) == \/ CheckFlag(t) \/ Initialise(t) \/ RaiseFlag(t)
           \/ Run(t) \/ AteStart(t) \/ AteStep(t) \/ AteFinish(t)

Next == \E t \in Thread : Hook(t) \/ \E c \in Calls[t] : Begin(t, c)

Spec == Init /\ [][Next]_vars

(* A thread inside a hook goes on; nothing there waits. *)
FairSpec == Spec /\ \A t \in Thread : WF_vars(Hook(t))

-----------------------------------------------------------------------------
(* Correctness. *)

Using(t) == pc[t] \in {"run", "loop"}

(* However the threads interleave, none computes before the parameters were
   filled at least once: the flag is raised behind the initialisation. *)
InitBeforeUse == \A t \in Thread : Using(t) => complete

(* The flag is up and no thread is writing the parameters or about to. *)
Quiet == bn128_initialized /\ \A t \in Thread : pc[t] \notin {"init", "flag"}

(* Several threads may initialise, and one may rewrite the parameters that
   another computes with.  That is over once the flag is up and the threads
   that had seen it down are through: a process that calls a hook before it
   starts its threads is safe. *)
WarmUp == [][Quiet => Quiet']_vars

(* ... and it does come to that, after the first call of any thread. *)
Settles == (\E t \in Thread : ncalls[t] > 0) ~> []Quiet

Done(t, h) == pc[t] = "idle" /\ call[t].hook = h /\ outcome[t] # <<>>

(* isValidPoint of a G2 point accepts exactly the subgroup of order R, although
   it only compares -1 times the point plus the point with infinity: -1 is R - 1
   there, and so the sum is R times the point.  That is less than the curve, which
   krypto.md promises (ValidIsOnCurve). *)
ValidIsSubgroup ==
  \A t \in Thread : Done(t, "bn128g2valid") =>
    outcome[t][1] = Value(InSubgroup(call[t].q))

(* krypto.md:100: "`isValidPoint` takes a point in either G1 or G2 and validates
   that it actually falls on the respective elliptic curve."  This does not hold:
   a point of the curve of G2 outside the subgroup is refused. *)
ValidIsOnCurve ==
  \A t \in Thread : Done(t, "bn128g2valid") => outcome[t][1] = Value(call[t].q \in G2)

(* The exponent of the product of the first k pairings, for every k: a pair with
   a point at infinity counts for nothing. *)
Log(ps, qs) ==
  LET log[k \in 0 .. Len(ps)] ==
        IF k = 0 THEN 0 ELSE log[k - 1] + ps[k] * (qs[k] \div Cofactor)
  IN  log

(* The pairing throws for lists of different lengths and for a coordinate
   outside the field, at whatever place and also beside a point at infinity;
   otherwise it says whether the pairings cancel. *)
AteCancels ==
  \A t \in Thread : Done(t, "bn128ate") =>
    LET ps == call[t].g1
        qs == call[t].g2
        n  == Len(ps)
    IN IF Len(qs) # n THEN outcome[t][1].kind = "throw"
       ELSE IF \E k \in 1 .. n : OffField \in {ps[k], qs[k]}
            THEN outcome[t][1] = NotMember
            ELSE outcome[t][1] = Value(Log(ps, qs)[n] % R = 0)

=============================================================================
