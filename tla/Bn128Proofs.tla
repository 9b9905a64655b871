---------------------------- MODULE Bn128Proofs ----------------------------
(***************************************************************************)
(* What holds of initBN128 and of the hooks' answers for every number of   *)
(* threads and calls.                                                      *)
(***************************************************************************)
EXTENDS Bn128, WellFoundedInduction, TLAPS

Place == {"idle", "check", "init", "flag", "run", "loop"}

PcOK == pc \in [Thread -> Place]

(* The flag and every thread behind the initialisation vouch for it. *)
IInv == /\ PcOK
        /\ bn128_initialized => complete
        /\ \A t \in Thread : pc[t] \in {"flag", "run", "loop"} => complete

LEMMA InitIInv == Init => IInv
BY DEF Init, IInv, PcOK, Place

(* What a step does to a thread's place: the thread that moves goes to p, and
   the others stay where they are. *)
Moves(t, p) == pc' = [pc EXCEPT ![t] = p]

LEMMA ReturnMoves ==
  ASSUME NEW t, NEW o, Return(t, o)
  PROVE  /\ Moves(t, "idle")
         /\ UNCHANGED <<bn128_initialized, complete>>
BY DEF Return, Moves

(* Every step of a hook, as far as the initialisation is concerned. *)
LEMMA Steps ==
  ASSUME NEW t \in Thread, Hook(t) \/ \E c \in Calls[t] : Begin(t, c)
  PROVE  \/ /\ pc[t] = "idle" /\ Moves(t, "check")
            /\ UNCHANGED <<bn128_initialized, complete>>
         \/ /\ pc[t] = "check" /\ Moves(t, IF bn128_initialized THEN "run" ELSE "init")
            /\ UNCHANGED <<bn128_initialized, complete>>
         \/ /\ pc[t] = "init" /\ Moves(t, "flag")
            /\ complete' = TRUE /\ UNCHANGED bn128_initialized
         \/ /\ pc[t] = "flag" /\ Moves(t, "run")
            /\ bn128_initialized' = TRUE /\ UNCHANGED complete
         \/ /\ pc[t] = "run" /\ Moves(t, "loop")
            /\ UNCHANGED <<bn128_initialized, complete>>
         \/ /\ pc[t] \in {"run", "loop"} /\ Moves(t, "idle")
            /\ UNCHANGED <<bn128_initialized, complete>>
         \/ /\ pc[t] = "loop"
            /\ UNCHANGED <<pc, bn128_initialized, complete>>
<1>1. CASE \E c \in Calls[t] : Begin(t, c)
  BY <1>1 DEF Begin, Moves
<1>2. CASE CheckFlag(t)
  BY <1>2 DEF CheckFlag, Moves
<1>3. CASE Initialise(t)
  BY <1>3 DEF Initialise, Moves
<1>4. CASE RaiseFlag(t)
  BY <1>4 DEF RaiseFlag, Moves
<1>5. CASE Run(t)
  BY <1>5, ReturnMoves DEF Run
<1>6. CASE AteStart(t)
  <2>1. CASE \E o : Return(t, o)
    BY <1>6, <2>1, ReturnMoves DEF AteStart
  <2>2. CASE ~ \E o : Return(t, o)
    BY <1>6, <2>2 DEF AteStart, Moves
  <2>. QED BY <2>1, <2>2
<1>7. CASE AteStep(t)
  <2>1. CASE \E o : Return(t, o)
    BY <1>7, <2>1, ReturnMoves DEF AteStep
  <2>2. CASE ~ \E o : Return(t, o)
    BY <1>7, <2>2 DEF AteStep
  <2>. QED BY <2>1, <2>2
<1>8. CASE AteFinish(t)
  BY <1>8, ReturnMoves DEF AteFinish
<1>. QED
  BY <1>1, <1>2, <1>3, <1>4, <1>5, <1>6, <1>7, <1>8 DEF Hook

LEMMA NextIInv == IInv /\ [Next]_vars => IInv'
<1> SUFFICES ASSUME IInv, [Next]_vars PROVE IInv'
  OBVIOUS
<1>1. CASE UNCHANGED vars
  BY <1>1 DEF vars, IInv, PcOK
<1>2. ASSUME NEW t \in Thread, Hook(t) \/ \E c \in Calls[t] : Begin(t, c)
      PROVE  IInv'
  <2>1. complete => complete'
    BY <1>2, Steps
  <2>2. PcOK'
    BY <1>2, Steps DEF IInv, PcOK, Place, Moves
  <2>3. bn128_initialized' => complete'
    BY <1>2, Steps DEF IInv
  <2>4. \A u \in Thread \ {t} : pc'[u] = pc[u]
    BY <1>2, Steps DEF IInv, PcOK, Moves
  <2>5. pc'[t] \in {"flag", "run", "loop"} => complete'
    BY <1>2, Steps DEF IInv, PcOK, Place, Moves
  <2>. QED
    BY <2>1, <2>2, <2>3, <2>4, <2>5 DEF IInv
<1>. QED
  BY <1>1, <1>2 DEF Next

(* However many threads call hooks for the first time at once, none of them
   computes before init_public_params (crypto.cpp 230-237) has returned once. *)
THEOREM InitFirst == Spec => []InitBeforeUse
<1>1. IInv => InitBeforeUse
  BY DEF IInv, InitBeforeUse, Using
<1>. QED
  BY <1>1, InitIInv, NextIInv, PTL DEF Spec

(* Once the flag is up and nobody is initialising, nobody ever will again. *)
THEOREM QuietForGood == Spec => WarmUp
<1>1. IInv /\ [Next]_vars => (Quiet => Quiet')
  <2> SUFFICES ASSUME IInv, [Next]_vars, Quiet PROVE Quiet'
    OBVIOUS
  <2>1. CASE UNCHANGED vars
    BY <2>1 DEF vars, Quiet
  <2>2. ASSUME NEW t \in Thread, Hook(t) \/ \E c \in Calls[t] : Begin(t, c)
        PROVE  Quiet'
    BY <2>2, Steps DEF IInv, PcOK, Place, Moves, Quiet
  <2>. QED BY <2>1, <2>2 DEF Next
<1>2. IInv /\ [Next]_vars => [Quiet => Quiet']_vars
  BY <1>1
<1>. QED
  BY <1>2, InitIInv, NextIInv, PTL DEF Spec, WarmUp

-----------------------------------------------------------------------------
(* What the hooks answer. *)

LEMMA NoRemainder ==
  ASSUME NEW a \in Int, NEW b \in Nat \ {0}, NEW k \in Int, a = k * b PROVE a % b = 0
OBVIOUS

(* A number is a multiple of another if that leaves no remainder. *)
LEMMA Multiple ==
  ASSUME NEW a \in Int, NEW b \in Nat \ {0}
  PROVE  a % b = 0 <=> \E k \in Int : a = k * b
<1>1. a \div b \in Int /\ a = b * (a \div b) + (a % b)
  OBVIOUS
<1>2. ASSUME a % b = 0 PROVE \E k \in Int : a = k * b
  <2>1. PICK d \in Int : a = b * d + 0
    BY <1>1, <1>2
  <2>2. a = d * b
    BY <2>1
  <2>. QED BY <2>2
<1>3. ASSUME NEW k \in Int, a = k * b PROVE a % b = 0
  BY <1>3, NoRemainder
<1>. QED BY <1>2, <1>3

LEMMA Product == ASSUME NEW a \in Nat \ {0}, NEW b \in Nat \ {0} PROVE a * b \in Nat \ {0}
<1>1. (a - 1) * b \in Nat /\ a * b = (a - 1) * b + b
  OBVIOUS
<1>. QED BY <1>1

(* The points that -1 takes to their inverses are those of the subgroup. *)
LEMMA InverseOnly ==
  ASSUME NEW q \in G2
  PROVE  ((((R - 1) * q) % (R * Cofactor)) + q) % (R * Cofactor) = 0 <=> q % Cofactor = 0
<1> DEFINE n == R * Cofactor
           m == ((R - 1) * q) % n
           d == ((R - 1) * q) \div n
<1>1. R \in Nat \ {0} /\ Cofactor \in Nat \ {0} /\ q \in Int
  BY GroupAssumption DEF G2
<1>2. n \in Nat \ {0}
  BY <1>1, Product
<1>3. (R - 1) * q \in Int /\ (R - 1) * q = R * q - q
  BY <1>1
<1>4. m \in Int /\ d \in Int /\ R * q - q = n * d + m
  <2> HIDE DEF n
  <2>. QED BY <1>2, <1>3
<1>5. m + q = R * q - d * n
  <2> HIDE DEF n, m, d
  <2>. QED BY <1>1, <1>2, <1>4
<1>6. ASSUME NEW j \in Int, m + q = j * n PROVE \E k \in Int : q = k * Cofactor
  <2>1. R * q = (j + d) * n
    <3> HIDE DEF n, m, d
    <3>. QED BY <1>1, <1>2, <1>4, <1>5, <1>6
  <2>2. PICK k \in Int : k = j + d
    BY <1>4, <1>6
  <2>3. R * (q - k * Cofactor) = 0
    BY <1>1, <2>1, <2>2
  <2>. QED BY <1>1, <2>2, <2>3
<1>7. ASSUME NEW k \in Int, q = k * Cofactor PROVE \E j \in Int : m + q = j * n
  <2>1. R * q = k * n
    BY <1>1, <1>7
  <2>2. m + q = (k - d) * n
    <3> HIDE DEF n, m, d
    <3>. QED BY <1>1, <1>2, <1>4, <1>5, <1>7, <2>1
  <2>. QED BY <1>4, <1>7, <2>2
<1>8. (m + q) % n = 0 <=> \E j \in Int : m + q = j * n
  <2>1. m + q \in Int
    <3> HIDE DEF m
    <3>. QED BY <1>1, <1>4
  <2> HIDE DEF n, m
  <2>. QED BY <1>2, <2>1, Multiple, Zenon
<1>9. q % Cofactor = 0 <=> \E k \in Int : q = k * Cofactor
  BY <1>1, Multiple
<1>. QED BY <1>6, <1>7, <1>8, <1>9

LEMMA ValidMeansSubgroup ==
  ASSUME NEW q \in G2 \cup {OffCurve, OffField} PROVE G2Valid(q) <=> InSubgroup(q)
<1>1. CASE q \in {OffCurve, OffField}
  BY <1>1, CallsAssumption DEF G2Valid, InSubgroup, getPointThrows
<1>2. CASE q \in G2
  <2>1. q # OffCurve /\ q # OffField
    BY <1>2, CallsAssumption
  <2>2. ((R - 1) * q) % (R * Cofactor) \in Int
    BY <1>2, GroupAssumption DEF G2
  <2>3. ((R - 1) * q) % (R * Cofactor) # OffCurve
    <3>1. R * Cofactor \in Nat \ {0} /\ (R - 1) * q \in Int
      BY <1>2, GroupAssumption, Product DEF G2
    <3>2. ((R - 1) * q) % (R * Cofactor) \in G2
      <4> DEFINE n == R * Cofactor
                 a == (R - 1) * q
      <4>1. n \in Nat \ {0} /\ a \in Int
        BY <3>1
      <4>2. a % n \in 0 .. n - 1
        <5> HIDE DEF n, a
        <5>. QED BY <4>1
      <4>. QED BY <4>2 DEF G2
    <3>. QED BY <3>2, CallsAssumption
  <2>4. G2Valid(q) <=> ((((R - 1) * q) % (R * Cofactor)) + q) % (R * Cofactor) = 0
    BY <2>1, <2>3 DEF G2Valid, getPointThrows, Sum, Times, Inf
  <2>. QED BY <1>2, <2>4, InverseOnly DEF InSubgroup
<1>. QED BY <1>1, <1>2

-----------------------------------------------------------------------------
(* Remainders. *)

LEMMA Quotient ==
  ASSUME NEW a \in Int, NEW n \in Nat \ {0}
  PROVE  \E q \in Int, r \in 0 .. n - 1 : a % n = r /\ a = q * n + r
<1>1. a \div n \in Int /\ a % n \in 0 .. n - 1 /\ a = (a \div n) * n + (a % n)
  OBVIOUS
<1>. QED BY <1>1, Zenon

LEMMA OneRemainder ==
  ASSUME NEW n \in Nat \ {0}, NEW r \in 0 .. n - 1, NEW s \in 0 .. n - 1,
         NEW j \in Int, r - s = j * n
  PROVE  r = s
<1>1. CASE j = 0
  BY <1>1
<1>2. CASE j >= 1
  <2>1. (j - 1) * n >= 0 /\ (j - 1) * n = j * n - n
    BY <1>2
  <2>. QED BY <2>1
<1>3. CASE j <= -1
  <2>1. (-1 - j) * n >= 0 /\ (-1 - j) * n = -n - j * n
    BY <1>3
  <2>. QED BY <2>1
<1>. QED BY <1>1, <1>2, <1>3

LEMMA SameRemainder ==
  ASSUME NEW n \in Nat \ {0}, NEW a \in Int, NEW b \in Int, NEW j \in Int, a - b = j * n
  PROVE  a % n = b % n
<1>1. PICK u \in Int, r \in 0 .. n - 1 : a % n = r /\ a = u * n + r
  BY Quotient, Zenon
<1>2. PICK v \in Int, s \in 0 .. n - 1 : b % n = s /\ b = v * n + s
  BY Quotient, Zenon
<1>3. PICK k \in Int : k = j - u + v
  OBVIOUS
<1>4. r - s = k * n
  BY <1>1, <1>2, <1>3
<1>5. r = s
  BY <1>4, OneRemainder, Zenon
<1>. QED BY <1>1, <1>2, <1>5

(* A remainder may be taken of a term of a sum first. *)
LEMMA SumOfRemainder ==
  ASSUME NEW n \in Nat \ {0}, NEW a \in Int, NEW b \in Int
  PROVE  ((a % n) + b) % n = (a + b) % n
<1>1. PICK u \in Int, r \in 0 .. n - 1 : a % n = r /\ a = u * n + r
  BY Quotient, Zenon
<1>2. a + b \in Int /\ r + b \in Int /\ (a + b) - (r + b) = u * n
  BY <1>1
<1>3. (a + b) % n = (r + b) % n
  BY <1>2, SameRemainder, Zenon
<1>. QED BY <1>1, <1>3

-----------------------------------------------------------------------------
(* The exponent that AteCancels speaks of.  The prover has no induction over a
   property, so induction is over the members of a set, which has a least
   element that is missing if any is. *)

LEMMA NatSetInduction ==
  ASSUME NEW A, 0 \in A, \A n \in Nat : n \in A => n + 1 \in A
  PROVE  Nat \subseteq A
<1> SUFFICES ASSUME Nat \ A # {} PROVE FALSE
  OBVIOUS
<1> DEFINE Less == OpToRel(<, Nat)
<1>1. IsWellFoundedOn(Less, Nat)
  BY NatLessThanWellFounded
<1>2. PICK x \in Nat \ A : \A y \in Nat \ A : <<y, x>> \notin Less
  <2> HIDE DEF Less
  <2>1. Nat \ A \subseteq Nat
    OBVIOUS
  <2>. QED BY <1>1, <2>1, WFMin, Zenon
<1> HIDE DEF Less
<1>3. x # 0 /\ x - 1 \in Nat /\ x - 1 < x
  BY <1>2
<1>4. x - 1 \in Nat \ A
  BY <1>2, <1>3
<1>5. <<x - 1, x>> \in Less
  BY <1>3 DEF Less, OpToRel
<1>. QED BY <1>2, <1>4, <1>5

Meets(ps, qs, n, log) ==
  log = [k \in 0 .. n |-> IF k = 0 THEN 0 ELSE log[k - 1] + ps[k] * (qs[k] \div Cofactor)]

(* There is a function that meets the recursion, whatever the lists hold ... *)
LEMMA LogExists ==
  ASSUME NEW ps, NEW qs, NEW n \in Nat PROVE \E log : Meets(ps, qs, n, log)
<1> DEFINE A == { m \in Nat : \E log : Meets(ps, qs, m, log) }
<1>1. 0 \in A
  <2>1. Meets(ps, qs, 0, [k \in 0 .. 0 |-> 0])
    BY DEF Meets
  <2>. QED BY <2>1
<1>2. ASSUME NEW m \in Nat, m \in A PROVE m + 1 \in A
  <2>1. PICK log : Meets(ps, qs, m, log)
    BY <1>2
  <2> DEFINE more == [k \in 0 .. m + 1 |->
                        IF k <= m THEN log[k]
                        ELSE log[m] + ps[m + 1] * (qs[m + 1] \div Cofactor)]
  <2>2. \A k \in 0 .. m + 1 :
          more[k] = IF k = 0 THEN 0 ELSE more[k - 1] + ps[k] * (qs[k] \div Cofactor)
    BY <2>1 DEF Meets
  <2>3. Meets(ps, qs, m + 1, more)
    BY <2>2 DEF Meets
  <2>. QED BY <2>3
<1>3. n \in A
  <2> HIDE DEF A
  <2>. QED BY <1>1, <1>2, NatSetInduction
<1>. QED BY <1>3

(* ... so that Log does. *)
LEMMA LogIs ==
  ASSUME NEW ps, NEW qs, Len(ps) \in Nat
  PROVE  /\ Log(ps, qs)[0] = 0
         /\ \A k \in 1 .. Len(ps) :
              Log(ps, qs)[k] = Log(ps, qs)[k - 1] + ps[k] * (qs[k] \div Cofactor)
<1> DEFINE log == CHOOSE f : Meets(ps, qs, Len(ps), f)
<1>1. Meets(ps, qs, Len(ps), log)
  BY LogExists
<1>2. Log(ps, qs) = log
  BY DEF Log, Meets
<1> HIDE DEF log
<1>3. log[0] = 0 /\ \A k \in 1 .. Len(ps) : log[k] = log[k - 1] + ps[k] * (qs[k] \div Cofactor)
  BY <1>1 DEF Meets
<1>. QED BY <1>2, <1>3, Zenon

(* One more pair, whichever way the loop takes with it. *)
Grown(a, p, q) == a + p * (q \div Cofactor)

LEMMA LogStep ==
  ASSUME NEW p \in G1, NEW q \in G2, NEW a \in Int, NEW t, accum[t] = a % R
  PROVE  Grown(a, p, q) \in Int /\ Paired(t, p, q) = Grown(a, p, q) % R
<1>1. R \in Nat \ {0} /\ Cofactor \in Nat \ {0} /\ p \in Int /\ q \in Int
  BY GroupAssumption DEF G1, G2
<1>2. q \div Cofactor \in Int
  BY <1>1
<1>3. PICK d \in Int : d = q \div Cofactor /\ (q = 0 => d = 0)
  BY <1>1
<1>4. p * d \in Int /\ a + p * d \in Int /\ Grown(a, p, q) = a + p * d
  BY <1>1, <1>3 DEF Grown
<1>5. CASE p = Inf \/ q = Inf
  <2>1. p * d = 0
    BY <1>1, <1>3, <1>5 DEF Inf
  <2>2. a + p * d = a
    BY <2>1
  <2>. QED BY <1>3, <1>4, <1>5, <2>2, Zenon DEF Paired
<1>6. CASE ~ (p = Inf \/ q = Inf)
  <2>1. Paired(t, p, q) = ((a % R) + ((p * d) % R)) % R
    BY <1>3, <1>6, Zenon DEF Paired, miller_loop
  <2>2. (p * d) % R \in Int /\ a % R \in Int
    BY <1>1, <1>4
  <2>3. ((a % R) + ((p * d) % R)) % R = (a + ((p * d) % R)) % R
    BY <1>1, <2>2, SumOfRemainder, Zenon
  <2>4. PICK r \in Int : r = (p * d) % R
    BY <2>2
  <2>5. PICK w \in Int : w = p * d
    BY <1>4
  <2>6. ((w % R) + a) % R = (w + a) % R
    BY <1>1, SumOfRemainder, Zenon
  <2>7. a + r = r + a /\ a + w = w + a
    OBVIOUS
  <2>8. (a + r) % R = (a + w) % R
    BY <2>4, <2>5, <2>6, <2>7
  <2>. QED BY <1>3, <1>4, <2>1, <2>3, <2>4, <2>5, <2>8, Zenon
<1>. QED BY <1>5, <1>6

-----------------------------------------------------------------------------
(* The answers of the five hooks. *)

(* A pair the loop of bn128ate cannot get past. *)
BadPair(c, k) == OffField \in {c.g1[k], c.g2[k]}

(* What a pairing check answers. *)
AteRight(c, o) ==
  /\ Len(c.g1) # Len(c.g2) => o = Throw("mismatched list sizes")
  /\ Len(c.g1) = Len(c.g2) =>
       IF \E k \in 1 .. Len(c.g1) : BadPair(c, k) THEN o = NotMember
       ELSE o = Value(Log(c.g1, c.g2)[Len(c.g1)] % R = 0)

Right(c, o) ==
  /\ c.hook = "bn128g2valid" => o = Value(InSubgroup(c.q))
  /\ c.hook = "bn128ate" => AteRight(c, o)

Domains == /\ DOMAIN pc = Thread /\ DOMAIN call = Thread
           /\ DOMAIN i = Thread /\ DOMAIN accum = Thread /\ DOMAIN outcome = Thread

Multiplied(t, c, n) == LET a == Log(c.g1, c.g2)[n] IN a \in Int /\ accum[t] = a % R

(* A thread in the loop has passed good pairs only, and multiplied them all. *)
InLoop(t) ==
  /\ call[t].hook = "bn128ate" /\ Len(call[t].g1) = Len(call[t].g2)
  /\ i[t] \in 0 .. Len(call[t].g1)
  /\ \A k \in 1 .. i[t] : ~ BadPair(call[t], k)
  /\ Multiplied(t, call[t], i[t])

AnswerOf(t) ==
  /\ pc[t] # "idle" => call[t] \in Calls[t]
  /\ pc[t] = "loop" => InLoop(t)
  /\ pc[t] = "idle" /\ outcome[t] # <<>> => Right(call[t], outcome[t][1])

AnswerInv == Domains /\ \A t \in Thread : AnswerOf(t)

LEMMA InitAnswer == Init => AnswerInv
BY DEF Init, AnswerInv, Domains, AnswerOf

(* A thread's step leaves the others' calls alone. *)
LEMMA Frame ==
  ASSUME NEW t \in Thread, Domains, Hook(t) \/ \E c \in Calls[t] : Begin(t, c)
  PROVE  /\ Domains'
         /\ \A u \in Thread \ {t} :
              /\ pc'[u] = pc[u] /\ call'[u] = call[u]
              /\ i'[u] = i[u] /\ accum'[u] = accum[u] /\ outcome'[u] = outcome[u]
<1> USE DEF Domains
<1>1. CASE \E c \in Calls[t] : Begin(t, c)
  BY <1>1 DEF Begin
<1>2. CASE CheckFlag(t) \/ Initialise(t) \/ RaiseFlag(t)
  BY <1>2 DEF CheckFlag, Initialise, RaiseFlag
<1>3. CASE Run(t) \/ AteFinish(t)
  BY <1>3 DEF Run, AteFinish, Return
<1>4. CASE AteStart(t)
  BY <1>4 DEF AteStart, Return
<1>5. CASE AteStep(t)
  BY <1>5 DEF AteStep, Return
<1>. QED BY <1>1, <1>2, <1>3, <1>4, <1>5 DEF Hook

(* A hook that returns a right answer is right. *)
LEMMA Returned ==
  ASSUME NEW t \in Thread, NEW o, Domains, Return(t, o), Right(call[t], o)
  PROVE  AnswerOf(t)'
<1>1. pc'[t] = "idle" /\ outcome'[t] = <<o>> /\ call' = call
  BY DEF Return, Domains
<1>2. outcome'[t][1] = o
  BY <1>1
<1>3. Right(call[t], o)'
  BY <1>1 DEF Right, AteRight, BadPair
<1>. QED BY <1>1, <1>2 DEF AnswerOf

LEMMA RunAnswer ==
  ASSUME NEW t \in Thread, AnswerInv, Run(t) PROVE AnswerOf(t)'
<1>1. Domains /\ call[t] \in Calls[t] /\ call[t].hook # "bn128ate" /\ Return(t, Result(call[t]))
  BY DEF AnswerInv, AnswerOf, Run
<1>2. Right(call[t], Result(call[t]))
  <2>1. CASE call[t].hook = "bn128g2valid"
    <3>1. Result(call[t]) = Value(G2Valid(call[t].q))
      BY <2>1 DEF Result
    <3>2. call[t].q \in G2 \cup {OffCurve, OffField}
      BY <1>1, <2>1, CallsAssumption
    <3>3. G2Valid(call[t].q) = InSubgroup(call[t].q)
      BY <3>2, ValidMeansSubgroup DEF G2Valid, InSubgroup
    <3>. QED BY <2>1, <3>1, <3>3 DEF Right
  <2>2. CASE call[t].hook # "bn128g2valid"
    BY <1>1, <2>2 DEF Right
  <2>. QED BY <2>1, <2>2
<1>. QED BY <1>1, <1>2, Returned

(* The lists of a pairing check, and a pair of them. *)
LEMMA Lists ==
  ASSUME NEW t \in Thread, NEW c \in Calls[t], c.hook = "bn128ate"
  PROVE  /\ Len(c.g1) \in Nat
         /\ Len(c.g1) = Len(c.g2) =>
              \A k \in 1 .. Len(c.g1) : ~ BadPair(c, k) => c.g1[k] \in G1 /\ c.g2[k] \in G2
<1>1. /\ c.g1 \in Seq(G1 \cup {OffField})
      /\ c.g2 \in Seq({ q \in G2 : InSubgroup(q) } \cup {OffField})
  BY CallsAssumption
<1>2. Len(c.g1) \in Nat
  BY <1>1
<1>3. ASSUME Len(c.g1) = Len(c.g2), NEW k \in 1 .. Len(c.g1), ~ BadPair(c, k)
      PROVE  c.g1[k] \in G1 /\ c.g2[k] \in G2
  <2>1. c.g1[k] \in G1 \cup {OffField}
    BY <1>1, <1>3
  <2>2. c.g2[k] \in { q \in G2 : InSubgroup(q) } \cup {OffField}
    BY <1>1, <1>3
  <2>. QED BY <1>3, <2>1, <2>2 DEF BadPair
<1>. QED BY <1>2, <1>3

LEMMA MoreMultiplied ==
  ASSUME NEW t, NEW c, Len(c.g1) \in Nat, NEW n \in 0 .. Len(c.g1), n + 1 \in 1 .. Len(c.g1),
         c.g1[n + 1] \in G1, c.g2[n + 1] \in G2, Multiplied(t, c, n)
  PROVE  LET a == Log(c.g1, c.g2)[n + 1]
         IN  a \in Int /\ Paired(t, c.g1[n + 1], c.g2[n + 1]) = a % R
<1>1. PICK p \in G1, q \in G2 : p = c.g1[n + 1] /\ q = c.g2[n + 1]
  OBVIOUS
<1>2. PICK log : log = Log(c.g1, c.g2)
  OBVIOUS
<1>3. PICK a \in Int : a = log[n] /\ accum[t] = a % R
  BY <1>2, Zenon DEF Multiplied
<1>4. PICK m : m = n + 1
  OBVIOUS
<1>5. log[m] = log[m - 1] + c.g1[m] * (c.g2[m] \div Cofactor)
  <2>1. \A k \in 1 .. Len(c.g1) : log[k] = log[k - 1] + c.g1[k] * (c.g2[k] \div Cofactor)
    <3>1. PICK ps, qs : ps = c.g1 /\ qs = c.g2
      OBVIOUS
    <3>2. Len(ps) \in Nat
      BY <3>1
    <3>3. \A k \in 1 .. Len(ps) :
            Log(ps, qs)[k] = Log(ps, qs)[k - 1] + ps[k] * (qs[k] \div Cofactor)
      BY <3>2, LogIs
    <3>. QED BY <1>2, <3>1, <3>3, Zenon
  <2>. QED BY <1>4, <2>1, Zenon
<1>6. m - 1 = n
  BY <1>4
<1>7. log[m] = Grown(a, p, q)
  BY <1>1, <1>3, <1>4, <1>5, <1>6, Zenon DEF Grown
<1>8. Grown(a, p, q) \in Int /\ Paired(t, p, q) = Grown(a, p, q) % R
  BY <1>3, LogStep, Zenon
<1>. QED BY <1>1, <1>2, <1>4, <1>7, <1>8, Zenon

LEMMA StartAnswer ==
  ASSUME NEW t \in Thread, AnswerInv, AteStart(t) PROVE AnswerOf(t)'
<1>1. Domains /\ call[t] \in Calls[t] /\ call[t].hook = "bn128ate"
  BY DEF AnswerInv, AnswerOf, AteStart
<1>2. CASE Len(call[t].g1) # Len(call[t].g2)
  <2>1. Return(t, Throw("mismatched list sizes"))
    BY <1>2 DEF AteStart
  <2>2. Right(call[t], Throw("mismatched list sizes"))
    BY <1>1, <1>2 DEF Right, AteRight
  <2>. QED BY <1>1, <2>1, <2>2, Returned
<1>3. CASE Len(call[t].g1) = Len(call[t].g2)
  <2>1. pc'[t] = "loop" /\ i'[t] = 0 /\ accum'[t] = 0 /\ call' = call
    BY <1>1, <1>3 DEF AteStart, Domains
  <2>2. Len(call[t].g1) \in Nat
    BY <1>1, Lists
  <2>3. Multiplied(t, call[t], 0)'
    <3>1. Log(call[t].g1, call[t].g2)[0] = 0
      BY <2>2, LogIs, Zenon
    <3>2. 0 % R = 0
      BY GroupAssumption
    <3>. QED BY <2>1, <3>1, <3>2 DEF Multiplied
  <2>4. InLoop(t)'
    BY <1>1, <1>3, <2>1, <2>2, <2>3 DEF InLoop
  <2>. QED BY <1>1, <2>1, <2>4 DEF AnswerOf
<1>. QED BY <1>2, <1>3

LEMMA LoopAnswer ==
  ASSUME NEW t \in Thread, AnswerInv, AteStep(t) \/ AteFinish(t) PROVE AnswerOf(t)'
<1>1. /\ Domains /\ call[t] \in Calls[t] /\ InLoop(t)
      /\ call[t].hook = "bn128ate" /\ Len(call[t].g1) = Len(call[t].g2)
  BY DEF AnswerInv, AnswerOf, AteStep, AteFinish, InLoop
<1>2. Len(call[t].g1) \in Nat /\ i[t] \in 0 .. Len(call[t].g1)
  BY <1>1, Lists DEF InLoop
<1>3. CASE AteFinish(t)
  <2>1. Return(t, Value(accum[t] = 0)) /\ i[t] = Len(call[t].g1)
    BY <1>3 DEF AteFinish
  <2>2. accum[t] = Log(call[t].g1, call[t].g2)[Len(call[t].g1)] % R
    BY <1>1, <2>1 DEF InLoop, Multiplied
  <2>3. ~ \E k \in 1 .. Len(call[t].g1) : BadPair(call[t], k)
    BY <1>1, <2>1 DEF InLoop
  <2>4. AteRight(call[t], Value(accum[t] = 0))
    BY <1>1, <2>2, <2>3, Zenon DEF AteRight
  <2>5. Right(call[t], Value(accum[t] = 0))
    BY <1>1, <2>4 DEF Right
  <2>. QED BY <1>1, <2>1, <2>5, Returned
<1>4. CASE AteStep(t)
  <2>1. i[t] + 1 \in 1 .. Len(call[t].g1)
    BY <1>2, <1>4 DEF AteStep
  <2>2. CASE BadPair(call[t], i[t] + 1)
    <3>1. Return(t, NotMember)
      BY <1>4, <2>2 DEF AteStep, BadPair, getPointThrows
    <3>2. Right(call[t], NotMember)
      BY <1>1, <2>1, <2>2 DEF Right, AteRight
    <3>. QED BY <1>1, <3>1, <3>2, Returned
  <2>3. CASE ~ BadPair(call[t], i[t] + 1)
    <3>1. UNCHANGED <<pc, call, outcome>> /\ i'[t] = i[t] + 1 /\ pc[t] = "loop"
      BY <1>1, <1>4, <2>3 DEF AteStep, BadPair, getPointThrows, Domains
    <3>2. \A k \in 1 .. i[t] + 1 : ~ BadPair(call[t], k)
      <4> SUFFICES ASSUME NEW k \in 1 .. i[t] + 1 PROVE ~ BadPair(call[t], k)
        OBVIOUS
      <4>1. k \in 1 .. i[t] \/ k = i[t] + 1
        BY <1>2
      <4>. QED BY <1>1, <2>3, <4>1 DEF InLoop
    <3>3. i'[t] \in 0 .. Len(call[t].g1)
      BY <1>2, <2>1, <3>1
    <3>4. Multiplied(t, call[t], i[t])'
      <4>1. PICK c, n : c = call[t] /\ n = i[t]
        OBVIOUS
      <4>2. c.g1[n + 1] \in G1 /\ c.g2[n + 1] \in G2
        BY <1>1, <2>1, <2>3, <4>1, Lists
      <4>3. accum'[t] = Paired(t, c.g1[n + 1], c.g2[n + 1])
        BY <1>1, <1>4, <2>3, <4>1 DEF AteStep, BadPair, getPointThrows, Domains
      <4>4. Multiplied(t, c, n)
        BY <1>1, <4>1 DEF InLoop
      <4>5. Log(c.g1, c.g2)[n + 1] \in Int /\ accum'[t] = Log(c.g1, c.g2)[n + 1] % R
        <5>1. Len(c.g1) \in Nat /\ n \in 0 .. Len(c.g1) /\ n + 1 \in 1 .. Len(c.g1)
          BY <1>2, <2>1, <4>1
        <5>. QED BY <4>2, <4>3, <4>4, <5>1, MoreMultiplied, Zenon
      <4>6. call'[t] = c /\ i'[t] = n + 1
        BY <1>1, <3>1, <4>1
      <4>. QED BY <4>5, <4>6, Zenon DEF Multiplied
    <3>5. InLoop(t)'
      BY <1>1, <3>1, <3>2, <3>3, <3>4 DEF InLoop, BadPair
    <3>. QED BY <1>1, <3>1, <3>5 DEF AnswerOf
  <2>. QED BY <2>2, <2>3
<1>. QED BY <1>3, <1>4

LEMMA NextAnswer == AnswerInv /\ [Next]_vars => AnswerInv'
<1> SUFFICES ASSUME AnswerInv, [Next]_vars PROVE AnswerInv'
  OBVIOUS
<1>1. CASE UNCHANGED vars
  BY <1>1 DEF vars, AnswerInv, Domains, AnswerOf, InLoop, Multiplied, Right, AteRight,
     BadPair
<1>2. ASSUME NEW t \in Thread, Hook(t) \/ \E c \in Calls[t] : Begin(t, c)
      PROVE  AnswerInv'
  <2>1. AnswerOf(t)'
    <3>1. CASE \E c \in Calls[t] : Begin(t, c)
      BY <3>1 DEF AnswerInv, Domains, AnswerOf, Begin
    <3>2. CASE CheckFlag(t)
      BY <3>2 DEF AnswerInv, Domains, AnswerOf, CheckFlag
    <3>3. CASE Initialise(t) \/ RaiseFlag(t)
      BY <3>3 DEF AnswerInv, Domains, AnswerOf, Initialise, RaiseFlag
    <3>. QED
      BY <1>2, <3>1, <3>2, <3>3, RunAnswer, StartAnswer, LoopAnswer DEF Hook
  <2>2. ASSUME NEW u \in Thread \ {t} PROVE AnswerOf(u)'
    <3>1. /\ pc'[u] = pc[u] /\ call'[u] = call[u]
          /\ i'[u] = i[u] /\ accum'[u] = accum[u] /\ outcome'[u] = outcome[u]
      BY <1>2, Frame DEF AnswerInv
    <3>2. AnswerOf(u)
      BY DEF AnswerInv
    <3>3. (InLoop(u) <=> InLoop(u)') /\ (Right(call[u], outcome[u][1])
                                          <=> Right(call[u], outcome[u][1])')
      BY <3>1, Zenon DEF InLoop, Multiplied, Right, AteRight, BadPair
    <3>. QED BY <3>1, <3>2, <3>3 DEF AnswerOf
  <2>3. Domains'
    BY <1>2, Frame DEF AnswerInv
  <2>. QED BY <2>1, <2>2, <2>3 DEF AnswerInv
<1>. QED BY <1>1, <1>2 DEF Next

(* isValidPoint of a G2 point (crypto.cpp 312-322) tells exactly the subgroup,
   for every order and cofactor, whatever the other threads do. *)
THEOREM SubgroupOnly == Spec => []ValidIsSubgroup
<1>1. AnswerInv => ValidIsSubgroup
  BY DEF AnswerInv, AnswerOf, Right, ValidIsSubgroup, Done
<1>. QED BY <1>1, InitAnswer, NextAnswer, PTL DEF Spec

(* bn128ate (crypto.cpp 339-366) says whether the pairings cancel, for lists of
   every length, and throws for what it should and nothing else, whatever the
   other threads do. *)
THEOREM AteSaysRight == Spec => []AteCancels
<1>1. AnswerInv => AteCancels
  <2> SUFFICES ASSUME AnswerInv, NEW t \in Thread, Done(t, "bn128ate")
               PROVE  LET ps == call[t].g1
                          qs == call[t].g2
                          n  == Len(ps)
                      IN IF Len(qs) # n THEN outcome[t][1].kind = "throw"
                         ELSE IF \E k \in 1 .. n : OffField \in {ps[k], qs[k]}
                              THEN outcome[t][1] = NotMember
                              ELSE outcome[t][1] = Value(Log(ps, qs)[n] % R = 0)
    BY DEF AteCancels
  <2>1. AteRight(call[t], outcome[t][1])
    BY DEF AnswerInv, AnswerOf, Done, Right
  <2>2. Throw("mismatched list sizes").kind = "throw"
    BY DEF Throw
  <2>. QED BY <2>1, <2>2, Zenon DEF AteRight, BadPair
<1>. QED BY <1>1, InitAnswer, NextAnswer, PTL DEF Spec

=============================================================================
