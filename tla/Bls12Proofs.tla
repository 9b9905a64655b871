---------------------------- MODULE Bls12Proofs ----------------------------
(***************************************************************************)
(* Proofs that the MSM loop of Bls12 compacts its lists correctly, of what *)
(* the loops throw for, and of what they return: for lists of any length,  *)
(* any group and any width of the scalars.                                 *)
(***************************************************************************)
EXTENDS Bls12, SequenceTheorems, WellFoundedInduction, TLAPS

(* Induction.  The prover has none over a property, so it is over the members of
   a set of numbers: of those that it lacks there is a least one. *)
LEMMA LeastMember ==
  ASSUME NEW T, T \subseteq Nat, T # {} PROVE \E x \in T : \A y \in T : x <= y
<1> DEFINE Less == OpToRel(<, Nat)
<1>1. IsWellFoundedOn(Less, Nat)
  BY NatLessThanWellFounded
<1>2. PICK x \in T : \A y \in T : <<y, x>> \notin Less
  <2> HIDE DEF Less
  <2>. QED BY <1>1, WFMin, Zenon
<1>3. \A y \in T : y < x => <<y, x>> \in Less
  BY DEF OpToRel
<1> HIDE DEF Less
<1>4. \A y \in T : ~ y < x
  BY <1>2, <1>3, Zenon
<1>. QED BY <1>2, <1>4

LEMMA NatSetInduction ==
  ASSUME NEW A, 0 \in A, \A n \in Nat : n \in A => n + 1 \in A
  PROVE  Nat \subseteq A
<1> SUFFICES ASSUME Nat \ A # {} PROVE FALSE
  OBVIOUS
<1>1. PICK x \in Nat \ A : \A y \in Nat \ A : x <= y
  <2>1. Nat \ A \subseteq Nat
    OBVIOUS
  <2>. QED BY <2>1, LeastMember, Zenon
<1>2. x # 0 /\ x - 1 \in Nat /\ x - 1 + 1 = x
  BY <1>1
<1>3. x - 1 \in A
  BY <1>1, <1>2
<1>4. x - 1 + 1 \in A
  BY <1>2, <1>3, Zenon
<1>. QED BY <1>1, <1>2, <1>4

-----------------------------------------------------------------------------
(* Remainders. *)

LEMMA Quotient ==
  ASSUME NEW a \in Int, NEW n \in Nat \ {0}
  PROVE  \E q \in Int, r \in 0 .. n - 1 : a % n = r /\ a = q * n + r
<1>1. a \div n \in Int /\ a % n \in 0 .. n - 1 /\ a = (a \div n) * n + (a % n)
  OBVIOUS
<1>. QED BY <1>1, Zenon

LEMMA OneRemainder ==
  ASSUME NEW n \in Nat \ {0}, NEW r \in 0 .. n - 1, NEW s \in 0 .. n - 1,
         NEW j \in Int, r - s = j * n
  PROVE  r = s
<1>1. CASE j = 0
  BY <1>1
<1>2. CASE j >= 1
  <2>1. (j - 1) * n >= 0 /\ (j - 1) * n = j * n - n
    BY <1>2
  <2>. QED BY <2>1
<1>3. CASE j <= -1
  <2>1. (-1 - j) * n >= 0 /\ (-1 - j) * n = -n - j * n
    BY <1>3
  <2>. QED BY <2>1
<1>. QED BY <1>1, <1>2, <1>3

LEMMA SameRemainder ==
  ASSUME NEW n \in Nat \ {0}, NEW a \in Int, NEW b \in Int, NEW j \in Int, a - b = j * n
  PROVE  a % n = b % n
<1>1. PICK u \in Int, r \in 0 .. n - 1 : a % n = r /\ a = u * n + r
  BY Quotient, Zenon
<1>2. PICK v \in Int, s \in 0 .. n - 1 : b % n = s /\ b = v * n + s
  BY Quotient, Zenon
<1>3. PICK k \in Int : k = j - u + v
  OBVIOUS
<1>4. r - s = k * n
  BY <1>1, <1>2, <1>3
<1>5. r = s
  BY <1>4, OneRemainder, Zenon
<1>. QED BY <1>1, <1>2, <1>5

LEMMA SumOfRemainder ==
  ASSUME NEW n \in Nat \ {0}, NEW a \in Int, NEW b \in Int
  PROVE  ((a % n) + b) % n = (a + b) % n
<1>1. PICK u \in Int, r \in 0 .. n - 1 : a % n = r /\ a = u * n + r
  BY Quotient, Zenon
<1>2. a + b \in Int /\ r + b \in Int /\ (a + b) - (r + b) = u * n
  BY <1>1
<1>3. (a + b) % n = (r + b) % n
  BY <1>2, SameRemainder, Zenon
<1>. QED BY <1>1, <1>3

LEMMA SumOfRemainders ==
  ASSUME NEW n \in Nat \ {0}, NEW a \in Int, NEW b \in Int
  PROVE  ((a % n) + (b % n)) % n = (a + b) % n
<1>1. PICK u \in Int, r \in 0 .. n - 1 : a % n = r /\ a = u * n + r
  BY Quotient, Zenon
<1>2. PICK v \in Int, s \in 0 .. n - 1 : b % n = s /\ b = v * n + s
  BY Quotient, Zenon
<1>3. u + v \in Int /\ a + b \in Int /\ r + s \in Int /\ (a + b) - (r + s) = (u + v) * n
  BY <1>1, <1>2
<1>4. (a + b) % n = (r + s) % n
  BY <1>3, SameRemainder, Zenon
<1>. QED BY <1>1, <1>2, <1>4

LEMMA WholeSubgroup ==
  /\ SubgroupOrder \in Nat \ {0}
  /\ Order = Cofactor * SubgroupOrder
<1>1. PICK d \in Int, n \in Nat \ {0}, c \in Nat \ {0} :
        n = Order /\ c = Cofactor /\ d = SubgroupOrder /\ n % c = 0
  BY OrderAssumption DEF SubgroupOrder
<1>2. d = n \div c
  BY <1>1 DEF SubgroupOrder
<1>3. n = c * d
  BY <1>1, <1>2
<1>4. d > 0
  <2>1. CASE d = 0
    BY <1>3, <2>1
  <2>2. CASE d < 0
    <3>1. d \in Int /\ n >= 0 /\ c > 0 /\ n \div c >= 0
      BY <1>1
    <3>. QED BY <1>2, <2>2, <3>1
  <2>. QED BY <1>1, <2>1, <2>2
<1>. QED BY <1>1, <1>3, <1>4

(* What is reduced stays where it fits. *)
LEMMA Reduced ==
  ASSUME NEW a \in Nat, NEW n \in Nat \ {0}
  PROVE  /\ a % n \in Nat /\ a % n <= a
         /\ \E u \in Int : a - (a % n) = u * n
<1>1. PICK u \in Int, r \in 0 .. n - 1 : a % n = r /\ a = u * n + r
  <2>1. a \in Int
    OBVIOUS
  <2>. QED BY <2>1, Quotient, Zenon
<1>2. u >= 0
  <2>1. CASE u <= -1
    <3>1. (-1 - u) * n >= 0 /\ (-1 - u) * n = -n - u * n
      BY <2>1
    <3>. QED BY <1>1, <3>1
  <2>. QED BY <2>1
<1>3. u * n >= 0
  BY <1>2
<1>. QED BY <1>1, <1>3

-----------------------------------------------------------------------------
(* Sums. *)

Totals(term, n, sum) ==
  sum = [k \in 0 .. n |-> IF k = 0 THEN 0 ELSE sum[k - 1] + term[k]]

LEMMA TotalsExist ==
  ASSUME NEW term, NEW n \in Nat PROVE \E sum : Totals(term, n, sum)
<1> DEFINE A == { m \in Nat : \E sum : Totals(term, m, sum) }
<1>1. 0 \in A
  <2>1. Totals(term, 0, [k \in 0 .. 0 |-> 0])
    BY DEF Totals
  <2>. QED BY <2>1
<1>2. ASSUME NEW m \in Nat, m \in A PROVE m + 1 \in A
  <2>1. PICK sum : Totals(term, m, sum)
    BY <1>2
  <2> DEFINE more == [k \in 0 .. m + 1 |-> IF k <= m THEN sum[k] ELSE sum[m] + term[m + 1]]
  <2>2. \A k \in 0 .. m + 1 : more[k] = IF k = 0 THEN 0 ELSE more[k - 1] + term[k]
    BY <2>1 DEF Totals
  <2>3. Totals(term, m + 1, more)
    BY <2>2 DEF Totals
  <2>. QED BY <2>3
<1>3. n \in A
  <2> HIDE DEF A
  <2>. QED BY <1>1, <1>2, NatSetInduction
<1>. QED BY <1>3

(* Sums of the same terms are the same, as far as the shorter goes. *)
LEMMA TotalsSame ==
  ASSUME NEW f, NEW g, NEW l \in Nat, NEW n \in Nat, l <= n, NEW s, NEW t,
         Totals(f, l, s), Totals(g, n, t), \A k \in 1 .. l : f[k] = g[k]
  PROVE  s[l] = t[l]
<1> DEFINE A == { k \in Nat : k <= l => s[k] = t[k] }
<1>1. 0 \in A
  BY DEF Totals
<1>2. ASSUME NEW k \in Nat, k \in A PROVE k + 1 \in A
  <2> SUFFICES ASSUME k + 1 <= l PROVE s[k + 1] = t[k + 1]
    OBVIOUS
  <2>1. s[k] = t[k]
    BY <1>2
  <2>2. s[k + 1] = s[k] + f[k + 1] /\ t[k + 1] = t[k] + g[k + 1]
    BY DEF Totals
  <2>. QED BY <2>1, <2>2
<1>3. l \in A
  <2> HIDE DEF A
  <2>. QED BY <1>1, <1>2, NatSetInduction
<1>. QED BY <1>3

LEMMA SumIsTotal ==
  ASSUME NEW term, NEW n \in Nat
  PROVE  \E sum : Totals(term, n, sum) /\ Sum(term, n) = sum[n]
<1> DEFINE sum == CHOOSE s : Totals(term, n, s)
<1>1. Totals(term, n, sum)
  BY TotalsExist
<1>2. Sum(term, n) = sum[n]
  BY DEF Sum, Totals
<1>. QED BY <1>1, <1>2

LEMMA SumSame ==
  ASSUME NEW f, NEW g, NEW n \in Nat, \A k \in 1 .. n : f[k] = g[k]
  PROVE  Sum(f, n) = Sum(g, n)
<1>1. PICK s : Totals(f, n, s) /\ Sum(f, n) = s[n]
  BY SumIsTotal, Zenon
<1>2. PICK t : Totals(g, n, t) /\ Sum(g, n) = t[n]
  BY SumIsTotal, Zenon
<1>3. n <= n
  OBVIOUS
<1>4. s[n] = t[n]
  BY <1>1, <1>2, <1>3, TotalsSame
<1>. QED BY <1>1, <1>2, <1>4

LEMMA SumEmpty == ASSUME NEW term PROVE Sum(term, 0) = 0
<1>1. PICK s : Totals(term, 0, s) /\ Sum(term, 0) = s[0]
  BY SumIsTotal
<1>. QED BY <1>1 DEF Totals

(* One term more. *)
LEMMA SumMore ==
  ASSUME NEW f, NEW g, NEW n \in Nat, \A k \in 1 .. n : f[k] = g[k]
  PROVE  Sum(g, n + 1) = Sum(f, n) + g[n + 1]
<1>1. PICK s : Totals(f, n, s) /\ Sum(f, n) = s[n]
  BY SumIsTotal, Zenon
<1>2. n + 1 \in Nat /\ n <= n + 1
  OBVIOUS
<1>3. PICK t : Totals(g, n + 1, t) /\ Sum(g, n + 1) = t[n + 1]
  BY <1>2, SumIsTotal, Zenon
<1>4. s[n] = t[n]
  BY <1>1, <1>2, <1>3, TotalsSame
<1>5. t[n + 1] = t[n] + g[n + 1]
  BY <1>3 DEF Totals
<1>. QED BY <1>1, <1>3, <1>4, <1>5

-----------------------------------------------------------------------------
(* Powers of 2.  To the prover they are a function it knows nothing of, so the
   theorems suppose what arithmetic says. *)
PowersOfTwo == 2^0 = 1 /\ \A n \in Nat : 2^n \in Nat /\ 2^(n + 1) = 2 * 2^n

LEMMA PowersGrow ==
  ASSUME PowersOfTwo, NEW m \in Nat, NEW n \in Nat, m <= n PROVE 2^m <= 2^n
<1> DEFINE A == { d \in Nat : 2^m <= 2^(m + d) }
<1>1. 0 \in A
  <2>1. m + 0 = m /\ 2^m \in Nat
    BY DEF PowersOfTwo
  <2>2. 2^m <= 2^m
    BY <2>1
  <2>. QED BY <2>1, <2>2, Zenon
<1>2. ASSUME NEW d \in Nat, d \in A PROVE d + 1 \in A
  <2>1. m + d \in Nat /\ m + (d + 1) = (m + d) + 1
    OBVIOUS
  <2>2. 2^(m + d) \in Nat /\ 2^((m + d) + 1) = 2 * 2^(m + d) /\ 2^m \in Nat
    BY <2>1 DEF PowersOfTwo
  <2>3. 2^m <= 2^(m + d)
    BY <1>2
  <2>4. 2^m <= 2^((m + d) + 1)
    BY <2>2, <2>3
  <2>. QED BY <2>1, <2>4
<1>3. n - m \in A
  <2>1. n - m \in Nat
    OBVIOUS
  <2> HIDE DEF A
  <2>. QED BY <1>1, <1>2, <2>1, NatSetInduction
<1>4. m + (n - m) = n
  OBVIOUS
<1>. QED BY <1>3, <1>4

LEMMA PowersLarge == ASSUME PowersOfTwo, NEW n \in Nat PROVE n < 2^n
<1> DEFINE A == { m \in Nat : m < 2^m }
<1>1. 0 \in A
  BY DEF PowersOfTwo
<1>2. ASSUME NEW m \in Nat, m \in A PROVE m + 1 \in A
  <2>1. 2^m \in Nat /\ 2^(m + 1) = 2 * 2^m
    BY DEF PowersOfTwo
  <2>2. m < 2^m
    BY <1>2
  <2>3. m + 1 < 2^(m + 1)
    BY <2>1, <2>2
  <2>. QED BY <2>3
<1>3. n \in A
  <2> HIDE DEF A
  <2>. QED BY <1>1, <1>2, NatSetInduction
<1>. QED BY <1>3

(* mpz_sizeinbase counts the digits: so many bits hold the number, and fewer do
   not, save that 0 has one digit. *)
LEMMA Digits ==
  ASSUME PowersOfTwo, NEW s \in Int
  PROVE  /\ NumBits(s) \in Nat \ {0}
         /\ Abs(s) < 2^NumBits(s)
         /\ \A c \in 1 .. NumBits(s) - 1 : 2^c <= Abs(s)
<1>1. PICK a \in Nat : a = Abs(s)
  BY DEF Abs
<1> DEFINE T == { b \in 1 .. a + 1 : a < 2^b }
<1>2. a + 1 \in T
  <2>1. a + 1 < 2^(a + 1) /\ 2^(a + 1) \in Nat
    <3>1. a + 1 \in Nat
      OBVIOUS
    <3>. QED BY <3>1, PowersLarge DEF PowersOfTwo
  <2>2. a < 2^(a + 1)
    BY <2>1
  <2>. QED BY <2>2
<1>3. PICK b \in T : \A c \in T : b <= c
  <2>1. T \subseteq Nat /\ T # {}
    BY <1>2
  <2>. QED BY <2>1, LeastMember, Zenon
<1>4. \A c \in 1 .. b - 1 : 2^c <= a
  <2> SUFFICES ASSUME NEW c \in 1 .. b - 1 PROVE 2^c <= a
    OBVIOUS
  <2>1. c \in 1 .. a + 1 /\ ~ b <= c
    BY <1>3
  <2>2. ~ a < 2^c
    BY <1>3, <2>1
  <2>3. 2^c \in Nat
    BY DEF PowersOfTwo
  <2>. QED BY <2>2, <2>3
<1>5. NumBits(s) \in 1 .. a + 1 /\ a < 2^NumBits(s) /\ \A c \in 1 .. NumBits(s) - 1 : 2^c <= a
  <2>1. \E d \in 1 .. a + 1 : a < 2^d /\ \A c \in 1 .. d - 1 : 2^c <= a
    BY <1>3, <1>4
  <2>2. NumBits(s) = CHOOSE d \in 1 .. a + 1 : a < 2^d /\ \A c \in 1 .. d - 1 : 2^c <= a
    BY <1>1, Zenon DEF NumBits
  <2>. QED BY <2>1, <2>2, Zenon
<1>. QED BY <1>1, <1>5

(* The scalars with too many digits are those that are too large. *)
Widths == \A s \in Scalar : ~ NumBits(s) <= ScalarBits <=> Abs(s) >= 2^ScalarBits

LEMMA WidthsHold == ASSUME PowersOfTwo PROVE Widths
<1> SUFFICES ASSUME NEW s \in Scalar
             PROVE  ~ NumBits(s) <= ScalarBits <=> Abs(s) >= 2^ScalarBits
  BY DEF Widths
<1>1. s \in Int /\ ScalarBits \in Nat \ {0} /\ Abs(s) \in Nat /\ 2^ScalarBits \in Nat
  BY ScalarAssumption DEF Abs, PowersOfTwo
<1>2. PICK b \in Nat \ {0} : /\ b = NumBits(s) /\ Abs(s) < 2^b /\ 2^b \in Nat
                             /\ \A c \in 1 .. b - 1 : 2^c <= Abs(s)
  BY <1>1, Digits DEF PowersOfTwo
<1>3. CASE b <= ScalarBits
  <2>1. 2^b <= 2^ScalarBits
    BY <1>1, <1>3, PowersGrow
  <2>. QED BY <1>1, <1>2, <1>3, <2>1
<1>4. CASE ~ b <= ScalarBits
  <2>1. ScalarBits \in 1 .. b - 1
    BY <1>1, <1>4
  <2>. QED BY <1>1, <1>2, <1>4, <2>1
<1>. QED BY <1>3, <1>4

-----------------------------------------------------------------------------
(* The compaction. *)

(* The shape of the loop's variables. *)
LoopType ==
  /\ args[1] \in Seq(Scalar) /\ args[2] \in Seq(Point)
  /\ i \in Nat
  /\ points \in Seq(Group) /\ blst_scalars \in Seq(Nat)
  /\ kept \in Seq(Nat)

IInv == Compacted /\ (pc = "msm" => LoopType)

LEMMA ListsAreSequences ==
  ASSUME NEW S, NEW n \in Nat, NEW s \in BoundedSeq(S, n) PROVE s \in Seq(S)
<1>1. PICK m \in 0 .. n : s \in [1 .. m -> S]
  BY DEF BoundedSeq, SeqOf
<1>. QED BY <1>1

(* What the loop stores has the type of its vector. *)
LEMMA Stored ==
  /\ \A p \in Point : PointFits(p) => Affine(p) \in Group
  /\ \A s \in Scalar : BlstScalar(s) \in Nat
  /\ Infinity \in Group
<1>1. \A p \in Point : PointFits(p) => Affine(p) \in Group
  BY OrderAssumption DEF Point, PointFits, Affine, Group, Infinity
<1>2. ASSUME NEW s \in Scalar PROVE BlstScalar(s) \in Nat
  <2>1. PICK a \in Nat : a = Abs(s)
    BY ScalarAssumption DEF Abs
  <2>2. a % SubgroupOrder \in Nat
    BY WholeSubgroup, Reduced, Zenon
  <2>. QED BY <2>1, <2>2 DEF BlstScalar
<1>. QED BY <1>1, <1>2, OrderAssumption DEF Group, Infinity

(* Writing one slot of a vector. *)
LEMMA Written ==
  ASSUME NEW S, NEW s \in Seq(S), NEW n \in 1 .. Len(s), NEW e \in S,
         NEW t, t = [s EXCEPT ![n] = e]
  PROVE  /\ t \in Seq(S) /\ Len(t) = Len(s) /\ t[n] = e
         /\ \A k \in 1 .. Len(s) : k # n => t[k] = s[k]
  OBVIOUS

(* In the middle of the loop there is a next element and a free slot. *)
LEMMA NextSlot ==
  ASSUME LoopType, InBounds, i < Len(args[2])
  PROVE  /\ i \in Nat /\ Len(kept) \in Nat /\ Len(kept) <= i
         /\ Len(args[1]) = Len(args[2]) /\ Len(args[2]) \in Nat
         /\ Len(points) = Len(args[2]) /\ Len(blst_scalars) = Len(args[2])
         /\ valid_point_count = Len(kept)
         /\ valid_point_count + 1 \in 1 .. Len(points)
         /\ valid_point_count + 1 \in 1 .. Len(blst_scalars)
         /\ args[2][i + 1] \in Point /\ args[1][i + 1] \in Scalar
<1>1. i \in Nat /\ Len(kept) \in Nat /\ Len(args[2]) \in Nat
  BY DEF LoopType
<1>2. i + 1 \in 1 .. Len(args[2]) /\ i + 1 \in 1 .. Len(args[1])
  BY <1>1 DEF InBounds
<1>3. args[2][i + 1] \in Point
  BY <1>2 DEF LoopType
<1>4. args[1][i + 1] \in Scalar
  BY <1>2 DEF LoopType
<1>. QED BY <1>1, <1>3, <1>4 DEF InBounds

LEMMA StartInv ==
  ASSUME NEW name, NEW ss \in ScalarLists, NEW ps \in PointLists,
         Start(name, <<ss, ps>>, "msm", Len(ps))
  PROVE  IInv'
<1>1. ss \in Seq(Scalar) /\ ps \in Seq(Point)
  BY LenAssumption, ListsAreSequences DEF ScalarLists, PointLists
<1>2. CASE pc' = "done"
  BY <1>2 DEF IInv, Compacted
<1>3. CASE pc' # "done"
  <2>1. /\ Len(ss) = Len(ps) /\ args' = <<ss, ps>> /\ i' = 0
        /\ points' = [k \in 1 .. Len(ps) |-> Infinity]
        /\ blst_scalars' = [k \in 1 .. Len(ps) |-> 0]
        /\ valid_point_count' = 0 /\ kept' = <<>>
    BY <1>3 DEF Start
  <2>2. /\ points' \in Seq(Group) /\ Len(points') = Len(ps)
        /\ blst_scalars' \in Seq(Nat) /\ Len(blst_scalars') = Len(ps)
    BY <1>1, <2>1, Stored
  <2>3. kept' \in Seq(Nat) /\ Len(kept') = 0
    BY <2>1
  <2>4. args'[1] = ss /\ args'[2] = ps
    BY <2>1
  <2>5. LoopType'
    BY <1>1, <2>1, <2>2, <2>3, <2>4 DEF LoopType
  <2>6. InBounds' /\ SideBySide' /\ NoneDropped'
    BY <1>1, <2>1, <2>2, <2>3, <2>4 DEF InBounds, SideBySide, NoneDropped
  <2>. QED BY <2>3, <2>5, <2>6 DEF IInv, Compacted
<1>. QED BY <1>2, <1>3

(* A point at infinity is written into the next slot and leaves the slots in
   use as they are. *)
LEMMA SkipInv ==
  ASSUME IInv, pc = "msm", i < Len(args[2]),
         Affine(args[2][i + 1]) = Infinity,
         points' = [points EXCEPT ![valid_point_count + 1] = Affine(args[2][i + 1])],
         i' = i + 1,
         UNCHANGED <<pc, args, blst_scalars, valid_point_count, first_nbits, kept>>
  PROVE  IInv'
<1>1. LoopType /\ InBounds /\ SideBySide /\ NoneDropped
      /\ (Len(kept) > 0 => first_nbits = NbitsOf(args[1][kept[1]]))
  BY DEF IInv, Compacted
<1>2. /\ i \in Nat /\ Len(kept) \in Nat /\ Len(kept) <= i
      /\ Len(points) = Len(args[2]) /\ Len(args[2]) \in Nat
      /\ valid_point_count = Len(kept)
      /\ valid_point_count + 1 \in 1 .. Len(points)
  BY <1>1, NextSlot
<1>3. points \in Seq(Group) /\ Infinity \in Group
  BY <1>1, Stored DEF LoopType
<1>4. /\ points' \in Seq(Group) /\ Len(points') = Len(points)
      /\ \A k \in 1 .. Len(points) : k # valid_point_count + 1 => points'[k] = points[k]
  BY <1>2, <1>3, Written
<1>5. \A k \in 1 .. Len(kept) : points'[k] = points[k]
  BY <1>2, <1>4
<1>6. LoopType'
  BY <1>1, <1>2, <1>4 DEF LoopType
<1>7. InBounds'
  BY <1>1, <1>2, <1>4 DEF InBounds
<1>8. SideBySide'
  <2> SUFFICES ASSUME NEW k \in 1 .. Len(kept)
               PROVE  /\ kept[k] \in 1 .. i + 1
                      /\ \A l \in 1 .. k - 1 : kept[l] < kept[k]
                      /\ points'[k] = Affine(args[2][kept[k]])
                      /\ points'[k] # Infinity
                      /\ blst_scalars[k] = BlstScalar(args[1][kept[k]])
    BY DEF SideBySide
  <2>1. kept[k] \in 1 .. i + 1
    BY <1>1, <1>2 DEF SideBySide
  <2>. QED BY <1>1, <1>5, <2>1 DEF SideBySide
<1>9. NoneDropped'
  <2> SUFFICES ASSUME NEW j \in 1 .. i + 1
               PROVE  \/ Affine(args[2][j]) = Infinity
                      \/ \E k \in 1 .. Len(kept) : kept[k] = j
    BY DEF NoneDropped
  <2>1. j = i + 1 \/ j \in 1 .. i
    BY <1>2
  <2>. QED BY <1>1, <2>1 DEF NoneDropped
<1>. QED BY <1>1, <1>6, <1>7, <1>8, <1>9 DEF IInv, Compacted

(* A finite point and its scalar go into the next slot of both vectors. *)
LEMMA KeepInv ==
  ASSUME IInv, pc = "msm", i < Len(args[2]),
         PointFits(args[2][i + 1]), Affine(args[2][i + 1]) # Infinity,
         points' = [points EXCEPT ![valid_point_count + 1] = Affine(args[2][i + 1])],
         blst_scalars' = [blst_scalars EXCEPT ![valid_point_count + 1]
                                                = BlstScalar(args[1][i + 1])],
         first_nbits' = IF valid_point_count = 0 THEN NbitsOf(args[1][i + 1])
                        ELSE first_nbits,
         valid_point_count' = valid_point_count + 1,
         kept' = Append(kept, i + 1),
         i' = i + 1,
         UNCHANGED <<pc, args>>
  PROVE  IInv'
<1>1. LoopType /\ InBounds /\ SideBySide /\ NoneDropped
      /\ (Len(kept) > 0 => first_nbits = NbitsOf(args[1][kept[1]]))
  BY DEF IInv, Compacted
<1> DEFINE slot == Len(kept) + 1
<1>2. /\ i \in Nat /\ Len(kept) \in Nat /\ Len(kept) <= i
      /\ valid_point_count = Len(kept) /\ valid_point_count + 1 = slot
      /\ Len(args[1]) = Len(args[2]) /\ Len(args[2]) \in Nat
      /\ Len(points) = Len(args[2]) /\ Len(blst_scalars) = Len(args[2])
      /\ slot \in 1 .. Len(points) /\ slot \in 1 .. Len(blst_scalars)
  BY <1>1, NextSlot
<1>3. Affine(args[2][i + 1]) \in Group /\ BlstScalar(args[1][i + 1]) \in Nat
  BY <1>1, NextSlot, Stored
<1>4. /\ points' \in Seq(Group) /\ Len(points') = Len(points)
      /\ \A k \in 1 .. Len(kept) : points'[k] = points[k]
      /\ points'[slot] = Affine(args[2][i + 1])
  <2>1. points \in Seq(Group) /\ points' = [points EXCEPT ![slot] = Affine(args[2][i + 1])]
    BY <1>1, <1>2 DEF LoopType
  <2>2. /\ points' \in Seq(Group) /\ Len(points') = Len(points)
        /\ points'[slot] = Affine(args[2][i + 1])
        /\ \A k \in 1 .. Len(points) : k # slot => points'[k] = points[k]
    BY <1>2, <1>3, <2>1, Written
  <2>. QED BY <1>2, <2>2
<1>5. /\ blst_scalars' \in Seq(Nat) /\ Len(blst_scalars') = Len(blst_scalars)
      /\ \A k \in 1 .. Len(kept) : blst_scalars'[k] = blst_scalars[k]
      /\ blst_scalars'[slot] = BlstScalar(args[1][i + 1])
  <2>1. /\ blst_scalars \in Seq(Nat)
        /\ blst_scalars' = [blst_scalars EXCEPT ![slot] = BlstScalar(args[1][i + 1])]
    BY <1>1, <1>2 DEF LoopType
  <2>2. /\ blst_scalars' \in Seq(Nat) /\ Len(blst_scalars') = Len(blst_scalars)
        /\ blst_scalars'[slot] = BlstScalar(args[1][i + 1])
        /\ \A k \in 1 .. Len(blst_scalars) :
             k # slot => blst_scalars'[k] = blst_scalars[k]
    BY <1>2, <1>3, <2>1, Written
  <2>. QED BY <1>2, <2>2
<1>6. /\ kept' \in Seq(Nat) /\ Len(kept') = slot
      /\ \A k \in 1 .. Len(kept) : kept'[k] = kept[k]
      /\ kept'[slot] = i + 1
  <2>1. kept \in Seq(Nat)
    BY <1>1 DEF LoopType
  <2>2. i + 1 \in Nat
    BY <1>2
  <2>. QED BY <2>1, <2>2
<1>7. LoopType'
  BY <1>1, <1>2, <1>4, <1>5, <1>6 DEF LoopType
<1>8. InBounds'
  <2>1. Len(kept') <= i' /\ i' <= Len(args'[2]) /\ valid_point_count' = Len(kept')
    BY <1>2, <1>6
  <2>. QED BY <1>2, <1>4, <1>5, <2>1 DEF InBounds
<1>9. SideBySide'
  <2> SUFFICES ASSUME NEW k \in 1 .. slot
               PROVE  /\ kept'[k] \in 1 .. i + 1
                      /\ \A l \in 1 .. k - 1 : kept'[l] < kept'[k]
                      /\ points'[k] = Affine(args[2][kept'[k]])
                      /\ points'[k] # Infinity
                      /\ blst_scalars'[k] = BlstScalar(args[1][kept'[k]])
    BY <1>6 DEF SideBySide
  <2>1. CASE k = slot
    <3>1. \A l \in 1 .. Len(kept) : kept[l] \in 1 .. i /\ kept'[l] = kept[l]
      BY <1>1, <1>6 DEF SideBySide
    <3>2. \A l \in 1 .. k - 1 : kept'[l] < kept'[k]
      BY <1>2, <1>6, <2>1, <3>1
    <3>3. kept'[k] = i + 1 /\ kept'[k] \in 1 .. i + 1
      BY <1>2, <1>6, <2>1
    <3>. QED BY <1>4, <1>5, <2>1, <3>2, <3>3
  <2>2. CASE k \in 1 .. Len(kept)
    <3>1. /\ kept[k] \in 1 .. i
          /\ \A l \in 1 .. k - 1 : kept[l] < kept[k]
          /\ points[k] = Affine(args[2][kept[k]]) /\ points[k] # Infinity
          /\ blst_scalars[k] = BlstScalar(args[1][kept[k]])
      BY <1>1, <2>2 DEF SideBySide
    <3>2. \A l \in 1 .. k - 1 : kept'[l] = kept[l]
      BY <1>2, <1>6, <2>2
    <3>3. kept'[k] = kept[k] /\ points'[k] = points[k]
          /\ blst_scalars'[k] = blst_scalars[k]
      BY <1>4, <1>5, <1>6, <2>2
    <3>4. kept[k] \in 1 .. i + 1
      BY <1>2, <3>1
    <3>. QED BY <3>1, <3>2, <3>3, <3>4
  <2>. QED BY <1>2, <2>1, <2>2, SMTT(20)
<1>10. NoneDropped'
  <2> SUFFICES ASSUME NEW j \in 1 .. i + 1
               PROVE  Affine(args[2][j]) = Infinity \/ \E k \in 1 .. slot : kept'[k] = j
    BY <1>6 DEF NoneDropped
  <2>1. CASE j = i + 1
    BY <1>6, <2>1, SMTT(20)
  <2>2. CASE j \in 1 .. i
    BY <1>1, <1>6, <2>2 DEF NoneDropped
  <2>. QED BY <1>1, <2>1, <2>2, SMTT(20) DEF LoopType
<1>11. first_nbits' = NbitsOf(args'[1][kept'[1]])
  <2>1. CASE Len(kept) = 0
    BY <1>1, <1>6, <2>1 DEF InBounds
  <2>2. CASE Len(kept) > 0
    BY <1>1, <1>6, <2>2 DEF InBounds
  <2>. QED BY <1>6, <2>1, <2>2
<1>. QED BY <1>7, <1>8, <1>9, <1>10, <1>11 DEF IInv, Compacted

LEMMA StepInv == ASSUME IInv, [Next]_vars PROVE IInv'
<1>1. CASE UNCHANGED vars
  BY <1>1 DEF vars, loopVars, IInv, Compacted, LoopType, InBounds, SideBySide, NoneDropped
<1>2. CASE pc' # "msm"
  BY <1>2 DEF IInv, Compacted
<1>3. CASE Calls /\ pc' = "msm"
  <2>1. PICK ss \in ScalarLists, ps \in PointLists : G1Msm(ss, ps) \/ G2Msm(ss, ps)
    BY <1>3 DEF Calls, Single, G1Add, G2Add, Add, G1Mul, G2Mul, Mul, G1InSubgroup,
       G2InSubgroup, G1OnCurve, G2OnCurve, Test, MapFpToG1, MapFp2ToG2, MapFp,
       Call, PairingCheck, Start
  <2>. QED BY <2>1, StartInv DEF G1Msm, G2Msm
<1>4. CASE MsmStep /\ pc' = "msm"
  BY <1>4, SkipInv, KeepInv DEF MsmStep, Finish, ScalarSlot, FirstBits
<1>5. CASE MsmFinish \/ PairingStep \/ PairingFinish
  BY <1>2, <1>5 DEF MsmFinish, PairingStep, PairingFinish, Finish
<1>. QED BY <1>1, <1>2, <1>3, <1>4, <1>5 DEF Next, G1MsmLoop, G2MsmLoop

(* The vectors that an MSM hands to blst are the finite points of its list
   with their scalars, side by side and in order, and the loop stays inside
   them: for lists of any length and points at infinity anywhere. *)
THEOREM MsmCompacts == Spec => []Compacted
<1>1. Init => IInv
  BY DEF Init, IInv, Compacted
<1>2. IInv /\ [Next]_vars => IInv'
  BY StepInv
<1>3. IInv => Compacted
  BY DEF IInv
<1>. QED BY <1>1, <1>2, <1>3, PTL DEF Spec

-----------------------------------------------------------------------------
(* Exceptions. *)

(* What the loops throw for. *)
BadTerm(a, k) ==
  \/ a[2][k] = Wide
  \/ Affine(a[2][k]) # Infinity /\ Abs(a[1][k]) >= 2^ScalarBits

BadPair(a, k) == a[1][k] = Wide \/ a[2][k] = Wide

Msms == {"G1Msm", "G2Msm"}

(* A pairing check throws for lists of different lengths and for a coordinate
   that is too wide, in either list; also beside a point at infinity, and for
   nothing else. *)
PairingThrows ==
  Done({"PairingCheck"}) =>
    (outcome[1].kind = "throw"
      <=> \/ Len(args[1]) # Len(args[2])
          \/ \E k \in 1 .. Len(args[1]) : args[1][k] = Wide \/ args[2][k] = Wide)

(* A loop has passed elements only that it does not throw for. *)
Passed ==
  /\ pc = "msm" => hook \in Msms /\ (Widths => \A k \in 1 .. i : ~ BadTerm(args, k))
  /\ pc = "pairing" =>
       /\ hook = "PairingCheck" /\ Len(args[1]) = Len(args[2])
       /\ Len(args[1]) \in Nat /\ i \in 0 .. Len(args[1])
       /\ \A k \in 1 .. i : ~ BadPair(args, k)

ThrowInv == Passed /\ (Widths => MsmThrows) /\ PairingThrows

LEMMA InitThrow == Init => ThrowInv
BY DEF Init, ThrowInv, Passed, MsmThrows, PairingThrows, Done

(* The end of a call that began as an MSM or a pairing check. *)
LEMMA MsmEnds ==
  ASSUME hook \in Msms, NEW o, Finish(o),
         Widths => (o.kind = "throw" <=> \/ Len(args[1]) # Len(args[2])
                                         \/ \E k \in 1 .. Len(args[2]) : BadTerm(args, k))
  PROVE  ThrowInv'
<1>1. pc' = "done" /\ outcome'[1] = o /\ hook' = hook /\ args' = args
  BY DEF Finish
<1>2. Passed'
  BY <1>1 DEF Passed
<1>3. Widths => MsmThrows'
  BY <1>1 DEF MsmThrows, Done, BadTerm
<1>4. PairingThrows'
  BY <1>1 DEF PairingThrows, Done, Msms
<1>. QED BY <1>2, <1>3, <1>4 DEF ThrowInv

LEMMA PairingEnds ==
  ASSUME hook = "PairingCheck", NEW o, Finish(o),
         o.kind = "throw" <=> \/ Len(args[1]) # Len(args[2])
                              \/ \E k \in 1 .. Len(args[1]) : BadPair(args, k)
  PROVE  ThrowInv'
<1>1. pc' = "done" /\ outcome'[1] = o /\ hook' = hook /\ args' = args
  BY DEF Finish
<1>2. Passed'
  BY <1>1 DEF Passed
<1>3. MsmThrows'
  BY <1>1 DEF MsmThrows, Done
<1>4. PairingThrows'
  BY <1>1 DEF PairingThrows, Done, BadPair
<1>. QED BY <1>2, <1>3, <1>4 DEF ThrowInv

LEMMA StartThrow ==
  ASSUME NEW name, NEW as, NEW next, NEW n, Start(name, as, next, n),
         Len(as[1]) \in Nat,
         \/ next = "msm" /\ name \in Msms
         \/ next = "pairing" /\ name = "PairingCheck"
  PROVE  ThrowInv'
<1>1. hook' = name /\ args' = as
  BY DEF Start
<1>2. CASE Len(as[1]) # Len(as[2])
  <2>1. pc' = "done" /\ outcome' = <<Throw("mismatched list sizes")>>
    BY <1>2 DEF Start
  <2>2. outcome'[1].kind = "throw"
    BY <2>1 DEF Throw
  <2>3. Len(args'[1]) # Len(args'[2])
    BY <1>1, <1>2
  <2>4. Passed'
    BY <2>1 DEF Passed
  <2>5. MsmThrows'
    BY <2>2, <2>3, Zenon DEF MsmThrows
  <2>6. PairingThrows'
    BY <2>2, <2>3, Zenon DEF PairingThrows
  <2>. QED BY <2>4, <2>5, <2>6 DEF ThrowInv
<1>3. CASE Len(as[1]) = Len(as[2])
  <2>1. pc' = next /\ i' = 0
    BY <1>3 DEF Start
  <2>2. pc' # "done"
    BY <2>1
  <2>3. MsmThrows' /\ PairingThrows'
    BY <2>2 DEF MsmThrows, PairingThrows, Done
  <2>4. CASE next = "msm" /\ name \in Msms
    <3>1. Passed'
      BY <1>1, <2>1, <2>4 DEF Passed
    <3>. QED BY <2>3, <3>1 DEF ThrowInv
  <2>5. CASE next = "pairing" /\ name = "PairingCheck"
    <3>1. /\ pc' = "pairing" /\ hook' = "PairingCheck" /\ i' = 0
          /\ Len(args'[1]) = Len(args'[2]) /\ Len(args'[1]) \in Nat
      BY <1>1, <1>3, <2>1, <2>5, Zenon
    <3>2. i' \in 0 .. Len(args'[1]) /\ \A k \in 1 .. i' : ~ BadPair(args', k)
      BY <3>1
    <3>3. Passed'
      BY <3>1, <3>2 DEF Passed
    <3>. QED BY <2>3, <3>3 DEF ThrowInv
  <2>. QED BY <2>4, <2>5
<1>. QED BY <1>2, <1>3

(* A call of one step is neither. *)
LEMMA SingleThrow == ASSUME Single PROVE ThrowInv'
<1> DEFINE Other == pc' = "done" /\ hook' \notin Msms /\ hook' # "PairingCheck"
<1>1. CASE \E p, q \in Point : G1Add(p, q) \/ G2Add(p, q)
  <2>1. Other
    BY <1>1 DEF G1Add, G2Add, Add, Call, Msms
  <2>. QED BY <2>1 DEF ThrowInv, Passed, MsmThrows, PairingThrows, Done, Msms
<1>2. CASE \E p \in Point, s \in Scalar : G1Mul(p, s) \/ G2Mul(p, s)
  <2>1. Other
    BY <1>2 DEF G1Mul, G2Mul, Mul, Call, Msms
  <2>. QED BY <2>1 DEF ThrowInv, Passed, MsmThrows, PairingThrows, Done, Msms
<1>3. CASE \/ \E p \in Point : G1InSubgroup(p) \/ G2InSubgroup(p)
           \/ \E p \in Point \cup {OffCurve} : G1OnCurve(p) \/ G2OnCurve(p)
  <2>1. Other
    BY <1>3 DEF G1InSubgroup, G2InSubgroup, G1OnCurve, G2OnCurve, Test, Call, Msms
  <2>. QED BY <2>1 DEF ThrowInv, Passed, MsmThrows, PairingThrows, Done, Msms
<1>4. CASE \E e0, e1 \in BOOLEAN : MapFpToG1(e0) \/ MapFp2ToG2(e0, e1)
  <2>1. Other
    BY <1>4 DEF MapFpToG1, MapFp2ToG2, MapFp, Call, Msms
  <2>. QED BY <2>1 DEF ThrowInv, Passed, MsmThrows, PairingThrows, Done, Msms
<1>. QED BY <1>1, <1>2, <1>3, <1>4 DEF Single

LEMMA CallsThrow == ASSUME Calls PROVE ThrowInv'
<1>1. ASSUME NEW ss \in ScalarLists, NEW ps \in PointLists, G1Msm(ss, ps) \/ G2Msm(ss, ps)
      PROVE  ThrowInv'
  <2>1. Len(ss) \in Nat
    BY LenAssumption, ListsAreSequences DEF ScalarLists
  <2>2. <<ss, ps>>[1] = ss
    OBVIOUS
  <2>. QED BY <1>1, <2>1, <2>2, StartThrow DEF G1Msm, G2Msm, Msms
<1>2. ASSUME NEW ps \in PairingLists, NEW qs \in PairingLists, PairingCheck(ps, qs)
      PROVE  ThrowInv'
  <2>1. Len(ps) \in Nat
    BY LenAssumption, ListsAreSequences DEF PairingLists
  <2>2. <<ps, qs>>[1] = ps
    OBVIOUS
  <2>. QED BY <1>2, <2>1, <2>2, StartThrow DEF PairingCheck
<1>. QED BY <1>1, <1>2, SingleThrow DEF Calls

LEMMA MsmThrow ==
  ASSUME IInv, ThrowInv, MsmStep \/ MsmFinish
  PROVE  ThrowInv'
<1>1. /\ pc = "msm" /\ hook \in Msms /\ LoopType /\ InBounds
      /\ Widths => \A k \in 1 .. i : ~ BadTerm(args, k)
  BY DEF MsmStep, MsmFinish, ThrowInv, Passed, IInv, Compacted
<1>2. i \in Nat /\ Len(args[2]) \in Nat /\ Len(args[1]) = Len(args[2])
  BY <1>1 DEF LoopType, InBounds
<1>3. CASE MsmFinish
  <2>1. PICK v : Finish(Value(v))
    BY <1>3 DEF MsmFinish
  <2>2. Widths => \A k \in 1 .. Len(args[2]) : ~ BadTerm(args, k)
    BY <1>1, <1>3 DEF MsmFinish
  <2>3. Value(v).kind # "throw"
    BY DEF Value
  <2>. QED BY <1>1, <1>2, <2>1, <2>2, <2>3, MsmEnds
<1>4. CASE MsmStep /\ Widths
  <2> DEFINE p == args[2][i + 1]
             s == args[1][i + 1]
  <2>1. /\ i + 1 \in 1 .. Len(args[2]) /\ p \in Point /\ s \in Scalar
    <3>1. i < Len(args[2])
      BY <1>4, Zenon DEF MsmStep
    <3>2. p \in Point /\ s \in Scalar
      BY <1>1, <3>1, NextSlot, Zenon
    <3>. QED BY <1>2, <3>1, <3>2
  <2>2. BadTerm(args, i + 1) <=> ~ PointFits(p) \/ (Affine(p) # Infinity /\ ~ ScalarFits(s))
    BY <1>4, <2>1 DEF BadTerm, PointFits, ScalarFits, Widths
  <2>3. CASE BadTerm(args, i + 1)
    <3>1. PICK w : Finish(Throw(w))
      BY <1>4, <2>2, <2>3 DEF MsmStep
    <3>2. Throw(w).kind = "throw"
      BY DEF Throw
    <3>. QED BY <1>1, <2>1, <2>3, <3>1, <3>2, MsmEnds
  <2>4. CASE ~ BadTerm(args, i + 1)
    <3>1. UNCHANGED <<pc, hook, args, outcome>> /\ i' = i + 1
      BY <1>4, <2>2, <2>4 DEF MsmStep
    <3>2. \A k \in 1 .. i + 1 : ~ BadTerm(args, k)
      <4> SUFFICES ASSUME NEW k \in 1 .. i + 1 PROVE ~ BadTerm(args, k)
        OBVIOUS
      <4>1. k \in 1 .. i \/ k = i + 1
        BY <1>2
      <4>. QED BY <1>1, <1>4, <2>4, <4>1
    <3>3. Passed'
      BY <1>1, <1>4, <3>1, <3>2 DEF Passed, BadTerm
    <3>. QED BY <1>1, <3>1, <3>3 DEF ThrowInv, MsmThrows, PairingThrows, Done
  <2>. QED BY <2>3, <2>4
<1>5. CASE MsmStep /\ ~ Widths
  <2>1. CASE \E w : Finish(Throw(w))
    BY <1>1, <1>5, <2>1, MsmEnds
  <2>2. CASE ~ \E w : Finish(Throw(w))
    <3>1. UNCHANGED <<pc, hook, args, outcome>>
      BY <1>5, <2>2 DEF MsmStep
    <3>2. Passed'
      BY <1>1, <1>5, <3>1 DEF Passed
    <3>. QED BY <1>5, <3>1, <3>2 DEF ThrowInv, PairingThrows, Done
  <2>. QED BY <2>1, <2>2
<1>. QED BY <1>3, <1>4, <1>5

LEMMA PairingThrow ==
  ASSUME ThrowInv, PairingStep \/ PairingFinish
  PROVE  ThrowInv'
<1>1. /\ pc = "pairing" /\ hook = "PairingCheck"
      /\ Len(args[1]) = Len(args[2]) /\ Len(args[1]) \in Nat /\ i \in 0 .. Len(args[1])
      /\ \A k \in 1 .. i : ~ BadPair(args, k)
  BY DEF PairingStep, PairingFinish, ThrowInv, Passed
<1>2. CASE PairingFinish
  <2>1. PICK v : Finish(Value(v))
    BY <1>2 DEF PairingFinish
  <2>2. \A k \in 1 .. Len(args[1]) : ~ BadPair(args, k)
    BY <1>1, <1>2 DEF PairingFinish
  <2>3. Value(v).kind # "throw"
    BY DEF Value
  <2>. QED BY <1>1, <2>1, <2>2, <2>3, PairingEnds
<1>3. CASE PairingStep
  <2>1. i + 1 \in 1 .. Len(args[1])
    <3>1. i < Len(args[1])
      BY <1>3, Zenon DEF PairingStep
    <3>. QED BY <1>1, <3>1
  <2>2. BadPair(args, i + 1) <=> ~ PointFits(args[1][i + 1]) \/ ~ PointFits(args[2][i + 1])
    BY DEF BadPair, PointFits
  <2>3. CASE BadPair(args, i + 1)
    <3>1. PICK w : Finish(Throw(w))
      BY <1>3, <2>2, <2>3 DEF PairingStep
    <3>2. Throw(w).kind = "throw"
      BY DEF Throw
    <3>. QED BY <1>1, <2>1, <2>3, <3>1, <3>2, PairingEnds
  <2>4. CASE ~ BadPair(args, i + 1)
    <3>1. UNCHANGED <<pc, hook, args, outcome>> /\ i' = i + 1
      BY <1>3, <2>2, <2>4 DEF PairingStep
    <3>2. \A k \in 1 .. i + 1 : ~ BadPair(args, k)
      <4> SUFFICES ASSUME NEW k \in 1 .. i + 1 PROVE ~ BadPair(args, k)
        OBVIOUS
      <4>1. k \in 1 .. i \/ k = i + 1
        BY <1>1
      <4>. QED BY <1>1, <2>4, <4>1
    <3>3. i' \in 0 .. Len(args[1])
      BY <1>1, <2>1, <3>1
    <3>4. Passed'
      BY <1>1, <3>1, <3>2, <3>3 DEF Passed, BadPair
    <3>. QED BY <1>1, <3>1, <3>4 DEF ThrowInv, MsmThrows, PairingThrows, Done
  <2>. QED BY <2>3, <2>4
<1>. QED BY <1>2, <1>3

LEMMA ThrowStep == ASSUME IInv, ThrowInv, [Next]_vars PROVE ThrowInv'
<1>1. CASE UNCHANGED vars
  BY <1>1 DEF vars, loopVars, ThrowInv, Passed, BadTerm, BadPair, MsmThrows,
     PairingThrows, Done
<1>. QED BY <1>1, CallsThrow, MsmThrow, PairingThrow DEF Next, G1MsmLoop, G2MsmLoop

LEMMA Thrown == Spec => []ThrowInv
<1>1. Init => IInv
  BY DEF Init, IInv, Compacted
<1>2. IInv /\ ThrowInv /\ [Next]_vars => IInv' /\ ThrowInv'
  BY StepInv, ThrowStep
<1>. QED BY <1>1, <1>2, InitThrow, PTL DEF Spec

(* An MSM throws for what it should and for nothing else, wherever in a list of
   any length that stands (crypto.cpp 586-649, 667-730). *)
THEOREM MsmThrowsRight == ASSUME PowersOfTwo PROVE Spec => []MsmThrows
<1>1. ThrowInv => MsmThrows
  BY WidthsHold DEF ThrowInv
<1>. QED BY <1>1, Thrown, PTL

(* So does a pairing check (crypto.cpp 789-827). *)
THEOREM PairingThrowsRight == Spec => []PairingThrows
<1>1. ThrowInv => PairingThrows
  BY DEF ThrowInv
<1>. QED BY <1>1, Thrown, PTL

-----------------------------------------------------------------------------
(* Multiplication. *)

LEMMA Orders == Order \in Nat \ {0} /\ Cofactor \in Nat \ {0}
BY OrderAssumption

LEMMA Unreduced == ASSUME NEW a \in Nat, NEW b \in Nat, a < b PROVE a % b = a
OBVIOUS

(* So many bits hold a scalar's amount. *)
Holds(s, nbits) == nbits \in Nat /\ Abs(s) < 2^nbits

LEMMA EnoughBits ==
  ASSUME PowersOfTwo, NEW s \in Scalar
  PROVE  /\ Holds(s, NumBits(s)) /\ Holds(s, NbitsOf(s))
         /\ ScalarFits(s) => Holds(s, ScalarBits)
<1>1. s \in Int /\ ScalarBits \in Nat /\ Abs(s) \in Nat
  BY ScalarAssumption DEF Abs
<1>2. NumBits(s) \in Nat \ {0} /\ Abs(s) < 2^NumBits(s)
  BY <1>1, Digits
<1>3. Holds(s, NbitsOf(s))
  BY <1>1, <1>2 DEF Holds, NbitsOf, Abs, PowersOfTwo
<1>4. ASSUME ScalarFits(s) PROVE Abs(s) < 2^ScalarBits
  <2>1. 2^NumBits(s) <= 2^ScalarBits
    BY <1>1, <1>2, <1>4, PowersGrow DEF ScalarFits
  <2>2. 2^NumBits(s) \in Nat /\ 2^ScalarBits \in Nat
    BY <1>1, <1>2 DEF PowersOfTwo
  <2>. QED BY <1>1, <1>2, <2>1, <2>2
<1>. QED BY <1>1, <1>2, <1>3, <1>4 DEF Holds

(* In the subgroup a scalar counts modulo its order: with enough bits, blst
   multiplies by the scalar that K gave. *)
LEMMA MultIsTimes ==
  ASSUME PowersOfTwo, NEW s \in Scalar, NEW nbits, Holds(s, nbits),
         NEW p, Affine(p) \in Subgroup
  PROVE  /\ multiple(Affine(p), BlstScalar(s), nbits) = Times(s, p)
         /\ mult(Affine(p), BlstScalar(s), nbits) = {Times(s, p)}
         /\ Times(s, p) \in Int
<1>1. PICK a \in Nat, n \in Nat \ {0}, c \in Nat \ {0} :
        /\ a = Abs(s) /\ n = SubgroupOrder /\ c = Cofactor /\ Order = c * n
  BY ScalarAssumption, WholeSubgroup, Orders DEF Abs
<1>2. PICK b \in Nat : b = 2^nbits /\ a < b
  BY <1>1 DEF Holds, PowersOfTwo
<1>3. PICK e \in Nat, q \in Int : e = Affine(p) /\ e = q * c
  <2>1. PICK g \in Nat : g = Affine(p) /\ g % c = 0 /\ g \in Int
    BY <1>1, Orders DEF Group, Subgroup
  <2>2. PICK q \in Int, r \in 0 .. c - 1 : g % c = r /\ g = q * c + r
    BY <2>1, Quotient, Zenon
  <2>3. g = q * c
    BY <2>1, <2>2
  <2>. QED BY <2>1, <2>3, Zenon
<1>4. PICK d \in Nat, u \in Int : d = a % n /\ d <= a /\ a - d = u * n
  BY Reduced, Zenon
<1>5. d % b = d
  <2>1. d < b
    BY <1>2, <1>4
  <2>. QED BY <2>1, Unreduced
<1>6. multiple(Affine(p), BlstScalar(s), nbits) = (e * d) % Order
  BY <1>1, <1>2, <1>3, <1>4, <1>5, Zenon DEF multiple, BlstScalar
<1>7. PICK x \in Int, y \in Int, j \in Int : x = a * e /\ y = e * d /\ j = u * q
  OBVIOUS
<1>8. x - y = j * Order
  <2>1. x - y = (a - d) * e
    BY <1>7
  <2>2. x - y = (u * n) * (q * c)
    BY <1>3, <1>4, <2>1
  <2>3. (u * n) * (q * c) = (u * q) * (c * n)
    OBVIOUS
  <2>. QED BY <1>1, <1>7, <2>2, <2>3, Zenon
<1>9. x % Order = y % Order
  BY <1>8, Orders, SameRemainder, Zenon
<1>10. Times(s, p) = x % Order /\ x % Order \in Int
  BY <1>1, <1>3, <1>7, Orders DEF Times
<1>11. multiple(Affine(p), BlstScalar(s), nbits) = Times(s, p)
  BY <1>6, <1>7, <1>9, <1>10, Zenon
<1>. QED BY <1>10, <1>11 DEF mult

(* A call that multiplies one point. *)
LEMMA MulRight ==
  ASSUME PowersOfTwo, NEW p \in Point, NEW s \in Scalar, NEW nbits, Holds(s, nbits),
         NEW name, Mul(name, p, s, nbits)
  PROVE  outcome'[1].kind = "value" /\ Inside(<<args'[1]>>) =>
           outcome'[1].value = Times(args'[2], args'[1])
<1> SUFFICES ASSUME outcome'[1].kind = "value", Inside(<<args'[1]>>)
             PROVE  outcome'[1].value = Times(args'[2], args'[1])
  OBVIOUS
<1>1. args' = <<p, s>>
  BY DEF Mul, Call
<1>2. args'[1] = p /\ args'[2] = s
  BY <1>1
<1>3. PICK v \in mult(Affine(p), BlstScalar(s), nbits) : outcome'[1] = Value(v)
  <2>1. ASSUME NEW w, Call(name, <<p, s>>, Throw(w)) PROVE FALSE
    BY <2>1 DEF Call, Throw
  <2>2. PICK v \in mult(Affine(p), BlstScalar(s), nbits) : Call(name, <<p, s>>, Value(v))
    BY <2>1 DEF Mul
  <2>. QED BY <2>2 DEF Call
<1>4. Affine(p) \in Subgroup
  BY <1>2 DEF Inside
<1>5. mult(Affine(p), BlstScalar(s), nbits) = {Times(s, p)}
  BY <1>4, MultIsTimes
<1>. QED BY <1>2, <1>3, <1>5 DEF Value

-----------------------------------------------------------------------------
(* What blst would make of the slots in use is at every moment the sum over the
   elements looked at, for a list of points of the subgroup. *)

Fed == [k \in 1 .. valid_point_count |-> multiple(points[k], blst_scalars[k], ScalarBits)]
Terms(a) == [k \in 1 .. Len(a[1]) |-> Times(a[1][k], a[2][k])]

Equal(a, b) == a \in Int /\ b \in Int /\ a % Order = b % Order

Summed == Equal(Sum(Fed, valid_point_count), Sum(Terms(args), i))

SumInv == /\ pc = "msm" => hook \in Msms /\ (Inside(args[2]) => Summed)
          /\ MsmSum

(* A term that counts for nothing, and one that both sums get. *)
LEMMA SkipTerm ==
  ASSUME NEW f, NEW g, NEW n \in Nat, \A k \in 1 .. n : f[k] = g[k],
         NEW h, NEW j \in Nat, h[j + 1] = 0, Equal(Sum(f, n), Sum(h, j))
  PROVE  Equal(Sum(g, n), Sum(h, j + 1))
<1>1. Sum(g, n) = Sum(f, n)
  BY SumSame, Zenon
<1>2. Sum(h, j + 1) = Sum(h, j) + h[j + 1]
  BY SumMore
<1>3. Sum(h, j + 1) = Sum(h, j)
  BY <1>2 DEF Equal
<1>. QED BY <1>1, <1>3, Zenon

LEMMA AddTerm ==
  ASSUME NEW f, NEW g, NEW n \in Nat, \A k \in 1 .. n : f[k] = g[k],
         NEW h, NEW j \in Nat, h[j + 1] = g[n + 1], h[j + 1] \in Int,
         Equal(Sum(f, n), Sum(h, j))
  PROVE  Equal(Sum(g, n + 1), Sum(h, j + 1))
<1>1. PICK a \in Int, b \in Int, c \in Int :
        a = Sum(f, n) /\ b = Sum(h, j) /\ c = h[j + 1] /\ a % Order = b % Order
  BY DEF Equal
<1>2. Sum(g, n + 1) = a + c
  BY <1>1, SumMore
<1>3. Sum(h, j + 1) = b + c
  BY <1>1, SumMore
<1>4. ((a % Order) + c) % Order = (a + c) % Order
  BY Orders, SumOfRemainder, Zenon
<1>5. ((b % Order) + c) % Order = (b + c) % Order
  BY Orders, SumOfRemainder, Zenon
<1>6. a + c \in Int /\ b + c \in Int
  OBVIOUS
<1>. QED BY <1>1, <1>2, <1>3, <1>4, <1>5, <1>6, Zenon DEF Equal

LEMMA InitSum == Init => SumInv
BY DEF Init, SumInv, MsmSum, Returned, Done

(* At the start both sums are empty. *)
LEMMA StartSum ==
  ASSUME NEW name \in Msms, NEW ss, NEW ps, Start(name, <<ss, ps>>, "msm", Len(ps))
  PROVE  SumInv'
<1>1. hook' = name
  BY DEF Start
<1>2. CASE Len(ss) # Len(ps)
  <2>1. pc' = "done" /\ outcome' = <<Throw("mismatched list sizes")>>
    BY <1>2 DEF Start
  <2>2. outcome'[1].kind # "value"
    BY <2>1 DEF Throw
  <2>. QED BY <2>1, <2>2, Zenon DEF SumInv, MsmSum, Returned
<1>3. CASE Len(ss) = Len(ps)
  <2>1. pc' = "msm" /\ i' = 0 /\ valid_point_count' = 0
    BY <1>3 DEF Start
  <2>2. PICK f, h : f = Fed' /\ h = Terms(args')
    OBVIOUS
  <2>3. Sum(f, 0) = 0 /\ Sum(h, 0) = 0
    BY SumEmpty, Zenon
  <2>4. Equal(0, 0)
    BY DEF Equal
  <2>5. Summed'
    BY <2>1, <2>2, <2>3, <2>4, Zenon DEF Summed
  <2>. QED BY <1>1, <2>1, <2>5 DEF SumInv, MsmSum, Returned, Done
<1>. QED BY <1>2, <1>3

LEMMA SingleSum == ASSUME PowersOfTwo, Single PROVE SumInv'
<1> DEFINE Other == pc' = "done" /\ hook' \notin Msms \cup {"G1Mul", "G2Mul"}
<1>1. CASE \E p, q \in Point : G1Add(p, q) \/ G2Add(p, q)
  <2>1. Other
    BY <1>1 DEF G1Add, G2Add, Add, Call, Msms
  <2>. QED BY <2>1 DEF SumInv, MsmSum, Returned, Done, Msms
<1>2. ASSUME NEW p \in Point, NEW s \in Scalar, G1Mul(p, s) \/ G2Mul(p, s)
      PROVE  SumInv'
  <2>1. pc' = "done" /\ hook' \in {"G1Mul", "G2Mul"}
    BY <1>2 DEF G1Mul, G2Mul, Mul, Call
  <2>2. outcome'[1].kind = "value" /\ Inside(<<args'[1]>>) =>
          outcome'[1].value = Times(args'[2], args'[1])
    BY <1>2, EnoughBits, MulRight DEF G1Mul, G2Mul
  <2>. QED BY <2>1, <2>2 DEF SumInv, MsmSum, Returned, Done
<1>3. CASE \/ \E p \in Point : G1InSubgroup(p) \/ G2InSubgroup(p)
           \/ \E p \in Point \cup {OffCurve} : G1OnCurve(p) \/ G2OnCurve(p)
  <2>1. Other
    BY <1>3 DEF G1InSubgroup, G2InSubgroup, G1OnCurve, G2OnCurve, Test, Call, Msms
  <2>. QED BY <2>1 DEF SumInv, MsmSum, Returned, Done, Msms
<1>4. CASE \E e0, e1 \in BOOLEAN : MapFpToG1(e0) \/ MapFp2ToG2(e0, e1)
  <2>1. Other
    BY <1>4 DEF MapFpToG1, MapFp2ToG2, MapFp, Call, Msms
  <2>. QED BY <2>1 DEF SumInv, MsmSum, Returned, Done, Msms
<1>. QED BY <1>1, <1>2, <1>3, <1>4 DEF Single

LEMMA CallsSum == ASSUME PowersOfTwo, Calls PROVE SumInv'
<1>1. ASSUME NEW ss \in ScalarLists, NEW ps \in PointLists, G1Msm(ss, ps) \/ G2Msm(ss, ps)
      PROVE  SumInv'
  BY <1>1, StartSum DEF G1Msm, G2Msm, Msms
<1>2. ASSUME NEW ps \in PairingLists, NEW qs \in PairingLists, PairingCheck(ps, qs)
      PROVE  SumInv'
  <2>1. pc' # "msm" /\ hook' = "PairingCheck"
    BY <1>2 DEF PairingCheck, Start
  <2>. QED BY <2>1 DEF SumInv, MsmSum, Returned, Done
<1>. QED BY <1>1, <1>2, SingleSum DEF Calls

(* A round that keeps no point. *)
LEMMA SkipSummed ==
  ASSUME IInv, Summed, pc = "msm", i < Len(args[2]),
         Affine(args[2][i + 1]) = Infinity,
         points' = [points EXCEPT ![valid_point_count + 1] = Affine(args[2][i + 1])],
         i' = i + 1, UNCHANGED <<args, blst_scalars, valid_point_count>>
  PROVE  Summed'
<1>1. LoopType /\ InBounds
  BY DEF IInv, Compacted
<1>2. PICK n \in Nat, j \in Nat : n = valid_point_count /\ j = i
  BY <1>1, NextSlot
<1>3. PICK f, g, h : f = Fed /\ g = Fed' /\ h = Terms(args)
  OBVIOUS
<1>4. \A k \in 1 .. n : f[k] = g[k]
  <2>1. \A k \in 1 .. n : points'[k] = points[k]
    <3>1. n + 1 \in 1 .. Len(points) /\ points \in Seq(Group)
      BY <1>1, <1>2, NextSlot DEF LoopType
    <3>2. Affine(args[2][i + 1]) \in Group
      BY Stored
    <3>3. \A k \in 1 .. Len(points) : k # n + 1 => points'[k] = points[k]
      BY <1>2, <3>1, <3>2, Written
    <3>. QED BY <3>1, <3>3
  <2>. QED BY <1>2, <1>3, <2>1 DEF Fed
<1>5. h[j + 1] = 0
  <2>1. j + 1 \in 1 .. Len(args[1]) /\ args[1][j + 1] \in Int
    <3>1. Len(args[1]) = Len(args[2]) /\ Len(args[2]) \in Nat /\ args[1][j + 1] \in Scalar
      BY <1>1, <1>2, NextSlot
    <3>2. j + 1 \in 1 .. Len(args[1])
      BY <1>2, <3>1
    <3>3. args[1][j + 1] \in Int
      BY <3>1, ScalarAssumption
    <3>. QED BY <3>2, <3>3
  <2>2. h[j + 1] = Times(args[1][j + 1], args[2][j + 1])
    BY <1>3, <2>1 DEF Terms
  <2>3. Abs(args[1][j + 1]) * 0 = 0 /\ 0 % Order = 0
    BY <2>1, Orders DEF Abs
  <2>. QED BY <1>2, <2>2, <2>3, Zenon DEF Times, Infinity
<1>6. Equal(Sum(f, n), Sum(h, j))
  BY <1>2, <1>3, Zenon DEF Summed
<1>7. Equal(Sum(g, n), Sum(h, j + 1))
  BY <1>4, <1>5, <1>6, SkipTerm
<1>8. valid_point_count' = n /\ i' = j + 1 /\ Terms(args)' = h
  BY <1>2, <1>3 DEF Terms
<1>. QED BY <1>3, <1>7, <1>8, Zenon DEF Summed

(* A round that keeps one. *)
LEMMA KeepSummed ==
  ASSUME PowersOfTwo, IInv, Summed, pc = "msm", i < Len(args[2]),
         Affine(args[2][i + 1]) \in Subgroup, ScalarFits(args[1][i + 1]),
         points' = [points EXCEPT ![valid_point_count + 1] = Affine(args[2][i + 1])],
         blst_scalars' = [blst_scalars EXCEPT ![valid_point_count + 1]
                                                = BlstScalar(args[1][i + 1])],
         valid_point_count' = valid_point_count + 1,
         i' = i + 1, UNCHANGED args
  PROVE  Summed'
<1>1. LoopType /\ InBounds
  BY DEF IInv, Compacted
<1>2. PICK n \in Nat, j \in Nat : n = valid_point_count /\ j = i
  BY <1>1, NextSlot
<1>3. PICK f, g, h : f = Fed /\ g = Fed' /\ h = Terms(args)
  OBVIOUS
<1>4. PICK p \in Point, s \in Scalar : p = args[2][i + 1] /\ s = args[1][i + 1]
  BY <1>1, NextSlot
<1>5. Affine(p) \in Subgroup /\ Affine(p) \in Group /\ BlstScalar(s) \in Nat
  BY <1>4, Stored DEF Subgroup
<1>6. /\ \A k \in 1 .. n : points'[k] = points[k]
      /\ points'[n + 1] = Affine(p)
  <2>1. n + 1 \in 1 .. Len(points) /\ points \in Seq(Group)
    BY <1>1, <1>2, NextSlot DEF LoopType
  <2>2. points' = [points EXCEPT ![n + 1] = Affine(p)]
    BY <1>2, <1>4, Zenon
  <2>3. points'[n + 1] = Affine(p)
        /\ \A k \in 1 .. Len(points) : k # n + 1 => points'[k] = points[k]
    BY <1>5, <2>1, <2>2, Written
  <2>. QED BY <2>1, <2>3
<1>7. /\ \A k \in 1 .. n : blst_scalars'[k] = blst_scalars[k]
      /\ blst_scalars'[n + 1] = BlstScalar(s)
  <2>1. n + 1 \in 1 .. Len(blst_scalars) /\ blst_scalars \in Seq(Nat)
    BY <1>1, <1>2, NextSlot DEF LoopType
  <2>2. blst_scalars' = [blst_scalars EXCEPT ![n + 1] = BlstScalar(s)]
    BY <1>2, <1>4, Zenon
  <2>3. blst_scalars'[n + 1] = BlstScalar(s)
        /\ \A k \in 1 .. Len(blst_scalars) : k # n + 1 => blst_scalars'[k] = blst_scalars[k]
    BY <1>5, <2>1, <2>2, Written
  <2>. QED BY <2>1, <2>3
<1>8. valid_point_count' = n + 1 /\ i' = j + 1 /\ Terms(args)' = h
  BY <1>2, <1>3 DEF Terms
<1>9. \A k \in 1 .. n : f[k] = g[k]
  BY <1>2, <1>3, <1>6, <1>7, <1>8 DEF Fed
<1>10. h[j + 1] = Times(s, p)
  <2>1. j + 1 \in 1 .. Len(args[1])
    BY <1>1, <1>2, NextSlot
  <2>. QED BY <1>2, <1>3, <1>4, <2>1 DEF Terms
<1>11. g[n + 1] = Times(s, p) /\ Times(s, p) \in Int
  <2>1. g[n + 1] = multiple(Affine(p), BlstScalar(s), ScalarBits)
    BY <1>3, <1>6, <1>7, <1>8 DEF Fed
  <2>2. Holds(s, ScalarBits)
    BY <1>4, EnoughBits
  <2>3. multiple(Affine(p), BlstScalar(s), ScalarBits) = Times(s, p) /\ Times(s, p) \in Int
    BY <1>5, <2>2, MultIsTimes, Zenon
  <2>. QED BY <2>1, <2>3, Zenon
<1>12. Equal(Sum(f, n), Sum(h, j))
  BY <1>2, <1>3, Zenon DEF Summed
<1>13. h[j + 1] = g[n + 1] /\ h[j + 1] \in Int
  BY <1>10, <1>11, Zenon
<1>14. Equal(Sum(g, n + 1), Sum(h, j + 1))
  BY <1>9, <1>12, <1>13, AddTerm
<1>. QED BY <1>3, <1>8, <1>14, Zenon DEF Summed

(* No point, one, or enough for Pippenger's method: the same sum. *)
LEMMA FinishSum ==
  ASSUME PowersOfTwo, IInv, ThrowInv, SumInv, MsmFinish, Inside(args[2]) PROVE SumInv'
<1>1. pc = "msm" /\ hook \in Msms /\ Summed /\ LoopType /\ InBounds /\ SideBySide
      /\ (Len(kept) > 0 => first_nbits = NbitsOf(args[1][kept[1]])) /\ i = Len(args[2])
  BY DEF MsmFinish, IInv, Compacted, SumInv
<1> DEFINE Results ==
      CASE valid_point_count = 0 -> {Infinity}
        [] valid_point_count = 1 -> mult(points[1], blst_scalars[1], first_nbits)
        [] OTHER -> {pippenger(points, blst_scalars, valid_point_count)}
<1>0. PICK v \in Results : Finish(Value(v))
  BY DEF MsmFinish
<1>2. /\ pc' = "done" /\ hook' = hook /\ args' = args /\ outcome' = <<Value(v)>>
  BY <1>0 DEF Finish
<1>3. PICK n \in Nat : n = valid_point_count /\ n = Len(kept)
  BY <1>1 DEF InBounds, LoopType
<1>4. PICK f : f = Fed
  OBVIOUS
<1>5. v = Sum(f, n) % Order
  <2>1. CASE n = 0
    <3>1. Sum(f, n) = 0
      BY <2>1, SumEmpty, Zenon
    <3>2. 0 % Order = 0
      BY Orders
    <3>3. v = 0
      BY <1>0, <1>3, <2>1 DEF Infinity
    <3>. QED BY <3>1, <3>2, <3>3, Zenon
  <2>2. CASE n = 1
    <3>1. PICK k : k = kept[1]
      OBVIOUS
    <3>2. /\ points[1] = Affine(args[2][k]) /\ blst_scalars[1] = BlstScalar(args[1][k])
          /\ k \in 1 .. i
      BY <1>1, <1>3, <2>2, <3>1 DEF SideBySide
    <3>3. first_nbits = NbitsOf(args[1][k])
      BY <1>1, <1>3, <2>2, <3>1
    <3> DEFINE p == args[2][k]
    <3>4. PICK s \in Scalar : s = args[1][k] /\ Affine(p) \in Subgroup
      <4>1. args[1][k] \in Scalar
        BY <1>1, <3>2 DEF LoopType, InBounds
      <4>. QED BY <1>1, <3>2, <4>1 DEF Inside
    <3>5. v \in mult(Affine(p), BlstScalar(s), NbitsOf(s))
      BY <1>0, <1>3, <2>2, <3>2, <3>3, <3>4
    <3>6. v = Times(s, p) /\ Times(s, p) \in Int
      <4>1. Holds(s, NbitsOf(s))
        BY EnoughBits
      <4>2. /\ mult(Affine(p), BlstScalar(s), NbitsOf(s)) = {Times(s, p)}
            /\ Times(s, p) \in Int
        BY <3>4, <4>1, MultIsTimes
      <4>. QED BY <3>5, <4>2
    <3>7. Holds(s, ScalarBits)
      <4>1. ~ BadTerm(args, k)
        BY <1>1, <3>2, WidthsHold DEF ThrowInv, Passed
      <4>2. Affine(args[2][k]) # Infinity
        BY <1>1, <1>3, <2>2, <3>2 DEF SideBySide
      <4>3. Abs(s) \in Nat /\ 2^ScalarBits \in Nat /\ ScalarBits \in Nat
        BY ScalarAssumption DEF Abs, PowersOfTwo
      <4>4. ~ Abs(s) >= 2^ScalarBits
        BY <3>4, <4>1, <4>2, Zenon DEF BadTerm
      <4>. QED BY <4>3, <4>4 DEF Holds
    <3>8. f[1] = Times(s, p)
      <4>1. f[1] = multiple(points[1], blst_scalars[1], ScalarBits)
        <5>1. 1 \in 1 .. valid_point_count
          BY <1>3, <2>2
        <5>. QED BY <1>4, <5>1, Zenon DEF Fed
      <4>2. f[1] = multiple(Affine(p), BlstScalar(s), ScalarBits)
        BY <3>2, <3>4, <4>1, Zenon
      <4>3. multiple(Affine(p), BlstScalar(s), ScalarBits) = Times(s, p)
        BY <3>4, <3>7, MultIsTimes, Zenon
      <4>. QED BY <4>2, <4>3, Zenon
    <3>9. Sum(f, 1) = Times(s, p)
      <4>1. Sum(f, 0 + 1) = Sum(f, 0) + f[0 + 1]
        BY SumMore
      <4>2. Sum(f, 0) = 0
        BY SumEmpty
      <4>. QED BY <3>6, <3>8, <4>1, <4>2
    <3>10. Times(s, p) % Order = Times(s, p)
      <4>1. PICK a \in Int, e \in Int : a = Abs(s) /\ e = Affine(p)
        BY <3>4, Orders, ScalarAssumption DEF Abs, Group, Subgroup
      <4>2. PICK w \in Int : w = a * e
        OBVIOUS
      <4>3. (w % Order) % Order = w % Order
        <5>1. w % Order \in 0 .. Order - 1
          BY Orders
        <5>2. PICK r \in 0 .. Order - 1 : r = w % Order
          BY <5>1
        <5>3. r % Order = r
          BY <5>2, Orders
        <5>. QED BY <5>2, <5>3
      <4>. QED BY <4>1, <4>2, <4>3, Zenon DEF Times
    <3>. QED BY <2>2, <3>6, <3>9, <3>10, Zenon
  <2>3. CASE n # 0 /\ n # 1
    <3>1. v = pippenger(points, blst_scalars, n)
      BY <1>0, <1>3, <2>3
    <3>. QED BY <1>3, <1>4, <3>1 DEF pippenger, Fed
  <2>. QED BY <2>1, <2>2, <2>3
<1>6. v = Sum(Terms(args), Len(args[1])) % Order
  <2>1. Equal(Sum(f, n), Sum(Terms(args), i)) /\ i = Len(args[1])
    BY <1>1, <1>3, <1>4 DEF Summed, InBounds
  <2>. QED BY <1>5, <2>1, Zenon DEF Equal
<1>7. outcome'[1].value = v
  BY <1>2 DEF Value
<1>8. Sum(Terms(args'), Len(args'[1])) % Order = outcome'[1].value
  BY <1>2, <1>6, <1>7, Zenon
<1>9. MsmSum'
  BY <1>1, <1>2, <1>8 DEF MsmSum, Returned, Done, Terms, Msms
<1>. QED BY <1>2, <1>9 DEF SumInv

(* For other lists the theorem says nothing of what comes out. *)
LEMMA FinishOutside ==
  ASSUME SumInv, MsmFinish, ~ Inside(args[2]) PROVE SumInv'
<1>1. /\ pc = "msm" /\ hook \in Msms
      /\ pc' = "done" /\ hook' = hook /\ args' = args
  BY DEF MsmFinish, Finish, SumInv
<1>. QED BY <1>1 DEF SumInv, MsmSum, Returned, Done, Msms, Inside

LEMMA MsmStepSum ==
  ASSUME PowersOfTwo, IInv, SumInv, MsmStep PROVE SumInv'
<1>1. /\ pc = "msm" /\ hook \in Msms /\ i < Len(args[2])
      /\ Inside(args[2]) => Summed
  BY DEF MsmStep, SumInv
<1>2. CASE \E w : Finish(Throw(w))
  <2>1. PICK w : Finish(Throw(w))
    BY <1>2
  <2>2. pc' = "done" /\ outcome'[1].kind # "value"
    BY <2>1 DEF Finish, Throw
  <2>. QED BY <2>2, Zenon DEF SumInv, MsmSum, Returned
<1>3. CASE ~ \E w : Finish(Throw(w))
  <2>1. UNCHANGED <<pc, hook, args, outcome>> /\ i' = i + 1 /\ PointFits(args[2][i + 1])
        /\ points' = [points EXCEPT ![valid_point_count + 1] = Affine(args[2][i + 1])]
    BY <1>3 DEF MsmStep
  <2>2. CASE Affine(args[2][i + 1]) = Infinity
    <3>1. UNCHANGED <<blst_scalars, valid_point_count>>
      BY <1>3, <2>2 DEF MsmStep
    <3>2. Inside(args[2]) => Summed'
      BY <1>1, <2>1, <2>2, <3>1, SkipSummed
    <3>. QED BY <1>1, <2>1, <3>2 DEF SumInv, MsmSum, Returned, Done, Inside
  <2>3. CASE Affine(args[2][i + 1]) # Infinity
    <3>1. /\ ScalarFits(args[1][i + 1]) /\ valid_point_count' = valid_point_count + 1
          /\ blst_scalars' = [blst_scalars EXCEPT ![valid_point_count + 1]
                                                    = BlstScalar(args[1][i + 1])]
      BY <1>3, <2>3 DEF MsmStep, ScalarSlot
    <3>2. ASSUME Inside(args[2]) PROVE Summed'
      <4>1. i + 1 \in 1 .. Len(args[2])
        BY <1>1 DEF IInv, LoopType
      <4>2. Affine(args[2][i + 1]) \in Subgroup
        BY <3>2, <4>1 DEF Inside
      <4>. QED BY <1>1, <2>1, <3>1, <3>2, <4>2, KeepSummed
    <3>. QED BY <1>1, <2>1, <3>2 DEF SumInv, MsmSum, Returned, Done, Inside
  <2>. QED BY <2>2, <2>3
<1>. QED BY <1>2, <1>3

LEMMA SumStep == ASSUME PowersOfTwo, IInv, ThrowInv, SumInv, [Next]_vars PROVE SumInv'
<1>1. CASE UNCHANGED vars
  BY <1>1 DEF vars, loopVars, SumInv, Summed, Fed, Terms, MsmSum, Returned, Done, Inside
<1>2. CASE PairingStep \/ PairingFinish
  <2>1. hook = "PairingCheck" /\ hook' = hook /\ pc' # "msm"
    BY <1>2 DEF PairingStep, PairingFinish, Finish, ThrowInv, Passed
  <2>. QED BY <2>1 DEF SumInv, MsmSum, Returned, Done
<1>. QED BY <1>1, <1>2, CallsSum, MsmStepSum, FinishSum, FinishOutside DEF Next, G1MsmLoop, G2MsmLoop

(* For points of the subgroup, multiplication and MSM return the sum of the |s| p:
   for every group and subgroup, scalars of every width although blst reduces
   them, lists of every length and points at infinity anywhere, whichever of its
   three ways the MSM takes (crypto.cpp 569-584, 586-665, 667-730). *)
THEOREM SumRight == ASSUME PowersOfTwo PROVE Spec => []MsmSum
<1>1. Init => IInv
  BY DEF Init, IInv, Compacted
<1>2. IInv /\ ThrowInv /\ SumInv /\ [Next]_vars => IInv' /\ ThrowInv' /\ SumInv'
  BY StepInv, ThrowStep, SumStep
<1>3. SumInv => MsmSum
  BY DEF SumInv
<1>. QED BY <1>1, <1>2, <1>3, InitThrow, InitSum, PTL DEF Spec

-----------------------------------------------------------------------------
(* The pairing check. *)

PairPoint == Subgroup \cup {AltInf, Wide}

LogOf(p) == Affine(p) \div Cofactor
Pairing(p, q) == IF Infinity \in {Affine(p), Affine(q)} THEN 0 ELSE LogOf(p) * LogOf(q)
Pairings(a) == [k \in 1 .. Len(a[1]) |-> Pairing(a[1][k], a[2][k])]

Multiplied ==
  /\ args[1] \in Seq(PairPoint) /\ args[2] \in Seq(PairPoint)
  /\ Sum(Pairings(args), i) \in Int
  /\ accum = Sum(Pairings(args), i) % SubgroupOrder

PairInv == (pc = "pairing" => Multiplied) /\ PairingCancels

LEMMA InitPair == Init => PairInv
BY DEF Init, PairInv, PairingCancels, Returned, Done

(* One more pair: the product grows by its pairing. *)
LEMMA MorePaired ==
  ASSUME NEW p \in PairPoint, NEW q \in PairPoint, PointFits(p), PointFits(q),
         NEW a \in Int, accum = a % SubgroupOrder
  PROVE  Pairing(p, q) \in Int /\ Accumulated(p, q) = (a + Pairing(p, q)) % SubgroupOrder
<1>1. PICK c \in Nat \ {0}, m \in Nat \ {0} : c = Cofactor /\ m = SubgroupOrder
  BY Orders, WholeSubgroup
<1>2. PICK x \in Nat, y \in Nat : x = Affine(p) /\ y = Affine(q)
  BY Orders DEF PairPoint, PointFits, Affine, Subgroup, Group, Infinity
<1>3. PICK u \in Int, v \in Int : /\ u = x \div c /\ v = y \div c
                                  /\ (x = 0 => u = 0) /\ (y = 0 => v = 0)
  BY <1>1
<1>4. u = LogOf(p) /\ v = LogOf(q)
  BY <1>1, <1>2, <1>3, Zenon DEF LogOf
<1>5. PICK w \in Int : w = u * v
  OBVIOUS
<1>6. Pairing(p, q) = w
  <2>1. CASE x = 0 \/ y = 0
    <3>1. w = 0
      BY <1>3, <1>5, <2>1
    <3>2. Infinity \in {Affine(p), Affine(q)}
      BY <1>2, <2>1 DEF Infinity
    <3>. QED BY <3>1, <3>2, Zenon DEF Pairing
  <2>2. CASE ~ (x = 0 \/ y = 0)
    <3>1. Infinity \notin {Affine(p), Affine(q)}
      BY <1>2, <2>2 DEF Infinity
    <3>. QED BY <1>4, <1>5, <3>1, Zenon DEF Pairing
  <2>. QED BY <2>1, <2>2
<1>7. Accumulated(p, q) = ((a % m) + (w % m)) % m
  BY <1>1, <1>2, <1>3, <1>5, Zenon DEF Accumulated, miller_loop, SubgroupOrder
<1>8. ((a % m) + (w % m)) % m = (a + w) % m
  BY SumOfRemainders, Zenon
<1>. QED BY <1>1, <1>6, <1>7, <1>8, Zenon

LEMMA CallsPair == ASSUME Calls PROVE PairInv'
<1>1. ASSUME NEW ss \in ScalarLists, NEW ps \in PointLists, G1Msm(ss, ps) \/ G2Msm(ss, ps)
      PROVE  PairInv'
  <2>1. pc' # "pairing" /\ hook' # "PairingCheck"
    BY <1>1 DEF G1Msm, G2Msm, Start
  <2>. QED BY <2>1 DEF PairInv, PairingCancels, Returned, Done
<1>2. ASSUME NEW ps \in PairingLists, NEW qs \in PairingLists, PairingCheck(ps, qs)
      PROVE  PairInv'
  <2>1. ps \in Seq(PairPoint) /\ qs \in Seq(PairPoint)
    BY LenAssumption, ListsAreSequences DEF PairingLists, PairPoint
  <2>2. CASE Len(ps) # Len(qs)
    <3>1. pc' = "done" /\ outcome' = <<Throw("mismatched list sizes")>>
      BY <1>2, <2>2 DEF PairingCheck, Start
    <3>2. outcome'[1].kind # "value"
      BY <3>1 DEF Throw
    <3>. QED BY <3>1, <3>2, Zenon DEF PairInv, PairingCancels, Returned
  <2>3. CASE Len(ps) = Len(qs)
    <3>1. pc' = "pairing" /\ i' = 0 /\ accum' = 0 /\ args'[1] = ps /\ args'[2] = qs
      BY <1>2, <2>3 DEF PairingCheck, Start
    <3>2. PICK h : h = Pairings(args')
      OBVIOUS
    <3>3. Sum(h, 0) = 0
      BY SumEmpty, Zenon
    <3>4. 0 % SubgroupOrder = 0 /\ 0 \in Int
      BY WholeSubgroup
    <3>5. Multiplied'
      BY <2>1, <3>1, <3>2, <3>3, <3>4, Zenon DEF Multiplied
    <3>. QED BY <3>1, <3>5 DEF PairInv, PairingCancels, Returned, Done
  <2>. QED BY <2>2, <2>3
<1>3. ASSUME Single PROVE PairInv'
  <2>1. pc' = "done" /\ hook' # "PairingCheck"
    BY <1>3 DEF Single, G1Add, G2Add, Add, G1Mul, G2Mul, Mul, G1InSubgroup,
       G2InSubgroup, G1OnCurve, G2OnCurve, Test, MapFpToG1, MapFp2ToG2, MapFp, Call
  <2>. QED BY <2>1 DEF PairInv, PairingCancels, Returned, Done
<1>. QED BY <1>1, <1>2, <1>3 DEF Calls

LEMMA PairingPair ==
  ASSUME ThrowInv, PairInv, PairingStep \/ PairingFinish PROVE PairInv'
<1>1. /\ pc = "pairing" /\ hook = "PairingCheck" /\ Multiplied
      /\ Len(args[1]) = Len(args[2]) /\ Len(args[1]) \in Nat /\ i \in 0 .. Len(args[1])
  BY DEF PairingStep, PairingFinish, ThrowInv, Passed, PairInv
<1>2. CASE PairingFinish
  <2>1. /\ pc' = "done" /\ hook' = hook /\ args' = args /\ outcome' = <<Value(accum = 0)>>
        /\ i = Len(args[1])
    BY <1>2 DEF PairingFinish, Finish
  <2>2. outcome'[1].value = (accum = 0)
    BY <2>1 DEF Value
  <2>3. accum = Sum(Pairings(args), Len(args[1])) % SubgroupOrder
    BY <1>1, <2>1, Zenon DEF Multiplied
  <2>4. outcome'[1].value = (Sum(Pairings(args'), Len(args'[1])) % SubgroupOrder = 0)
    BY <2>1, <2>2, <2>3, Zenon
  <2>5. PairingCancels'
    BY <2>1, <2>4, Zenon DEF PairingCancels, Pairings, Pairing, LogOf, SubgroupOrder
  <2>. QED BY <2>1, <2>5 DEF PairInv
<1>3. CASE PairingStep
  <2>1. CASE \E w : Finish(Throw(w))
    <3>1. pc' = "done" /\ outcome'[1].kind # "value"
      BY <2>1 DEF Finish, Throw
    <3>. QED BY <3>1, Zenon DEF PairInv, PairingCancels, Returned
  <2>2. CASE ~ \E w : Finish(Throw(w))
    <3>1. PICK j, h : j = i /\ h = Pairings(args) /\ j \in Nat
      BY <1>1
    <3>2. j + 1 \in 1 .. Len(args[1])
      <4>1. i < Len(args[1])
        BY <1>3, Zenon DEF PairingStep
      <4>. QED BY <1>1, <3>1, <4>1
    <3>3. PICK p \in PairPoint, q \in PairPoint : p = args[1][j + 1] /\ q = args[2][j + 1]
      BY <1>1, <3>2 DEF Multiplied
    <3>4. /\ PointFits(p) /\ PointFits(q) /\ accum' = Accumulated(p, q)
          /\ i' = j + 1 /\ UNCHANGED <<pc, hook, args, outcome>>
      BY <1>3, <2>2, <3>1, <3>3 DEF PairingStep
    <3>5. PICK a \in Int : a = Sum(h, j) /\ accum = a % SubgroupOrder
      BY <1>1, <3>1, Zenon DEF Multiplied
    <3>6. h[j + 1] = Pairing(p, q)
      BY <3>1, <3>2, <3>3, Zenon DEF Pairings
    <3>7. Pairing(p, q) \in Int /\ Accumulated(p, q) = (a + Pairing(p, q)) % SubgroupOrder
      BY <3>4, <3>5, MorePaired, Zenon
    <3>8. Sum(h, j + 1) = a + Pairing(p, q)
      BY <3>1, <3>5, <3>6, SumMore
    <3>9. Sum(h, j + 1) \in Int
      BY <3>5, <3>7, <3>8
    <3>10. accum' = Sum(h, j + 1) % SubgroupOrder
      BY <3>4, <3>7, <3>8, Zenon
    <3>11. Pairings(args') = h
      BY <3>1, <3>4, Zenon
    <3>12. Multiplied'
      BY <1>1, <3>4, <3>9, <3>10, <3>11, Zenon DEF Multiplied
    <3>. QED BY <1>1, <3>4, <3>12 DEF PairInv, PairingCancels, Returned, Done
  <2>. QED BY <2>1, <2>2
<1>. QED BY <1>2, <1>3

LEMMA PairStep == ASSUME ThrowInv, PairInv, [Next]_vars PROVE PairInv'
<1>1. CASE UNCHANGED vars
  BY <1>1 DEF vars, loopVars, PairInv, Multiplied, Pairings, PairingCancels, Returned, Done
<1>2. CASE MsmStep \/ MsmFinish
  <2>1. hook \in Msms /\ hook' = hook /\ pc' # "pairing"
    BY <1>2 DEF MsmStep, MsmFinish, Finish, ThrowInv, Passed
  <2>. QED BY <2>1 DEF PairInv, PairingCancels, Returned, Done, Msms
<1>. QED BY <1>1, <1>2, CallsPair, PairingPair DEF Next, G1MsmLoop, G2MsmLoop

(* A pairing check accepts exactly the lists whose pairings cancel, for lists of
   every length and groups of every order, pairs with a point at infinity counting
   for nothing (crypto.cpp 789-827). *)
THEOREM PairingRight == Spec => []PairingCancels
<1>1. Init => IInv
  BY DEF Init, IInv, Compacted
<1>2. IInv /\ ThrowInv /\ PairInv /\ [Next]_vars => IInv' /\ ThrowInv' /\ PairInv'
  BY StepInv, ThrowStep, PairStep
<1>3. PairInv => PairingCancels
  BY DEF PairInv
<1>. QED BY <1>1, <1>2, <1>3, InitThrow, InitPair, PTL DEF Spec

=============================================================================
