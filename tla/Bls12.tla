------------------------------- MODULE Bls12 -------------------------------
(***************************************************************************)
(* The BLS12-381 hooks of plugin-c/crypto.cpp.  A behaviour is one call of *)
(* one hook; the loops of the MSM and pairing hooks go one list element a  *)
(* step, because what they carry from one to the next is what can go wrong.*)
(*                                                                         *)
(* The curve arithmetic is blst's and external.  Points on the curve form  *)
(* a cyclic group, here Order residues with the point at infinity as 0;    *)
(* the subgroup of the pairing is the multiples of Cofactor, and the only  *)
(* hooks that ask for it are the tests: every other takes a point outside  *)
(* it too, where blst's scalars do not multiply as they should.  A point   *)
(* that K passes is one of those, AltInf (coordinates that are not both 0  *)
(* but are 0 modulo the field's characteristic), OffCurve, or Wide (some   *)
(* coordinate has more than 384 bits).                                     *)
(***************************************************************************)
EXTENDS Integers, SequencesExt

CONSTANTS
  Order, Cofactor,
  ScalarBits,             \* width of a scalar (256 in the code)
  WideBits,               \* blst multiplies by so many bits in another way
  AltInf, OffCurve, Wide,
  Scalar,                 \* integers that K may pass as a scalar
  MaxLen                  \* bound: length of the lists

ASSUME OrderAssumption ==
  /\ Order \in Nat \ {0} /\ Cofactor \in Nat \ {0} /\ Order % Cofactor = 0
ASSUME ScalarAssumption ==
  Scalar \subseteq Int /\ ScalarBits \in Nat \ {0} /\ WideBits \in Nat
ASSUME LenAssumption == MaxLen \in Nat

Group    == 0 .. Order - 1
Infinity == 0
Subgroup == { e \in Group : e % Cofactor = 0 }
SubgroupOrder == Order \div Cofactor
Point    == Group \cup {AltInf, Wide}      \* what a caller passes to most hooks

ASSUME PointAssumption ==
  /\ {AltInf, OffCurve, Wide} \cap Group = {}
  /\ AltInf # OffCurve /\ AltInf # Wide /\ OffCurve # Wide

VARIABLES
  pc,         \* "idle", "msm", "pairing", "done"
  hook, args, \* the call: the hook's name and its arguments
  i,          \* list elements the loop has looked at
  points, blst_scalars, valid_point_count, first_nbits,
  kept,       \* history: the list positions points holds
  accum,      \* the pairing's product, as an exponent
  outcome     \* what came of the call, at most one

loopVars == <<i, points, blst_scalars, valid_point_count, first_nbits, kept, accum>>
vars == <<pc, hook, args, loopVars, outcome>>

-----------------------------------------------------------------------------
(* Conversions.  Coordinates are reduced modulo the characteristic, so AltInf
   becomes the point at infinity; the sign of a scalar is dropped, and blst
   reduces what is left modulo the order of the subgroup. *)

Abs(s) == IF s < 0 THEN -s ELSE s

PointFits(p) == p # Wide
Affine(p)    == IF p = AltInf THEN Infinity ELSE p

(* mpz_sizeinbase(s, 2): at least 1. *)
NumBits(s) == CHOOSE b \in 1 .. Abs(s) + 1 :
                Abs(s) < 2^b /\ \A c \in 1 .. b - 1 : 2^c <= Abs(s)

NarrowScalarFits(s) == NumBits(s) < ScalarBits    \* mutant
ScalarFits(s) == NumBits(s) <= ScalarBits
BlstScalar(s) == Abs(s) % SubgroupOrder

NbitsOf(s) == IF s = 0 THEN 0 ELSE NumBits(s)

-----------------------------------------------------------------------------
(* blst. *)

add_or_double(p, q) == (p + q) % Order
multiple(p, s, nbits) == (p * (s % 2^nbits)) % Order

(* From WideBits on, blst splits the scalar along an endomorphism that is a
   multiplication in the subgroup only: outside it, any point may come out. *)
mult(p, s, nbits) ==
  IF nbits < WideBits \/ p \in Subgroup THEN {multiple(p, s, nbits)} ELSE Group

(* term[1] + ... + term[n] *)
Sum(term, n) ==
  LET sum[k \in 0 .. n] == IF k = 0 THEN 0 ELSE sum[k - 1] + term[k]
  IN  sum[n]

(* The sum of s[k] * p[k] over the first n, from all the bits of a scalar. *)
pippenger(p, s, n) ==
  Sum([k \in 1 .. n |-> multiple(p[k], s[k], ScalarBits)], n) % Order

miller_loop(q, p) == ((p \div Cofactor) * (q \div Cofactor)) % SubgroupOrder

-----------------------------------------------------------------------------
(* Calls that take one step. *)

Value(v)    == [kind |-> "value", value |-> v]
Throw(what) == [kind |-> "throw", value |-> what]

Call(name, a, o) == /\ pc = "idle" /\ pc' = "done"
                    /\ hook' = name /\ args' = a
                    /\ outcome' = <<o>>
                    /\ UNCHANGED loopVars

Add(name, p, q) ==
  Call(name, <<p, q>>,
       IF ~ PointFits(p) THEN Throw("Invalid point (first)")
       ELSE IF ~ PointFits(q) THEN Throw("Invalid point (second)")
       ELSE Value(add_or_double(Affine(p), Affine(q))))

G1Add(p, q) == Add("G1Add", p, q)
G2Add(p, q) == Add("G2Add", p, q)

Mul(name, p, s, nbits) ==
  LET Result(o) == Call(name, <<p, s>>, o)
  IN \/ ~ ScalarFits(s) /\ Result(Throw("Invalid scalar"))
     \/ ScalarFits(s) /\ ~ PointFits(p) /\ Result(Throw("Invalid point"))
     \/ /\ ScalarFits(s) /\ PointFits(p)
        /\ \E v \in mult(Affine(p), BlstScalar(s), nbits) : Result(Value(v))

(* The two agree on every scalar; G2Mul hands blst one bit of the scalar 0. *)
G1Mul(p, s) == Mul("G1Mul", p, s, NbitsOf(s))
G2Mul(p, s) == Mul("G2Mul", p, s, NumBits(s))

(* The tests do not throw. *)
Test(name, p, holds) ==
  Call(name, <<p>>, Value(PointFits(p) /\ (Affine(p) = Infinity \/ holds)))

G1InSubgroup(p) == Test("G1InSubgroup", p, p \in Subgroup)
G2InSubgroup(p) == Test("G2InSubgroup", p, p \in Subgroup)
G1OnCurve(p)    == Test("G1OnCurve", p, p \in Group)
G2OnCurve(p)    == Test("G2OnCurve", p, p \in Group)

(* A field element is known by whether it fits 384 bits; which point it is
   mapped to is blst's business. *)
MapFp(name, es) ==
  \E e \in Subgroup :
    Call(name, es, IF \A k \in 1 .. Len(es) : es[k] THEN Value(e)
                   ELSE Throw("Invalid field element"))

MapFpToG1(e)       == MapFp("MapFpToG1", <<e>>)
MapFp2ToG2(e0, e1) == MapFp("MapFp2ToG2", <<e0, e1>>)

-----------------------------------------------------------------------------
(* The loops. *)

Finish(o) == pc' = "done" /\ outcome' = <<o>> /\ UNCHANGED <<hook, args, loopVars>>

Start(name, a, next, n) ==
  /\ pc = "idle"
  /\ hook' = name /\ args' = a
  /\ IF Len(a[1]) # Len(a[2])
     THEN /\ pc' = "done" /\ outcome' = <<Throw("mismatched list sizes")>>
          /\ UNCHANGED loopVars
     ELSE /\ pc' = next /\ UNCHANGED outcome
          /\ i' = 0
          /\ points' = [k \in 1 .. n |-> Infinity]
          /\ blst_scalars' = [k \in 1 .. n |-> 0]
          /\ valid_point_count' = 0 /\ first_nbits' = 0
          /\ kept' = <<>> /\ accum' = 0

G1Msm(ss, ps) == Start("G1Msm", <<ss, ps>>, "msm", Len(ps))
G2Msm(ss, ps) == Start("G2Msm", <<ss, ps>>, "msm", Len(ps))

(* Where the scalar of a finite point goes, and whose width first_nbits is. *)
UncompactedSlot == i + 1    \* mutant
ScalarSlot == valid_point_count + 1

FirstElementBits(s) == IF i = 0 THEN NbitsOf(s) ELSE first_nbits    \* mutant
FirstBits(s) == IF valid_point_count = 0 THEN NbitsOf(s) ELSE first_nbits

(* One round of the MSM loop.  A point is converted into the next free slot,
   which a point at infinity does not use up; the scalar beside a point at
   infinity is not looked at. *)
MsmStep ==
  /\ pc = "msm" /\ i < Len(args[2])
  /\ LET p == args[2][i + 1]
         s == args[1][i + 1]
         slot == valid_point_count + 1
     IN \/ /\ ~ PointFits(p)
           /\ Finish(Throw("Invalid point"))
        \/ /\ PointFits(p) /\ Affine(p) = Infinity
           /\ points' = [points EXCEPT ![slot] = Affine(p)]
           /\ i' = i + 1
           /\ UNCHANGED <<pc, hook, args, blst_scalars, valid_point_count,
                          first_nbits, kept, accum, outcome>>
        \/ /\ PointFits(p) /\ Affine(p) # Infinity /\ ~ ScalarFits(s)
           /\ Finish(Throw("Invalid scalar"))
        \/ /\ PointFits(p) /\ Affine(p) # Infinity /\ ScalarFits(s)
           /\ points' = [points EXCEPT ![slot] = Affine(p)]
           /\ blst_scalars' = [blst_scalars EXCEPT ![ScalarSlot] = BlstScalar(s)]
           /\ first_nbits' = FirstBits(s)
           /\ valid_point_count' = valid_point_count + 1
           /\ kept' = Append(kept, i + 1)
           /\ i' = i + 1
           /\ UNCHANGED <<pc, hook, args, accum, outcome>>

(* No point, one point, or enough for Pippenger's method. *)
MsmFinish ==
  /\ pc = "msm" /\ i = Len(args[2])
  /\ \E v \in CASE valid_point_count = 0 -> {Infinity}
              [] valid_point_count = 1 -> mult(points[1], blst_scalars[1], first_nbits)
              [] OTHER -> {pippenger(points, blst_scalars, valid_point_count)} :
       Finish(Value(v))

(* The rest of the two hooks, which is the same code twice. *)
G1MsmLoop == hook = "G1Msm" /\ (MsmStep \/ MsmFinish)
G2MsmLoop == hook = "G2Msm" /\ (MsmStep \/ MsmFinish)

PairingCheck(ps, qs) == Start("PairingCheck", <<ps, qs>>, "pairing", 0)

LastPair(p, q) == miller_loop(Affine(q), Affine(p))    \* mutant
Accumulated(p, q) ==
  (accum + miller_loop(Affine(q), Affine(p))) % SubgroupOrder

PairingStep ==
  /\ pc = "pairing" /\ i < Len(args[1])
  /\ LET p == args[1][i + 1]
         q == args[2][i + 1]
     IN \/ ~ PointFits(p) /\ Finish(Throw("Invalid point (first)"))
        \/ /\ PointFits(p) /\ ~ PointFits(q)
           /\ Finish(Throw("Invalid point (second)"))
        \/ /\ PointFits(p) /\ PointFits(q)
           /\ accum' = Accumulated(p, q)
           /\ i' = i + 1
           /\ UNCHANGED <<pc, hook, args, points, blst_scalars,
                          valid_point_count, first_nbits, kept, outcome>>

PairingFinish == /\ pc = "pairing" /\ i = Len(args[1])
                 /\ Finish(Value(accum = 0))

-----------------------------------------------------------------------------
Init ==
  /\ pc = "idle" /\ hook = "none" /\ args = <<>> /\ outcome = <<>>
  /\ i = 0 /\ points = <<>> /\ blst_scalars = <<>>
  /\ valid_point_count = 0 /\ first_nbits = 0 /\ kept = <<>> /\ accum = 0

PointLists   == BoundedSeq(Point, MaxLen)
ScalarLists  == BoundedSeq(Scalar, MaxLen)
PairingLists == BoundedSeq(Subgroup \cup {AltInf, Wide}, MaxLen)

Single ==
  \/ \E p, q \in Point : G1Add(p, q) \/ G2Add(p, q)
  \/ \E p \in Point, s \in Scalar : G1Mul(p, s) \/ G2Mul(p, s)
  \/ \E p \in Point : G1InSubgroup(p) \/ G2InSubgroup(p)
  \/ \E p \in Point \cup {OffCurve} : G1OnCurve(p) \/ G2OnCurve(p)
  \/ \E e0, e1 \in BOOLEAN : MapFpToG1(e0) \/ MapFp2ToG2(e0, e1)

Calls ==
  /\ pc = "idle"
  /\ \/ Single
     \/ \E ss \in ScalarLists, ps \in PointLists : G1Msm(ss, ps) \/ G2Msm(ss, ps)
     \/ \E ps, qs \in PairingLists : PairingCheck(ps, qs)

Next == Calls \/ G1MsmLoop \/ G2MsmLoop \/ PairingStep \/ PairingFinish

Spec == Init /\ [][Next]_vars

-----------------------------------------------------------------------------
(* Correctness. *)

(* The loop never writes outside its two vectors. *)
InBounds ==
  /\ Len(args[1]) = Len(args[2])
  /\ Len(points) = Len(args[2]) /\ Len(blst_scalars) = Len(args[2])
  /\ valid_point_count = Len(kept)
  /\ Len(kept) <= i /\ i <= Len(args[2])

(* The slots in use hold finite points looked at, in list order, each with
   its own scalar ... *)
SideBySide ==
  \A k \in 1 .. Len(kept) :
    /\ kept[k] \in 1 .. i
    /\ \A l \in 1 .. k - 1 : kept[l] < kept[k]
    /\ points[k] = Affine(args[2][kept[k]]) /\ points[k] # Infinity
    /\ blst_scalars[k] = BlstScalar(args[1][kept[k]])

(* ... and none of those is missing. *)
NoneDropped ==
  \A j \in 1 .. i : \/ Affine(args[2][j]) = Infinity
                    \/ \E k \in 1 .. Len(kept) : kept[k] = j

(* The MSM loop compacts its lists: however points at infinity are spread, the
   first valid_point_count slots of both vectors are the finite points among
   the elements looked at, and first_nbits is of the first of them. *)
Compacted ==
  pc = "msm" => /\ InBounds /\ SideBySide /\ NoneDropped
                /\ Len(kept) > 0 => first_nbits = NbitsOf(args[1][kept[1]])

Done(hooks) == pc = "done" /\ hook \in hooks

Returned(hooks) == Done(hooks) /\ outcome[1].kind = "value"

(* s times p, by the definition of a group. *)
Times(s, p) == (Abs(s) * Affine(p)) % Order

Inside(ps) == \A k \in 1 .. Len(ps) : Affine(ps[k]) \in Subgroup

(* For points of the subgroup, multiplication and MSM return the sum of the
   |s| p, of whatever width the scalars are, whichever of the three ways the MSM
   takes and whatever points at infinity the list has.  For other points they
   do not: the scalar was reduced modulo the order of the subgroup. *)
MsmSum ==
  /\ Returned({"G1Mul", "G2Mul"}) /\ Inside(<<args[1]>>) =>
       outcome[1].value = Times(args[2], args[1])
  /\ Returned({"G1Msm", "G2Msm"}) /\ Inside(args[2]) =>
       LET n == Len(args[1])
       IN  outcome[1].value
             = Sum([k \in 1 .. n |-> Times(args[1][k], args[2][k])], n) % Order

(* An MSM throws for lists of different lengths, for a point that is too wide,
   and for a scalar that is too wide unless its point is at infinity; for
   nothing else, whatever the order of the list. *)
MsmThrows ==
  Done({"G1Msm", "G2Msm"}) =>
    (outcome[1].kind = "throw"
      <=> \/ Len(args[1]) # Len(args[2])
          \/ \E k \in 1 .. Len(args[2]) :
               \/ args[2][k] = Wide
               \/ Affine(args[2][k]) # Infinity /\ Abs(args[1][k]) >= 2^ScalarBits)

(* The pairing check accepts exactly the lists whose pairings cancel, pairs
   with a point at infinity counting for nothing. *)
PairingCancels ==
  Returned({"PairingCheck"}) =>
    LET n == Len(args[1])
        log(p) == Affine(p) \div Cofactor
        pairing(p, q) == IF Infinity \in {Affine(p), Affine(q)} THEN 0
                         ELSE log(p) * log(q)
    IN outcome[1].value =
         (Sum([k \in 1 .. n |-> pairing(args[1][k], args[2][k])], n)
            % SubgroupOrder = 0)

(* krypto.md:140-142: when a coordinate does not fit in 384 bits or a scalar in
   256, "all BLS12_381 functions evaluate to #False", that is, to no value.
   This does not hold: the loop looks at no scalar beside a point at infinity. *)
UnfitIsFalse ==
  /\ Done({"G1Msm", "G2Msm"}) /\ Len(args[1]) = Len(args[2])
  /\ \E k \in 1 .. Len(args[1]) :
       ~ PointFits(args[2][k]) \/ ~ ScalarFits(args[1][k])
  => outcome[1].kind = "throw"

=============================================================================
