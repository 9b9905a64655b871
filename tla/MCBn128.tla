------------------------------ MODULE MCBn128 ------------------------------
(***************************************************************************)
(* Calls for TLC: everything that may be asked for one thread, and the     *)
(* longest of the hooks for the others.                                    *)
(***************************************************************************)
EXTENDS Bn128

CONSTANT Asker    \* the thread that calls everything

Pairable1 == G1 \cup {OffField}
Pairable2 == { q \in G2 : InSubgroup(q) } \cup {OffField}
AnyG1 == G1 \cup {OffCurve, OffField}
AnyG2 == G2 \cup {OffCurve, OffField}

AllCalls ==
  [hook : {"bn128valid"}, p : AnyG1]
  \cup [hook : {"bn128g2valid"}, q : AnyG2]
  \cup [hook : {"bn128add"}, p : AnyG1, p2 : AnyG1]
  \cup [hook : {"bn128mul"}, p : AnyG1, s : 0 .. R + 1]
  \cup [hook : {"bn128ate"}, g1 : BoundedSeq(Pairable1, 2), g2 : BoundedSeq(Pairable2, 2)]

OneAte == [hook |-> "bn128ate", g1 |-> <<1>>, g2 |-> <<Cofactor>>]

MCCalls == [t \in Thread |-> IF t = Asker THEN AllCalls ELSE {OneAte}]

=============================================================================
