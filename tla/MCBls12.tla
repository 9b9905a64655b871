------------------------------ MODULE MCBls12 ------------------------------
(***************************************************************************)
(* Scalars for TLC: both signs, zero, one with all of ScalarBits, which is *)
(* more than the order of the subgroup, and one beyond it.                 *)
(***************************************************************************)
EXTENDS Bls12

MCScalar == {-1, 0, 5, 8}

\* What the theorems suppose of powers of 2, as far as TLC can look.
ASSUME MCPowers == 2^0 = 1 /\ \A n \in 0 .. 20 : 2^n \in Nat /\ 2^(n + 1) = 2 * 2^n

=============================================================================
