---------------------------- MODULE MCJsonHooks ----------------------------
(***************************************************************************)
(* JsonHooks for TLC: one text is as good as another.                      *)
(***************************************************************************)
EXTENDS JsonHooks

TextSymmetry == Permutations(Text)

=============================================================================
