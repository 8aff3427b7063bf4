------------------------- MODULE MCCscsVerification -------------------------
(* Model instances of CscsVerification: symmetry.                          *)
EXTENDS CscsVerification, TLC

Identical == Permutations(Requests) \cup Permutations(Photos)
=============================================================================
