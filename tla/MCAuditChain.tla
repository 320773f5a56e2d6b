---------------------------- MODULE MCAuditChain ----------------------------
(* Symmetry and a clock that may be set back, for the checks of AuditChain. *)
EXTENDS AuditChain

ClockMoves == {-1, 0, 1}

ChainSymmetry == Permutations(Writer) \cup Permutations(Body)
=============================================================================
