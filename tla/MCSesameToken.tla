--------------------------- MODULE MCSesameToken ---------------------------
(* A small instance of SesameToken for TLC. *)
EXTENDS SesameToken, TLC

\* Around zero, the margin and one more than it.
MCLifetimes == {-1, 2, 3, 5}
MCSymmetry == Permutations(Calls)
=============================================================================
