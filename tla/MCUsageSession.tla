--------------------------- MODULE MCUsageSession ---------------------------
(***************************************************************************)
(* TLC instance of UsageSession.                                           *)
(***************************************************************************)
EXTENDS UsageSession, TLC

SessionSymmetry == Permutations(Refs) \cup Permutations(Sessions)

=============================================================================
