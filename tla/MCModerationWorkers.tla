------------------------- MODULE MCModerationWorkers -------------------------
(***************************************************************************)
(* Instances of ModerationWorkers; three goroutines are the fewest with a  *)
(* slot in use, one free and one to be freed.                              *)
(***************************************************************************)
EXTENDS ModerationWorkers
=============================================================================
