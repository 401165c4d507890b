------------------------- MODULE MCGenerationReplay -------------------------
(***************************************************************************)
(* TLC instance of GenerationReplay.                                       *)
(***************************************************************************)
EXTENDS GenerationReplay, TLC

=============================================================================
