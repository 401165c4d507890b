-------------------------- MODULE MCGenerationLease --------------------------
(***************************************************************************)
(* TLC instance of GenerationLease.                                        *)
(***************************************************************************)
EXTENDS GenerationLease, TLC

ExecutionSymmetry == Permutations(Executions)

=============================================================================
