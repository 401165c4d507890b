---------------------------- MODULE MCModeration ----------------------------
(***************************************************************************)
(* TLC instance of Moderation.                                             *)
(***************************************************************************)
EXTENDS Moderation, TLC

=============================================================================
