-------------------------- MODULE MCFileProcessing --------------------------
(***************************************************************************)
(* The instance of FileProcessing that TLC checks: two workers (servers),  *)
(* retries 0 .. MaxRetries where the code has 0 .. 3.                      *)
(***************************************************************************)
EXTENDS FileProcessing, TLC

Trouble(calls, stalls, crashes, uploads, deletes) ==
  [calls |-> calls, stalls |-> stalls, crashes |-> crashes, uploads |-> uploads,
   deletes |-> deletes]

SomeTroubles == {Trouble(3, 0, 0, 1, 0), Trouble(2, 0, 1, 0, 1), Trouble(0, 2, 1, 0, 1),
                 Trouble(2, 1, 0, 0, 0)}
=============================================================================
