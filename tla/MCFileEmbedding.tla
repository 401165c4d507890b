--------------------------- MODULE MCFileEmbedding ---------------------------
(***************************************************************************)
(* The instance of FileEmbedding that TLC checks: one file, two vector     *)
(* spaces, two servers, s2 with the worker w2 and the rest on s1.          *)
(***************************************************************************)
EXTENDS FileEmbedding, TLC

CONSTANTS s1, s2, w2

TwoServers == [w \in Workers \cup Autos |-> IF w = w2 THEN s2 ELSE s1]

Some(calls, drops, stalls, restarts, submits, changes, cuts, autos) ==
  [calls |-> calls, drops |-> drops, stalls |-> stalls, restarts |-> restarts,
   submits |-> submits, changes |-> changes, cuts |-> cuts, autos |-> autos]

SomeEvents == {Some(0, 0, 1, 0, 1, 1, 0, 0), Some(2, 0, 0, 0, 1, 0, 0, 0),
               Some(1, 0, 0, 1, 1, 0, 0, 0), Some(0, 0, 0, 1, 1, 1, 0, 0),
               Some(1, 0, 0, 0, 2, 0, 0, 0), Some(0, 0, 0, 0, 1, 1, 1, 0),
               Some(0, 0, 0, 0, 1, 1, 0, 1), Some(1, 0, 0, 0, 1, 1, 0, 0),
               Some(1, 0, 0, 1, 0, 1, 0, 1), Some(1, 0, 0, 0, 1, 0, 0, 1),
               Some(0, 0, 0, 0, 1, 2, 0, 0), Some(1, 1, 0, 0, 1, 0, 0, 0),
               Some(0, 1, 0, 0, 1, 1, 0, 0)}
=============================================================================
