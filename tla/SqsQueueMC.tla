---------------------------- MODULE SqsQueueMC ----------------------------
(***************************************************************************)
(* SqsQueue with two messages, so that one batch can hold both, two        *)
(* workers, so that both can hold the same message, an unbuffered channel  *)
(* and one of capacity 1, and one crash.                                   *)
(***************************************************************************)
EXTENDS SqsQueue

CONSTANTS m1, m2, w1, w2

MCMessages == {m1, m2}
MCWorkers  == {w1, w2}
MCChanCaps == {0, 1}
=============================================================================
