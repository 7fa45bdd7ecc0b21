----------------------- MODULE ConcurrencyLimiterMC -----------------------
(***************************************************************************)
(* ConcurrencyLimiter with three requests, enough for two to be inside     *)
(* while a third is decided, and limits below zero, zero, reachable and    *)
(* out of reach.                                                           *)
(***************************************************************************)
EXTENDS ConcurrencyLimiter

CONSTANTS r1, r2, r3

MCRequests == {r1, r2, r3}
MCLimits   == {-1, 0, 1, 2, 4}
=============================================================================
