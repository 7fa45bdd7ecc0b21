------------------------ MODULE GracefulShutdownMC ------------------------
(***************************************************************************)
(* GracefulShutdown on a small instance: two requests, so that one can     *)
(* finish while another hangs; one task of each kind, which can be running *)
(* before New, start after it, and end; two signals, so that one can find  *)
(* quit full or arrive during the drain.                                   *)
(***************************************************************************)
EXTENDS GracefulShutdown

CONSTANTS r1, r2, t1, h1, p1

MCRequests    == {r1, r2}
MCOwnTasks    == {t1}
MCHelperTasks == {h1}
MCPeriodics   == {p1}
=============================================================================
