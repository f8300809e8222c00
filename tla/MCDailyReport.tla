---------------------------- MODULE MCDailyReport ---------------------------
(***************************************************************************)
(* Small instances of DailyReport.                                         *)
(***************************************************************************)
EXTENDS DailyReport

CONSTANTS p1, p2, c1, x1
=============================================================================
