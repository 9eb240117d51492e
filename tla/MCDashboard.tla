---------------------------- MODULE MCDashboard ----------------------------
(* Instance of Dashboard for TLC.                                           *)
EXTENDS Dashboard

CONSTANTS c1, c2, t1, t2     \* model values
=============================================================================
