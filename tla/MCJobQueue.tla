----------------------------- MODULE MCJobQueue -----------------------------
(***************************************************************************)
(* Constants of JobQueue for TLC.                                          *)
(***************************************************************************)
EXTENDS JobQueue, TLC

CONSTANTS w1, w2, c1

OneRun == <<"experiment">>
RunAndExport == <<"experiment", "export">>
=============================================================================
