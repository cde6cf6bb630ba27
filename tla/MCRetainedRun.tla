--------------------------- MODULE MCRetainedRun ----------------------------
(* The instance of RetainedRun TLC checks: its constants are numbers. *)
EXTENDS RetainedRun
=============================================================================
