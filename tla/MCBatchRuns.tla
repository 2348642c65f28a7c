----------------------------- MODULE MCBatchRuns ------------------------------
(***************************************************************************)
(* Small instances of BatchRuns for TLC.                                   *)
(***************************************************************************)
EXTENDS BatchRuns

CONSTANTS p1, p2
=============================================================================
