---------------------------- MODULE MCLakehouseDag -----------------------------
(***************************************************************************)
(* A small instance of LakehouseDag for TLC.                               *)
(***************************************************************************)
EXTENDS LakehouseDag
=============================================================================
