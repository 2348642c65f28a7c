------------------------------ MODULE MCRawEvents ------------------------------
(***************************************************************************)
(* A small instance of RawEvents for TLC.                                  *)
(***************************************************************************)
EXTENDS RawEvents

CONSTANTS d1, d2
=============================================================================
