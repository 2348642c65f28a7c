---------------------------- MODULE MCOrderRevenue ----------------------------
(***************************************************************************)
(* Small instances of OrderRevenue for TLC.                                *)
(***************************************************************************)
EXTENDS OrderRevenue

CONSTANTS o1, o2, q1, q2

TwoPartitions == o1 :> q1 @@ o2 :> q2
OnePartition == o1 :> q1 @@ o2 :> q1
=============================================================================
