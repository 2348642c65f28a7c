----------------------------- MODULE MCMedallion -----------------------------
(***************************************************************************)
(* Small instances of Medallion for TLC.                                   *)
(***************************************************************************)
EXTENDS Medallion, TLC

CONSTANTS c1, c2, o1, o2, i1, i2, jan, job, dag

(* Item i1 belongs to order o1, i2 to o2. *)
MCOrderOf == [i \in Items |-> IF i = i1 THEN o1 ELSE o2]

(* o1 and o2 are created on different days; days 1 and 2 share a month. *)
MCDays == {1, 2}
MCDayOf == [k \in Orders \cup Customers |-> IF k \in {o2, c2} THEN 2 ELSE 1]
MCMonthOf == [day \in Days |-> jan]
MCBucketOf == [k \in Orders \cup Customers |-> 0]

=============================================================================
