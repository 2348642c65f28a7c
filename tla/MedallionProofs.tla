--------------------------- MODULE MedallionProofs ---------------------------
(***************************************************************************)
(* Theorems about Medallion, for every value of its constants.             *)
(*                                                                         *)
(* Inductive invariants, each resting on those before:                     *)
(*   TypeOK                                                                *)
(*   UniqueInv   any number of drivers: what is stored, and what is about  *)
(*               to be stored, has one row per key, in the key's partition *)
(*   BronzeInv   one driver at a time: what is about to be stored is the   *)
(*               latest of Bronze, and what is stored came from Bronze     *)
(*   DailyInv    one driver: what was computed of gold.daily_revenue is    *)
(*               still what Silver implies                                 *)
(*   CoverInv    one driver, events published in log order: the customers  *)
(*               of the streamed orders of Bronze are in it or in Kafka    *)
(***************************************************************************)
EXTENDS Medallion, CdcSourceProofs

USE BatchAssumption

LEMMA StepNames ==
    /\ \A t \in Tables : IngestStep[t] \in Steps /\ ReadStep[t] \in Steps /\ WriteStep[t] \in Steps
    /\ \A g \in GoldTables : ReadStep[g] \in Steps /\ WriteStep[g] \in Steps
    /\ \A s \in Steps : NextStep[s] \in Steps
    /\ "idle" \in Steps
  BY DEF Steps, NextStep, Tables, GoldTables, IngestStep, ReadStep, WriteStep

(* Of the Silver tables, a step commits one at most, and only its read
   leads to it; no other kind of step is a commit.                       *)
LEMMA WriteSteps ==
    /\ \A t \in Tables, s \in Steps : NextStep[s] = WriteStep[t] => s = ReadStep[t]
    /\ \A t, u \in Tables : WriteStep[t] = WriteStep[u] => t = u
    /\ \A t, u \in Tables : ReadStep[t] = ReadStep[u] => t = u
    /\ \A t, u \in Tables : ReadStep[t] # WriteStep[u] /\ IngestStep[t] # WriteStep[u]
                            /\ IngestStep[t] # ReadStep[u]
    /\ \A t \in Tables, g \in GoldTables : /\ WriteStep[t] # ReadStep[g]
                                           /\ WriteStep[t] # WriteStep[g]
                                           /\ ReadStep[t] # ReadStep[g]
                                           /\ ReadStep[t] # WriteStep[g]
    /\ \A t \in Tables : /\ WriteStep[t] \notin {"idle", "done"}
                         /\ ReadStep[t] \notin {"idle", "done"}
  BY DEF Steps, NextStep, Tables, GoldTables, IngestStep, ReadStep, WriteStep

LEMMA DayTablesAreTables == DayTables \subseteq Tables \ {"order_items"}
  BY DEF DayTables, Tables

----------------------------------------------------------------------------
(***************************************************************************)
(* A step of the system is a step of the source, of a driver, or nothing.  *)
(* Each invariant below is shown for these cases, one action at a time.    *)
(***************************************************************************)
LEMMA BatchTypeNext == TypeOK /\ [Next]_vars => BatchTypeOK'
  <1> SUFFICES ASSUME TypeOK, [Next]_vars
               PROVE  BatchTypeOK'
    OBVIOUS
  <1> USE DEF BatchTypeOK
  <1> BatchTypeOK
    BY DEF TypeOK
  <1>1. CASE UNCHANGED batchVars
    BY <1>1 DEF batchVars, Event, Row
  <1>2. ASSUME NEW d \in Drivers, BatchStep(d)
        PROVE  BatchTypeOK'
    <2>1. CASE StartBatch(d)
      BY <2>1, StepNames DEF StartBatch, Advance, Event, Row
    <2>2. ASSUME NEW t \in Tables, Ingest(d, t)
          PROVE  BatchTypeOK'
      <3>1. ParsedEvents(t) \subseteq Event(t)
        BY DEF ParsedEvents, TypeOK, SourceTypeOK
      <3> QED
        BY <2>2, <3>1, StepNames DEF Ingest, Advance, Event, Row
    <2>3. ASSUME NEW t \in Tables, ReadSilver(d, t)
          PROVE  BatchTypeOK'
      BY <2>3, StepNames DEF ReadSilver, Advance, Event, Row
    <2>4. ASSUME NEW t \in Tables, WriteSilver(d, t)
          PROVE  BatchTypeOK'
      BY <2>4, StepNames DEF WriteSilver, Advance, Event, Row
    <2>5. ASSUME NEW g \in GoldTables, ReadGold(d, g)
          PROVE  BatchTypeOK'
      BY <2>5, StepNames DEF ReadGold, Advance, Event, Row
    <2>6. ASSUME NEW g \in GoldTables, WriteGold(d, g)
          PROVE  BatchTypeOK'
      BY <2>6, StepNames DEF WriteGold, Advance, Event, Row
    <2>7. CASE Finish(d)
      BY <2>7, StepNames DEF Finish, Advance, Event, Row
    <2> QED
      BY <1>2, <2>1, <2>2, <2>3, <2>4, <2>5, <2>6, <2>7 DEF BatchStep
  <1>3. ASSUME NEW d \in Drivers, Crash(d)
        PROVE  BatchTypeOK'
    BY <1>3, StepNames DEF Crash, Event, Row
  <1> QED
    BY <1>1, <1>2, <1>3 DEF Next, vars

(* No step of a driver changes the source, and no step of the source the lake. *)
LEMMA SourceSteps == [Next]_vars => [SourceNext]_sourceVars
  BY DEF Next, vars, BatchStep, StartBatch, Ingest, ReadSilver, WriteSilver, ReadGold,
         WriteGold, Finish, Crash

(***************************************************************************)
(* Type correctness of the source and of the batch pipeline.               *)
(***************************************************************************)
THEOREM TypeCorrect == Spec => []TypeOK
  <1>1. Init => TypeOK
    BY SourceTypeInit, StepNames DEF Init, BatchInit, TypeOK, BatchTypeOK
  <1>2. TypeOK /\ [Next]_vars => TypeOK'
    BY SourceTypeNext, SourceSteps, BatchTypeNext DEF TypeOK
  <1> QED
    BY <1>1, <1>2, PTL DEF Spec

----------------------------------------------------------------------------
(***************************************************************************)
(* What a step may do to Bronze, Silver and the rows held for a commit.    *)
(***************************************************************************)
OthersStay(d) ==
    /\ \A e \in Drivers \ {d} : pc'[e] = pc[e] /\ held'[e] = held[e]
    /\ pc'[d] \in {NextStep[pc[d]], "idle"}
NotCommittingNext(d) == \A t \in Tables : pc'[d] # WriteStep[t]
NotCommitting(d) == pc'[d] = "idle" \/ \A t \in Tables : pc[d] # WriteStep[t]

LEMMA DriverSteps ==
    ASSUME TypeOK, [Next]_vars
    PROVE  \/ UNCHANGED <<raw, silver, held, pc>>
           \/ \E d \in Drivers : OthersStay(d) /\
                \/ \E t \in Tables : ReadSilver(d, t)
                \/ \E t \in Tables : WriteSilver(d, t) /\ NotCommittingNext(d)
                \/ \E t \in Tables : Ingest(d, t) /\ NotCommittingNext(d)
                \/ raw' = raw /\ silver' = silver /\ NotCommitting(d) /\ NotCommittingNext(d)
  <1> USE DEF OthersStay, NotCommitting, NotCommittingNext, Advance
  <1>0. pc \in [Drivers -> Steps] /\ DOMAIN held = Drivers
    BY DEF TypeOK, BatchTypeOK
  <1>1. CASE UNCHANGED batchVars
    BY <1>1 DEF batchVars
  <1>2. ASSUME NEW d \in Drivers, BatchStep(d)
        PROVE  OthersStay(d) /\
                \/ \E t \in Tables : ReadSilver(d, t)
                \/ \E t \in Tables : WriteSilver(d, t) /\ NotCommittingNext(d)
                \/ \E t \in Tables : Ingest(d, t) /\ NotCommittingNext(d)
                \/ raw' = raw /\ silver' = silver /\ NotCommitting(d) /\ NotCommittingNext(d)
    <2>1. CASE StartBatch(d)
      BY <2>1, <1>0, WriteSteps DEF StartBatch
    <2>2. ASSUME NEW t \in Tables, Ingest(d, t)
          PROVE  OthersStay(d) /\ NotCommittingNext(d)
      BY <2>2, <1>0, WriteSteps DEF Ingest
    <2>3. ASSUME NEW t \in Tables, ReadSilver(d, t)
          PROVE  OthersStay(d)
      BY <2>3, <1>0 DEF ReadSilver
    <2>4. ASSUME NEW t \in Tables, WriteSilver(d, t)
          PROVE  OthersStay(d) /\ NotCommittingNext(d)
      BY <2>4, <1>0, WriteSteps DEF WriteSilver
    <2>5. ASSUME NEW g \in GoldTables, ReadGold(d, g) \/ WriteGold(d, g)
          PROVE  /\ OthersStay(d) /\ raw' = raw /\ silver' = silver
                 /\ NotCommitting(d) /\ NotCommittingNext(d)
      BY <2>5, <1>0, WriteSteps DEF ReadGold, WriteGold
    <2>6. CASE Finish(d)
      BY <2>6, <1>0, WriteSteps DEF Finish
    <2> QED
      BY <1>2, <2>1, <2>2, <2>3, <2>4, <2>5, <2>6 DEF BatchStep
  <1>3. ASSUME NEW d \in Drivers, Crash(d)
        PROVE  /\ OthersStay(d) /\ raw' = raw /\ silver' = silver
                 /\ NotCommitting(d) /\ NotCommittingNext(d)
    BY <1>3, <1>0, WriteSteps DEF Crash
  <1> QED
    BY <1>1, <1>2, <1>3 DEF Next, vars

----------------------------------------------------------------------------
(***************************************************************************)
(* One row per key, in the partition of the key's creation day.            *)
(***************************************************************************)
DayUnique(S) ==
    \A r, s \in S : /\ r.key = s.key => r = s
                    /\ r.part = DayOf[r.key]

UniqueInv ==
    \A t \in DayTables :
        /\ DayUnique(silver[t])
        /\ \A d \in Drivers : pc[d] = WriteStep[t] => DayUnique(held[d])

(* Replacing whole partitions by unique rows leaves no second row of a key:
   an old row of the same key would be in a partition that is replaced.   *)
LEMMA OverwriteKeepsUnique ==
    ASSUME NEW old, NEW new, DayUnique(old), DayUnique(new)
    PROVE  DayUnique(OverwritePartitions(old, new))
  BY DEF DayUnique, OverwritePartitions

(* latest_per_key leaves one row per key. *)
LEMMA LatestIsUnique ==
    ASSUME NEW rows, NEW latest \in LatestPerKey(rows)
    PROVE  /\ latest \subseteq rows
           /\ \A r, s \in latest : r.key = s.key => r = s
           /\ \A r \in rows : \E s \in latest : s.key = r.key /\ r.ts <= s.ts
  BY DEF LatestPerKey, NewestRows

LEMMA SilverRowsUnique ==
    ASSUME NEW t \in DayTables, NEW rows, NEW latest \in LatestPerKey(rows)
    PROVE  DayUnique(SilverRows(t, latest))
  <1>1. SilverRows(t, latest) = {SilverRow(e, DayOf[e.key]) : e \in latest}
    BY DayTablesAreTables DEF SilverRows
  <1> QED
    BY <1>1, LatestIsUnique DEF DayUnique, SilverRow

LEMMA UniqueNext ==
    ASSUME TypeOK, UniqueInv, [Next]_vars
    PROVE  UniqueInv'
  <1> SUFFICES ASSUME NEW t \in DayTables
               PROVE  /\ DayUnique(silver'[t])
                      /\ \A d \in Drivers : pc'[d] = WriteStep[t] => DayUnique(held'[d])
    BY DEF UniqueInv
  <1>0. /\ t \in Tables /\ DOMAIN silver = Tables /\ DOMAIN held = Drivers
        /\ pc \in [Drivers -> Steps]
        /\ DayUnique(silver[t])
        /\ \A d \in Drivers : pc[d] = WriteStep[t] => DayUnique(held[d])
    BY DayTablesAreTables DEF TypeOK, BatchTypeOK, UniqueInv
  <1>1. CASE UNCHANGED <<raw, silver, held, pc>>
    BY <1>0, <1>1
  <1>2. ASSUME NEW d \in Drivers, OthersStay(d), NEW u \in Tables, ReadSilver(d, u)
        PROVE  /\ DayUnique(silver'[t])
               /\ \A e \in Drivers : pc'[e] = WriteStep[t] => DayUnique(held'[e])
    <2>1. pc'[d] = WriteStep[t] => DayUnique(held'[d])
      <3>1. SUFFICES ASSUME pc'[d] = WriteStep[t] PROVE DayUnique(held'[d])
        OBVIOUS
      <3>2. u = t
        BY <1>0, <1>2, <3>1, WriteSteps, StepNames DEF ReadSilver, Advance
      <3>3. PICK latest \in LatestPerKey(Upserts(raw[t])) : held'[d] = SilverRows(t, latest)
        BY <1>0, <1>2, <3>2 DEF ReadSilver
      <3> QED
        BY <3>3, SilverRowsUnique
    <2> QED
      BY <1>0, <1>2, <2>1 DEF OthersStay, ReadSilver
  <1>3. ASSUME NEW d \in Drivers, OthersStay(d), NotCommittingNext(d),
               NEW u \in Tables, WriteSilver(d, u)
        PROVE  /\ DayUnique(silver'[t])
               /\ \A e \in Drivers : pc'[e] = WriteStep[t] => DayUnique(held'[e])
    <2>1. silver'[t] = IF u = t THEN OverwritePartitions(silver[t], held[d]) ELSE silver[t]
      BY <1>0, <1>3 DEF WriteSilver
    <2>2. u = t => DayUnique(held[d])
      BY <1>0, <1>3 DEF WriteSilver
    <2>3. DayUnique(silver'[t])
      BY <1>0, <2>1, <2>2, OverwriteKeepsUnique
    <2> QED
      BY <1>0, <1>3, <2>3 DEF OthersStay, NotCommittingNext
  <1>4. ASSUME NEW d \in Drivers, OthersStay(d), NotCommittingNext(d), silver' = silver
        PROVE  /\ DayUnique(silver'[t])
               /\ \A e \in Drivers : pc'[e] = WriteStep[t] => DayUnique(held'[e])
    BY <1>0, <1>4 DEF OthersStay, NotCommittingNext
  <1> QED
    BY <1>1, <1>2, <1>3, <1>4, DriverSteps DEF Ingest

LEMMA UniqueAlways == Spec => []UniqueInv
  <1>1. Init => UniqueInv
    <2> SUFFICES ASSUME Init PROVE UniqueInv
      OBVIOUS
    <2>1. \A t \in Tables : silver[t] = {} /\ \A d \in Drivers : held[d] = {}
      BY DEF Init, BatchInit
    <2> QED
      BY <2>1, DayTablesAreTables DEF UniqueInv, DayUnique
  <1>2. TypeOK /\ UniqueInv /\ [Next]_vars => UniqueInv'
    BY UniqueNext
  <1> QED
    BY <1>1, <1>2, TypeCorrect, PTL DEF Spec

(***************************************************************************)
(* silver.orders and silver.customers never hold two rows of a key, for    *)
(* any number of drivers running and dying at any moment.                  *)
(***************************************************************************)
THEOREM UniqueCorrect == Spec => []OneRowPerKey
  <1>1. UniqueInv => OneRowPerKey
    BY DEF UniqueInv, DayUnique, OneRowPerKey
  <1> QED
    BY <1>1, UniqueAlways, PTL

----------------------------------------------------------------------------
(***************************************************************************)
(* One driver at a time (max_active_runs=1, no run-batch.sh beside it).    *)
(***************************************************************************)
SingleDriver == \A d, e \in Drivers : d = e

(* The Silver table t is at least as recent as each row version of Bronze. *)
Covers(t) ==
    \A e \in Upserts(raw[t]) : \E s \in silver[t] : s.key = e.key /\ e.ts <= s.ts

(* The steps of a batch at which it has committed table t. *)
AfterOrders == {"read_customers", "write_customers", "read_items", "write_items",
                "read_daily", "write_daily", "read_metrics", "write_metrics", "done"}
AfterWrite == [orders |-> AfterOrders,
               customers |-> AfterOrders \ {"read_customers", "write_customers"},
               order_items |-> {"read_daily", "write_daily", "read_metrics",
                                "write_metrics", "done"}]

HeldIsLatest(t, d) ==
    pc[d] = WriteStep[t] =>
        \E latest \in LatestPerKey(Upserts(raw[t])) : held[d] = SilverRows(t, latest)

FromBronze(t) ==
    \A r \in silver[t] : \E e \in Upserts(raw[t]) : e.key = r.key /\ e.ts = r.ts

BronzeInv ==
    \A t \in Tables :
        /\ FromBronze(t)
        /\ \A d \in Drivers : /\ HeldIsLatest(t, d)
                              /\ pc[d] \in AfterWrite[t] => Covers(t)

(* Once a batch has committed a table it ingests nothing before it ends. *)
LEMMA AfterWriteSteps ==
    /\ \A t \in Tables : \A s \in Steps :
          NextStep[s] \in AfterWrite[t] => s \in AfterWrite[t] \/ s = WriteStep[t]
    /\ \A t, u \in Tables : IngestStep[u] \notin AfterWrite[t]
    /\ \A t, u \in Tables : NextStep[IngestStep[u]] \notin AfterWrite[t]
    /\ \A t, u \in Tables : NextStep[ReadStep[u]] \in AfterWrite[t] => ReadStep[u] \in AfterWrite[t]
    /\ \A t \in Tables : "idle" \notin AfterWrite[t]
  BY DEF Steps, NextStep, Tables, IngestStep, WriteStep, ReadStep, AfterWrite, AfterOrders

(* The rows written for the latest images have each image's key and ts, and
   there is at least one for each image: the left join loses no item.      *)
LEMMA SilverRowsOfLatest ==
    ASSUME NEW t \in Tables, NEW latest
    PROVE  /\ \A s \in SilverRows(t, latest) : \E e \in latest : s.key = e.key /\ s.ts = e.ts
           /\ \A e \in latest : \E s \in SilverRows(t, latest) : s.key = e.key /\ s.ts = e.ts
  <1>1. CASE t = "order_items"
    <2> DEFINE Copies(e) ==
                 {SilverRow(e, <<day, BucketOf[e.img.order]>>) : day \in OrderDays(e)}
    <2>1. \A e \in latest : OrderDays(e) # {}
      BY DEF OrderDays
    <2>2. SilverRows(t, latest) = UNION {Copies(e) : e \in latest}
      BY <1>1 DEF SilverRows
    <2>3. ASSUME NEW e \in latest
          PROVE  \E s \in SilverRows(t, latest) : s.key = e.key /\ s.ts = e.ts
      <3>1. PICK day \in OrderDays(e) : TRUE
        BY <2>1
      <3>2. SilverRow(e, <<day, BucketOf[e.img.order]>>) \in Copies(e)
        OBVIOUS
      <3>3. Copies(e) \subseteq SilverRows(t, latest)
        <4> HIDE DEF Copies
        <4> QED
          BY <2>2
      <3> QED
        BY <3>2, <3>3 DEF SilverRow
    <2> QED
      BY <2>2, <2>3 DEF SilverRow
  <1>2. CASE t # "order_items"
    <2>1. SilverRows(t, latest) = {SilverRow(e, DayOf[e.key]) : e \in latest}
      BY <1>2 DEF SilverRows
    <2>2. \A e : /\ SilverRow(e, DayOf[e.key]).key = e.key
                 /\ SilverRow(e, DayOf[e.key]).ts = e.ts
      BY DEF SilverRow
    <2>3. \A e \in latest : SilverRow(e, DayOf[e.key]) \in SilverRows(t, latest)
      BY <2>1
    <2> QED
      BY <2>1, <2>2, <2>3
  <1> QED
    BY <1>1, <1>2

(* What a commit to Silver leaves behind. *)
LEMMA CommitSilver ==
    ASSUME TypeOK, BronzeInv, NEW d \in Drivers, NEW t \in Tables, WriteSilver(d, t)
    PROVE  /\ raw' = raw
           /\ Covers(t)'
           /\ \A r \in silver'[t] :
                \E e \in Upserts(raw[t]) : e.key = r.key /\ e.ts = r.ts
           /\ \A u \in Tables \ {t} : silver'[u] = silver[u]
  <1>1. /\ raw' = raw /\ pc[d] = WriteStep[t]
        /\ silver'[t] = OverwritePartitions(silver[t], held[d])
        /\ \A u \in Tables \ {t} : silver'[u] = silver[u]
    BY DEF TypeOK, BatchTypeOK, WriteSilver
  <1>2. PICK latest \in LatestPerKey(Upserts(raw[t])) : held[d] = SilverRows(t, latest)
    BY <1>1 DEF BronzeInv, HeldIsLatest
  <1>3. held[d] \subseteq silver'[t] /\ silver'[t] \subseteq silver[t] \cup held[d]
    BY <1>1 DEF OverwritePartitions
  <1>4. \A e \in Upserts(raw[t]) : \E s \in held[d] : s.key = e.key /\ e.ts <= s.ts
    BY <1>2, LatestIsUnique, SilverRowsOfLatest
  <1>5. \A s \in held[d] : \E e \in Upserts(raw[t]) : e.key = s.key /\ e.ts = s.ts
    BY <1>2, LatestIsUnique, SilverRowsOfLatest
  <1>6. FromBronze(t)
    BY DEF BronzeInv
  <1>7. Covers(t)'
    BY <1>1, <1>3, <1>4 DEF Covers, Upserts
  <1>8. \A r \in silver'[t] : \E e \in Upserts(raw[t]) : e.key = r.key /\ e.ts = r.ts
    BY <1>3, <1>5, <1>6 DEF FromBronze
  <1> QED
    BY <1>1, <1>7, <1>8

LEMMA SameInputs ==
    ASSUME raw' = raw, silver' = silver, NEW t \in Tables
    PROVE  /\ Upserts(raw[t])' = Upserts(raw[t])
           /\ \A latest : SilverRows(t, latest)' = SilverRows(t, latest)
  <1>1. ASSUME NEW latest
        PROVE  SilverRows(t, latest)' = SilverRows(t, latest)
    BY DEF SilverRows, OrderDays
  <1> QED
    BY <1>1 DEF Upserts

LEMMA BronzeNext ==
    ASSUME TypeOK, BronzeInv, SingleDriver, [Next]_vars
    PROVE  BronzeInv'
  <1> SUFFICES \A t \in Tables :
                  /\ FromBronze(t)'
                  /\ \A d \in Drivers : /\ HeldIsLatest(t, d)'
                                        /\ pc'[d] \in AfterWrite[t] => Covers(t)'
    BY DEF BronzeInv
  <1> TAKE t \in Tables
  <1>0. /\ DOMAIN raw = Tables /\ DOMAIN silver = Tables /\ DOMAIN held = Drivers
        /\ pc \in [Drivers -> Steps]
        /\ FromBronze(t)
        /\ \A d \in Drivers : HeldIsLatest(t, d) /\ (pc[d] \in AfterWrite[t] => Covers(t))
    BY DEF TypeOK, BatchTypeOK, BronzeInv
  <1>1. CASE UNCHANGED <<raw, silver, held, pc>>
    <2>1. ASSUME NEW d \in Drivers
          PROVE  HeldIsLatest(t, d)'
      BY <1>0, <1>1, SameInputs DEF HeldIsLatest
    <2> QED
      BY <1>0, <1>1, <2>1 DEF FromBronze, Covers, Upserts
  <1>2. ASSUME NEW d \in Drivers, OthersStay(d), NEW u \in Tables, ReadSilver(d, u)
        PROVE  /\ FromBronze(t)'
               /\ HeldIsLatest(t, d)'
               /\ pc'[d] \in AfterWrite[t] => Covers(t)'
    <2>1. raw' = raw /\ silver' = silver /\ pc'[d] = NextStep[ReadStep[u]]
          /\ pc[d] = ReadStep[u]
      BY <1>0, <1>2 DEF ReadSilver, Advance
    <2>2. ASSUME pc'[d] = WriteStep[t]
          PROVE  \E latest \in LatestPerKey(Upserts(raw[t])) : held'[d] = SilverRows(t, latest)
      <3>1. u = t
        BY <1>0, <2>1, <2>2, WriteSteps, StepNames
      <3> QED
        BY <1>0, <1>2, <3>1 DEF ReadSilver
    <2>3. HeldIsLatest(t, d)'
      BY <2>1, <2>2, SameInputs DEF HeldIsLatest
    <2> QED
      BY <1>0, <2>1, <2>3, AfterWriteSteps DEF FromBronze, Covers, Upserts
  <1>3. ASSUME NEW d \in Drivers, OthersStay(d), NotCommittingNext(d),
               NEW u \in Tables, WriteSilver(d, u)
        PROVE  /\ FromBronze(t)'
               /\ HeldIsLatest(t, d)'
               /\ pc'[d] \in AfterWrite[t] => Covers(t)'
    <2>1. /\ raw' = raw
          /\ Covers(u)'
          /\ \A r \in silver'[u] : \E e \in Upserts(raw[u]) : e.key = r.key /\ e.ts = r.ts
          /\ \A v \in Tables \ {u} : silver'[v] = silver[v]
      BY <1>3, CommitSilver
    <2>2. FromBronze(t)'
      BY <1>0, <2>1 DEF FromBronze, Upserts
    <2>3. HeldIsLatest(t, d)'
      BY <1>3 DEF HeldIsLatest, NotCommittingNext
    <2>4. ASSUME pc'[d] \in AfterWrite[t], t # u
          PROVE  Covers(t)'
      <3>1. pc[d] = WriteStep[u] /\ pc[d] \in Steps /\ pc'[d] = NextStep[pc[d]]
        BY <1>0, <1>3 DEF WriteSilver, Advance
      <3>2. pc[d] \in AfterWrite[t]
        BY <2>4, <3>1, AfterWriteSteps, WriteSteps
      <3> QED
        BY <1>0, <2>1, <2>4, <3>2 DEF Covers, Upserts
    <2> QED
      BY <2>1, <2>2, <2>3, <2>4
  <1>4. ASSUME NEW d \in Drivers, OthersStay(d), NotCommittingNext(d),
               NEW u \in Tables, Ingest(d, u)
        PROVE  /\ FromBronze(t)'
               /\ HeldIsLatest(t, d)'
               /\ pc'[d] \in AfterWrite[t] => Covers(t)'
    <2>1. raw[t] \subseteq raw'[t] /\ silver' = silver /\ pc'[d] = NextStep[IngestStep[u]]
      BY <1>0, <1>4 DEF Ingest, Advance
    <2>2. FromBronze(t)'
      BY <1>0, <2>1 DEF FromBronze, Upserts
    <2> QED
      BY <1>4, <2>1, <2>2, AfterWriteSteps DEF HeldIsLatest, NotCommittingNext
  <1>5. ASSUME NEW d \in Drivers, OthersStay(d), NotCommitting(d), NotCommittingNext(d),
               raw' = raw, silver' = silver
        PROVE  /\ FromBronze(t)'
               /\ HeldIsLatest(t, d)'
               /\ pc'[d] \in AfterWrite[t] => Covers(t)'
    <2>1. pc'[d] \in AfterWrite[t] => pc[d] \in AfterWrite[t]
      BY <1>0, <1>5, AfterWriteSteps DEF OthersStay, NotCommitting
    <2> QED
      BY <1>0, <1>5, <2>1 DEF FromBronze, HeldIsLatest, NotCommittingNext, Covers, Upserts
  <1> QED
    BY <1>1, <1>2, <1>3, <1>4, <1>5, DriverSteps DEF SingleDriver

LEMMA BronzeAlways ==
    ASSUME SingleDriver
    PROVE  Spec => []BronzeInv
  <1>1. Init => BronzeInv
    <2> SUFFICES ASSUME Init PROVE BronzeInv
      OBVIOUS
    <2>1. /\ \A t \in Tables : silver[t] = {}
          /\ \A d \in Drivers : pc[d] = "idle"
      BY DEF Init, BatchInit
    <2> QED
      BY <2>1, AfterWriteSteps, WriteSteps DEF BronzeInv, FromBronze, HeldIsLatest
  <1>2. TypeOK /\ BronzeInv /\ [Next]_vars => BronzeInv'
    BY BronzeNext
  <1> QED
    BY <1>1, <1>2, TypeCorrect, PTL DEF Spec

(***************************************************************************)
(* With one driver at a time, when a batch completes Silver is at least as *)
(* recent as Bronze, whatever the source does and wherever earlier batches *)
(* died.                                                                   *)
(***************************************************************************)
THEOREM CurrentCorrect ==
    ASSUME SingleDriver
    PROVE  Spec => []SilverCurrentAtBatchEnd
  <1>1. BronzeInv => SilverCurrentAtBatchEnd
    BY DEF BronzeInv, SilverCurrentAtBatchEnd, Covers, AfterWrite, AfterOrders, Tables
  <1> QED
    BY <1>1, BronzeAlways, PTL

(***************************************************************************)
(* With one driver at a time, no step loses a key of Silver or takes it    *)
(* back to an older version: the commit that replaces a row holds the      *)
(* latest version in Bronze, which is where the old row came from.         *)
(***************************************************************************)
THEOREM ForwardCorrect ==
    ASSUME SingleDriver
    PROVE  Spec => SilverOnlyMovesForward
  <1>1. TypeOK /\ BronzeInv /\ [Next]_vars =>
          \A t \in Tables : \A r \in silver[t] :
              \E s \in silver'[t] : s.key = r.key /\ r.ts <= s.ts
    <2> SUFFICES ASSUME TypeOK, BronzeInv, [Next]_vars,
                        NEW t \in Tables, NEW r \in silver[t]
                 PROVE  \E s \in silver'[t] : s.key = r.key /\ r.ts <= s.ts
      OBVIOUS
    <2>1. PICK e \in Upserts(raw[t]) : e.key = r.key /\ e.ts = r.ts
      BY DEF BronzeInv, FromBronze
    <2>2. r.ts \in Nat
      BY <2>1 DEF TypeOK, BatchTypeOK, Upserts, Event
    <2>3. ASSUME NEW d \in Drivers, NEW u \in Tables, WriteSilver(d, u)
          PROVE  \E s \in silver'[t] : s.key = r.key /\ r.ts <= s.ts
      <3>1. CASE u = t
        <4>1. \E s \in silver'[t] : s.key = e.key /\ e.ts <= s.ts
          BY <2>1, <2>3, <3>1, CommitSilver DEF Covers, Upserts
        <4> QED
          BY <2>1, <4>1
      <3>2. CASE u # t
        <4>1. silver'[t] = silver[t]
          BY <2>3, <3>2, CommitSilver
        <4> QED
          BY <2>2, <4>1
      <3> QED
        BY <3>1, <3>2
    <2>4. CASE silver' = silver
      BY <2>2, <2>4
    <2> QED
      BY <2>3, <2>4, DriverSteps DEF ReadSilver, Ingest
  <1> QED
    BY <1>1, TypeCorrect, BronzeAlways, PTL DEF Spec, SilverOnlyMovesForward

----------------------------------------------------------------------------
(***************************************************************************)
(* Refinement of LastWriteWinsView.                                        *)
(***************************************************************************)

(* The commit of a table partitioned by creation day replaces every row:
   Bronze still has each key, and a key's day never changes.               *)
LEMMA DayCommit ==
    ASSUME TypeOK, UniqueInv, BronzeInv,
           NEW d \in Drivers, NEW t \in DayTables, WriteSilver(d, t)
    PROVE  ViewOf(t)' \in LatestPerKey(Upserts(raw[t]))
  <1>1. /\ t \in Tables /\ t # "order_items" /\ pc[d] = WriteStep[t]
        /\ silver'[t] = OverwritePartitions(silver[t], held[d])
    BY DayTablesAreTables DEF TypeOK, BatchTypeOK, WriteSilver
  <1>2. PICK latest \in LatestPerKey(Upserts(raw[t])) : held[d] = SilverRows(t, latest)
    BY <1>1 DEF BronzeInv, HeldIsLatest
  <1>3. held[d] = {SilverRow(e, DayOf[e.key]) : e \in latest}
    BY <1>1, <1>2 DEF SilverRows
  <1>4. ASSUME NEW r \in silver[t]
        PROVE  \E n \in held[d] : n.part = r.part
    <2>1. PICK e \in Upserts(raw[t]) : e.key = r.key
      BY <1>1 DEF BronzeInv, FromBronze
    <2>2. PICK n \in held[d] : n.key = e.key
      BY <1>1, <1>2, <2>1, LatestIsUnique, SilverRowsOfLatest
    <2>3. n.part = DayOf[n.key] /\ r.part = DayOf[r.key]
      BY <1>1 DEF UniqueInv, DayUnique
    <2> QED
      BY <2>1, <2>2, <2>3
  <1>5. silver'[t] = held[d]
    BY <1>1, <1>4 DEF OverwritePartitions
  <1> DEFINE EventOf(r) == [key |-> r.key, op |-> r.op, img |-> r.img, lsn |-> r.lsn, ts |-> r.ts]
             RowOf(e) == SilverRow(e, DayOf[e.key])
  <1>6. ViewOf(t)' = {EventOf(r) : r \in held[d]}
    BY <1>5 DEF ViewOf
  <1>7. ASSUME NEW e \in latest
        PROVE  EventOf(RowOf(e)) = e
    <2>1. e \in Event(t)
      BY <1>1, <1>2, LatestIsUnique DEF TypeOK, BatchTypeOK, Upserts
    <2> QED
      BY <2>1 DEF Event, SilverRow
  <1>8. held[d] = {RowOf(e) : e \in latest}
    BY <1>3
  <1>9. ViewOf(t)' = latest
    <2> HIDE DEF EventOf, RowOf
    <2> QED
      BY <1>6, <1>7, <1>8
  <1> QED
    BY <1>2, <1>9

(* What a step may do to the Bronze and the Silver of a table. *)
LEMMA ViewSteps ==
    ASSUME TypeOK, UniqueInv, BronzeInv, [Next]_vars, NEW t \in DayTables
    PROVE  \/ Upserts(raw[t]) \subseteq Upserts(raw'[t]) /\ ViewOf(t)' = ViewOf(t)
           \/ /\ ViewOf(t)' \in LatestPerKey(Upserts(raw[t]))
              /\ raw'[t] = raw[t]
  <1>0. t \in Tables /\ DOMAIN raw = Tables /\ DOMAIN silver = Tables
    BY DayTablesAreTables DEF TypeOK, BatchTypeOK
  <1>1. ASSUME silver'[t] = silver[t], raw[t] \subseteq raw'[t]
        PROVE  Upserts(raw[t]) \subseteq Upserts(raw'[t]) /\ ViewOf(t)' = ViewOf(t)
    BY <1>1 DEF Upserts, ViewOf
  <1>2. ASSUME NEW d \in Drivers, NEW u \in Tables, Ingest(d, u)
        PROVE  silver'[t] = silver[t] /\ raw[t] \subseteq raw'[t]
    BY <1>0, <1>2 DEF Ingest
  <1>3. ASSUME NEW d \in Drivers, NEW u \in Tables, WriteSilver(d, u)
        PROVE  \/ silver'[t] = silver[t] /\ raw' = raw
               \/ ViewOf(t)' \in LatestPerKey(Upserts(raw[t])) /\ raw' = raw
    <2>1. CASE u = t
      BY <1>3, <2>1, DayCommit DEF WriteSilver
    <2>2. CASE u # t
      BY <1>0, <1>3, <2>2 DEF WriteSilver
    <2> QED
      BY <2>1, <2>2
  <1> QED
    BY <1>1, <1>2, <1>3, DriverSteps DEF ReadSilver

(***************************************************************************)
(* With one driver at a time, silver.orders and silver.customers are each  *)
(* a last-write-wins view of their Bronze table, replaced as a whole.      *)
(***************************************************************************)
THEOREM ViewCorrect ==
    ASSUME SingleDriver
    PROVE  Spec => SilverImplementsView
  <1>1. Init => OrdersView!Init /\ CustomersView!Init
    <2> SUFFICES ASSUME Init, NEW t \in DayTables
                 PROVE  Upserts(raw[t]) = {} /\ ViewOf(t) = {}
      BY DEF OrdersView!Init, CustomersView!Init, DayTables
    <2>1. raw[t] = {} /\ silver[t] = {}
      BY DayTablesAreTables DEF Init, BatchInit
    <2> QED
      BY <2>1 DEF Upserts, ViewOf
  <1>2. ASSUME TypeOK, UniqueInv, BronzeInv, [Next]_vars
        PROVE  OrdersView!Append \/ OrdersView!Refresh
    <2>1. CASE Upserts(raw["orders"]) \subseteq Upserts(raw'["orders"])
               /\ ViewOf("orders")' = ViewOf("orders")
      BY <2>1 DEF OrdersView!Append, Upserts
    <2>2. CASE ViewOf("orders")' \in LatestPerKey(Upserts(raw["orders"]))
               /\ raw'["orders"] = raw["orders"]
      BY <2>2 DEF OrdersView!Refresh, OrdersView!IsLatest, OrdersView!Newest,
                  LatestPerKey, NewestRows, Upserts
    <2> QED
      BY <1>2, <2>1, <2>2, ViewSteps DEF DayTables
  <1>3. ASSUME TypeOK, UniqueInv, BronzeInv, [Next]_vars
        PROVE  CustomersView!Append \/ CustomersView!Refresh
    <2>1. CASE Upserts(raw["customers"]) \subseteq Upserts(raw'["customers"])
               /\ ViewOf("customers")' = ViewOf("customers")
      BY <2>1 DEF CustomersView!Append, Upserts
    <2>2. CASE ViewOf("customers")' \in LatestPerKey(Upserts(raw["customers"]))
               /\ raw'["customers"] = raw["customers"]
      BY <2>2 DEF CustomersView!Refresh, CustomersView!IsLatest, CustomersView!Newest,
                  LatestPerKey, NewestRows, Upserts
    <2> QED
      BY <1>3, <2>1, <2>2, ViewSteps DEF DayTables
  <1>4. TypeOK /\ UniqueInv /\ BronzeInv /\ [Next]_vars =>
          OrdersView!Next /\ CustomersView!Next
    BY <1>2, <1>3 DEF OrdersView!Next, CustomersView!Next
  <1> QED
    BY <1>1, <1>4, TypeCorrect, UniqueAlways, BronzeAlways, PTL
       DEF Spec, SilverImplementsView, OrdersView!Spec, CustomersView!Spec

----------------------------------------------------------------------------
(***************************************************************************)
(* gold.daily_revenue.  Between the read of Silver and the end of a batch  *)
(* nothing writes Silver, so what was computed is still what Silver        *)
(* implies.  A commit that replaces only the months it has rows of still   *)
(* replaces every old row of a day it holds, because a stored row is in    *)
(* the month of its day.                                                   *)
(***************************************************************************)
DaysCurrent ==
    \A r \in DailyRevenue : {g \in gold["daily_revenue"] : g.key = r.key} = {r}

AfterDaily == {"read_metrics", "write_metrics", "done"}

DailyInv ==
    /\ \A g \in gold["daily_revenue"] : g.part = MonthOf[g.key]
    /\ \A d \in Drivers : /\ pc[d] = "write_daily" => held[d] = DailyRevenue
                          /\ pc[d] \in AfterDaily => DaysCurrent

(* One row for a day, in the month of that day. *)
LEMMA DailyRows ==
    /\ \A r \in DailyRevenue : r.part = MonthOf[r.key]
    /\ \A r, s \in DailyRevenue : r.key = s.key => r = s
  <1> DEFINE DayRow(day) ==
               LET orders == {o \in RevenueOrders : DayOf[o.key] = day}
               IN  [key |-> day, part |-> MonthOf[day],
                    orders |-> {o.key : o \in orders},
                    revenue |-> {OrderRevenue(o) : o \in orders},
                    new |-> NewCustomers(day)]
  <1>1. \A r \in DailyRevenue : r = DayRow(r.key)
    BY DEF DailyRevenue
  <1>2. \A day : DayRow(day).part = MonthOf[day]
    OBVIOUS
  <1> HIDE DEF DayRow
  <1> QED
    BY <1>1, <1>2

(* What Silver implies changes only with Silver. *)
LEMMA SameRevenue ==
    ASSUME silver' = silver
    PROVE  DailyRevenue' = DailyRevenue
  BY DEF DailyRevenue, RevenueOrders, OrderRevenue, NewCustomers, FirstDays

LEMMA DailyCommit ==
    ASSUME NEW d, NEW old, NEW r \in DailyRevenue,
           \A g \in old : g.part = MonthOf[g.key]
    PROVE  {g \in GoldCommit(d, old, DailyRevenue) : g.key = r.key} = {r}
  <1>1. \A g \in old : g.key = r.key => g.part = r.part
    BY DailyRows
  <1>2. GoldCommit(d, old, DailyRevenue) \subseteq old \cup DailyRevenue
    BY DEF GoldCommit, OverwritePartitions
  <1>3. \A g \in GoldCommit(d, old, DailyRevenue) : g.key = r.key => g \in DailyRevenue
    BY <1>1 DEF GoldCommit, OverwritePartitions
  <1>4. r \in GoldCommit(d, old, DailyRevenue)
    BY DEF GoldCommit, OverwritePartitions
  <1> QED
    BY <1>3, <1>4, DailyRows

(* A step does nothing to gold.daily_revenue, its inputs and the rows held
   for it, or it is one of the steps that do.                              *)
DailySteps(d) ==
    \/ ReadGold(d, "daily_revenue")
    \/ WriteGold(d, "daily_revenue")
    \/ pc'[d] \notin AfterDaily \cup {"write_daily"} /\ gold' = gold
    \/ /\ pc[d] \in AfterDaily /\ pc'[d] # "write_daily"
       /\ silver' = silver /\ gold'["daily_revenue"] = gold["daily_revenue"]

LEMMA DailyCases ==
    ASSUME TypeOK, [Next]_vars
    PROVE  \/ UNCHANGED <<silver, gold, held, pc>>
           \/ \E d \in Drivers : DailySteps(d)
  <1> USE DEF DailySteps, Advance
  <1>0. /\ pc \in [Drivers -> Steps] /\ DOMAIN held = Drivers
        /\ DOMAIN gold = GoldTables
    BY DEF TypeOK, BatchTypeOK
  <1>1. CASE UNCHANGED batchVars
    BY <1>1 DEF batchVars
  <1>2. ASSUME NEW d \in Drivers, BatchStep(d)
        PROVE  DailySteps(d)
    <2>1. CASE StartBatch(d)
      <3>1. pc'[d] = "ingest_orders" /\ gold' = gold
        BY <2>1, <1>0 DEF StartBatch, NextStep
      <3> QED
        BY <3>1 DEF AfterDaily
    <2>2. ASSUME NEW t \in Tables, Ingest(d, t) \/ ReadSilver(d, t) \/ WriteSilver(d, t)
          PROVE  DailySteps(d)
      <3>1. /\ pc'[d] = NextStep[pc[d]] /\ gold' = gold
            /\ pc[d] \in {IngestStep[t], ReadStep[t], WriteStep[t]}
        BY <2>2, <1>0 DEF Ingest, ReadSilver, WriteSilver
      <3>2. NextStep[pc[d]] \notin AfterDaily \cup {"write_daily"}
        BY <3>1 DEF NextStep, IngestStep, ReadStep, WriteStep, Tables, AfterDaily
      <3> QED
        BY <3>1, <3>2
    <2>3. ASSUME NEW g \in GoldTables, ReadGold(d, g)
          PROVE  DailySteps(d)
      <3>1. CASE g = "daily_revenue"
        BY <2>3, <3>1
      <3>2. CASE g # "daily_revenue"
        <4>1. /\ pc[d] = "read_metrics" /\ pc'[d] = "write_metrics"
              /\ silver' = silver /\ gold' = gold
          BY <2>3, <3>2, <1>0 DEF ReadGold, ReadStep, NextStep, GoldTables
        <4> QED
          BY <4>1 DEF AfterDaily
      <3> QED
        BY <3>1, <3>2
    <2>4. ASSUME NEW g \in GoldTables, WriteGold(d, g)
          PROVE  DailySteps(d)
      <3>1. CASE g = "daily_revenue"
        BY <2>4, <3>1
      <3>2. CASE g # "daily_revenue"
        <4>1. /\ pc[d] = "write_metrics" /\ pc'[d] = "done" /\ silver' = silver
              /\ gold'["daily_revenue"] = gold["daily_revenue"]
          BY <2>4, <3>2, <1>0 DEF WriteGold, WriteStep, NextStep, GoldTables
        <4> QED
          BY <4>1 DEF AfterDaily
      <3> QED
        BY <3>1, <3>2
    <2>5. CASE Finish(d)
      <3>1. pc'[d] = "idle" /\ gold' = gold
        BY <2>5, <1>0 DEF Finish, NextStep
      <3> QED
        BY <3>1 DEF AfterDaily
    <2> QED
      BY <1>2, <2>1, <2>2, <2>3, <2>4, <2>5 DEF BatchStep
  <1>3. ASSUME NEW d \in Drivers, Crash(d)
        PROVE  DailySteps(d)
    <2>1. pc'[d] = "idle" /\ gold' = gold
      BY <1>3, <1>0 DEF Crash
    <2> QED
      BY <2>1 DEF AfterDaily
  <1> QED
    BY <1>1, <1>2, <1>3 DEF Next, vars

LEMMA DailyNext ==
    ASSUME TypeOK, DailyInv, SingleDriver, [Next]_vars
    PROVE  DailyInv'
  <1>0. /\ \A g \in gold["daily_revenue"] : g.part = MonthOf[g.key]
        /\ \A d \in Drivers : /\ pc[d] = "write_daily" => held[d] = DailyRevenue
                              /\ pc[d] \in AfterDaily => DaysCurrent
        /\ "daily_revenue" \in DOMAIN gold /\ DOMAIN held = Drivers
        /\ pc \in [Drivers -> Steps]
    BY DEF DailyInv, TypeOK, BatchTypeOK, GoldTables
  <1>1. CASE UNCHANGED <<silver, gold, held, pc>>
    BY <1>0, <1>1, SameRevenue DEF DailyInv, DaysCurrent
  <1>2. ASSUME NEW d \in Drivers, ReadGold(d, "daily_revenue")
        PROVE  DailyInv'
    <2>1. /\ pc'[d] = "write_daily" /\ held'[d] = DailyRevenue
          /\ silver' = silver /\ gold' = gold
      BY <1>0, <1>2 DEF ReadGold, ReadStep, NextStep, Advance, GoldRows
    <2>2. DailyRevenue' = DailyRevenue
      BY <2>1, SameRevenue
    <2> QED
      BY <1>0, <2>1, <2>2 DEF DailyInv, AfterDaily, SingleDriver
  <1>3. ASSUME NEW d \in Drivers, WriteGold(d, "daily_revenue")
        PROVE  DailyInv'
    <2>1. /\ pc[d] = "write_daily" /\ pc'[d] = "read_metrics" /\ silver' = silver
          /\ gold'["daily_revenue"] = GoldCommit(d, gold["daily_revenue"], held[d])
      BY <1>0, <1>3 DEF WriteGold, WriteStep, NextStep, Advance
    <2>2. held[d] = DailyRevenue /\ DailyRevenue' = DailyRevenue
      BY <1>0, <2>1, SameRevenue
    <2>3. gold'["daily_revenue"] \subseteq gold["daily_revenue"] \cup DailyRevenue
      BY <2>1, <2>2 DEF GoldCommit, OverwritePartitions
    <2>4. \A g \in gold'["daily_revenue"] : g.part = MonthOf[g.key]
      BY <1>0, <2>3, DailyRows
    <2>5. \A r \in DailyRevenue : {g \in gold'["daily_revenue"] : g.key = r.key} = {r}
      BY <1>0, <2>1, <2>2, DailyCommit
    <2>6. DaysCurrent'
      BY <2>2, <2>5 DEF DaysCurrent
    <2> QED
      BY <2>1, <2>4, <2>6 DEF DailyInv, SingleDriver
  <1>4. ASSUME NEW d \in Drivers, gold' = gold,
               pc'[d] \notin AfterDaily \cup {"write_daily"}
        PROVE  DailyInv'
    BY <1>0, <1>4 DEF DailyInv, SingleDriver
  <1>5. ASSUME NEW d \in Drivers, pc[d] \in AfterDaily, pc'[d] # "write_daily",
               silver' = silver, gold'["daily_revenue"] = gold["daily_revenue"]
        PROVE  DailyInv'
    <2>1. DaysCurrent /\ DailyRevenue' = DailyRevenue
      BY <1>0, <1>5, SameRevenue
    <2>2. DaysCurrent'
      BY <1>5, <2>1 DEF DaysCurrent
    <2> QED
      BY <1>0, <1>5, <2>2 DEF DailyInv, SingleDriver
  <1> QED
    BY <1>1, <1>2, <1>3, <1>4, <1>5, DailyCases DEF DailySteps

(***************************************************************************)
(* With one driver at a time, when a batch completes gold.daily_revenue    *)
(* has exactly one row for each day on which Silver has revenue, the row   *)
(* Silver now implies, whether dbt or Spark built it and wherever earlier  *)
(* batches died.                                                           *)
(***************************************************************************)
THEOREM DaysCorrect ==
    ASSUME SingleDriver
    PROVE  Spec => []RevenueDaysAreCurrent
  <1>1. Init => DailyInv
    <2> SUFFICES ASSUME Init PROVE DailyInv
      OBVIOUS
    <2>1. gold["daily_revenue"] = {} /\ \A d \in Drivers : pc[d] = "idle"
      BY DEF Init, BatchInit, GoldTables
    <2> QED
      BY <2>1 DEF DailyInv, AfterDaily
  <1>2. TypeOK /\ DailyInv /\ [Next]_vars => DailyInv'
    BY DailyNext
  <1>3. DailyInv => RevenueDaysAreCurrent
    BY DEF DailyInv, RevenueDaysAreCurrent, DaysCurrent, AfterDaily
  <1> QED
    BY <1>1, <1>2, <1>3, TypeCorrect, PTL DEF Spec

----------------------------------------------------------------------------
(***************************************************************************)
(* The customers of the orders.  Bronze reads the orders topic and later   *)
(* the customers topic, which holds the customer of each streamed order;   *)
(* the Silver rows are images of Bronze, and Silver leaves out no key.     *)
(***************************************************************************)

(* The steps at which a batch has ingested the customers. *)
AfterCustomers == {"ingest_items", "read_orders", "write_orders"} \cup AfterOrders

InBronze(c) == \E f \in Upserts(raw["customers"]) : f.key = c
AgedOut(c) == \E f \in aged["customers"] : f.key = c

CoverInv ==
    /\ \A r \in silver["orders"] :
          \E e \in Upserts(raw["orders"]) : e.key = r.key /\ e.op = r.op /\ e.img = r.img
    /\ \A e \in Streamed(raw["orders"]) :
          InBronze(e.img.customer) \/ CustomerVisible(e.img.customer)
    /\ \A d \in Drivers : pc[d] \in AfterCustomers =>
          \A e \in Streamed(raw["orders"]) :
             InBronze(e.img.customer) \/ AgedOut(e.img.customer)

(* A batch that has ingested the customers ingests no order before it ends. *)
LEMMA AfterCustomersSteps ==
    /\ \A s \in Steps : NextStep[s] \in AfterCustomers =>
          s \in AfterCustomers \/ s = IngestStep["customers"]
    /\ NextStep[IngestStep["orders"]] \notin AfterCustomers
    /\ \A t \in Tables : /\ ReadStep[t] # IngestStep["customers"]
                         /\ WriteStep[t] # IngestStep["customers"]
                         /\ IngestStep[t] = IngestStep["customers"] => t = "customers"
    /\ \A g \in GoldTables : /\ ReadStep[g] # IngestStep["customers"]
                             /\ WriteStep[g] # IngestStep["customers"]
    /\ "idle" \notin AfterCustomers
    /\ IngestStep["customers"] \notin {"idle", "done"}
  BY DEF Steps, NextStep, Tables, GoldTables, IngestStep, ReadStep, WriteStep,
         AfterCustomers, AfterOrders

CoverSteps(d) ==
    \/ \E t \in Tables : Ingest(d, t)
    \/ /\ raw' = raw
       /\ pc'[d] \in AfterCustomers => pc[d] \in AfterCustomers
       /\ silver' = silver \/ \E t \in Tables : WriteSilver(d, t)

LEMMA CoverCases ==
    ASSUME TypeOK, [Next]_vars
    PROVE  \/ UNCHANGED <<raw, silver, pc>>
           \/ \E d \in Drivers : CoverSteps(d)
  <1> USE DEF CoverSteps, Advance
  <1>0. pc \in [Drivers -> Steps]
    BY DEF TypeOK, BatchTypeOK
  <1>1. CASE UNCHANGED batchVars
    BY <1>1 DEF batchVars
  <1>2. ASSUME NEW d \in Drivers, BatchStep(d)
        PROVE  CoverSteps(d)
    <2>1. CASE StartBatch(d)
      BY <2>1, <1>0, AfterCustomersSteps DEF StartBatch
    <2>2. ASSUME NEW t \in Tables, ReadSilver(d, t)
          PROVE  CoverSteps(d)
      BY <2>2, <1>0, AfterCustomersSteps DEF ReadSilver
    <2>3. ASSUME NEW t \in Tables, WriteSilver(d, t)
          PROVE  CoverSteps(d)
      BY <2>3, <1>0, AfterCustomersSteps DEF WriteSilver
    <2>4. ASSUME NEW g \in GoldTables, ReadGold(d, g) \/ WriteGold(d, g)
          PROVE  CoverSteps(d)
      BY <2>4, <1>0, AfterCustomersSteps DEF ReadGold, WriteGold
    <2>5. CASE Finish(d)
      BY <2>5, <1>0, AfterCustomersSteps DEF Finish
    <2> QED
      BY <1>2, <2>1, <2>2, <2>3, <2>4, <2>5 DEF BatchStep
  <1>3. ASSUME NEW d \in Drivers, Crash(d)
        PROVE  CoverSteps(d)
    BY <1>3, <1>0, AfterCustomersSteps DEF Crash
  <1> QED
    BY <1>1, <1>2, <1>3 DEF Next, vars

(* Bronze has the image of each row that a commit to silver.orders leaves. *)
OrdersFromBronze ==
    \A r \in silver["orders"] :
        \E e \in Upserts(raw["orders"]) : e.key = r.key /\ e.op = r.op /\ e.img = r.img

LEMMA OrdersFromBronzeCommit ==
    ASSUME TypeOK, BronzeInv, OrdersFromBronze,
           NEW d \in Drivers, NEW t \in Tables, WriteSilver(d, t)
    PROVE  OrdersFromBronze'
  <1>1. raw' = raw /\ DOMAIN silver = Tables /\ pc[d] = WriteStep[t]
    BY DEF TypeOK, BatchTypeOK, WriteSilver
  <1>2. CASE t = "orders"
    <2>1. PICK latest \in LatestPerKey(Upserts(raw["orders"])) :
            held[d] = SilverRows("orders", latest)
      BY <1>1, <1>2 DEF BronzeInv, HeldIsLatest
    <2>2. held[d] = {SilverRow(e, DayOf[e.key]) : e \in latest}
      BY <2>1 DEF SilverRows
    <2>3. \A e : LET r == SilverRow(e, DayOf[e.key])
                IN  r.key = e.key /\ r.op = e.op /\ r.img = e.img
      BY DEF SilverRow
    <2>4. \A r \in held[d] : \E e \in Upserts(raw["orders"]) :
            e.key = r.key /\ e.op = r.op /\ e.img = r.img
      BY <2>1, <2>2, <2>3, LatestIsUnique
    <2>5. silver'["orders"] \subseteq silver["orders"] \cup held[d]
      BY <1>1, <1>2 DEF WriteSilver, OverwritePartitions
    <2> QED
      BY <1>1, <2>4, <2>5 DEF OrdersFromBronze, Upserts
  <1>3. CASE t # "orders"
    <2>1. silver'["orders"] = silver["orders"]
      BY <1>1, <1>3, TablesFacts DEF WriteSilver
    <2> QED
      BY <1>1, <2>1 DEF OrdersFromBronze, Upserts
  <1> QED
    BY <1>2, <1>3

LEMMA CoverNext ==
    ASSUME TypeOK, ReferenceInv, BronzeInv, CoverInv, SingleDriver, [Next]_vars
    PROVE  CoverInv'
  <1> DEFINE Covered(k) == InBronze(k) \/ CustomerVisible(k)
             Accounted(k) == InBronze(k) \/ AgedOut(k)
  <1>0. /\ OrdersFromBronze
        /\ \A e \in Streamed(raw["orders"]) : Covered(e.img.customer)
        /\ \A d \in Drivers : pc[d] \in AfterCustomers =>
              \A e \in Streamed(raw["orders"]) : Accounted(e.img.customer)
        /\ DOMAIN raw = Tables /\ pc \in [Drivers -> Steps]
    BY DEF CoverInv, OrdersFromBronze, TypeOK, BatchTypeOK
  <1>1. \A k : /\ CustomerVisible(k) => CustomerVisible(k)'
               /\ AgedOut(k) => AgedOut(k)'
    BY VisibleStays, AgedStays, SourceSteps DEF TypeOK, AgedOut
  <1>2. SUFFICES /\ OrdersFromBronze'
                 /\ \A e \in Streamed(raw["orders"])' : Covered(e.img.customer)'
                 /\ \A d \in Drivers : pc'[d] \in AfterCustomers =>
                       \A e \in Streamed(raw["orders"])' : Accounted(e.img.customer)'
    BY DEF CoverInv, OrdersFromBronze
  <1>3. ASSUME raw' = raw
        PROVE  /\ \A e \in Streamed(raw["orders"])' : Covered(e.img.customer)'
               /\ \A k : InBronze(k) => InBronze(k)'
               /\ \A k : Accounted(k) => Accounted(k)'
               /\ Streamed(raw["orders"])' = Streamed(raw["orders"])
    BY <1>0, <1>1, <1>3 DEF Streamed, Upserts, InBronze
  <1>4. CASE UNCHANGED <<raw, silver, pc>>
    <2>1. OrdersFromBronze'
      BY <1>0, <1>4 DEF OrdersFromBronze, Upserts
    <2> QED
      BY <1>0, <1>3, <1>4, <2>1
  <1>5. ASSUME NEW d \in Drivers, NEW t \in Tables, Ingest(d, t)
        PROVE  /\ OrdersFromBronze'
               /\ \A e \in Streamed(raw["orders"])' : Covered(e.img.customer)'
               /\ pc'[d] \in AfterCustomers =>
                       \A e \in Streamed(raw["orders"])' : Accounted(e.img.customer)'
    <2>1. /\ raw' = [raw EXCEPT ![t] = @ \cup ParsedEvents(t)]
          /\ silver' = silver /\ topic' = topic
          /\ pc[d] = IngestStep[t] /\ pc'[d] = NextStep[IngestStep[t]]
      BY <1>0, <1>5 DEF Ingest, Advance, sourceVars
    <2>2. \A u \in Tables : raw[u] \subseteq raw'[u]
      BY <1>0, <2>1
    <2>3. OrdersFromBronze'
      BY <1>0, <2>1, <2>2, TablesFacts DEF OrdersFromBronze, Upserts
    <2>4. \A k : InBronze(k) => InBronze(k)'
      BY <2>2, TablesFacts DEF Upserts, InBronze
    <2>5. \A e \in Streamed(raw["orders"])' :
             e \in Streamed(raw["orders"]) \/ (t = "orders" /\ e \in Streamed(topic["orders"]))
      BY <1>0, <2>1, TablesFacts DEF Streamed, ParsedEvents
    <2>6. \A e \in Streamed(raw["orders"])' : Covered(e.img.customer)'
      BY <1>0, <1>1, <2>4, <2>5 DEF ReferenceInv
    <2>7. ASSUME t = "customers", NEW k, CustomerVisible(k)
          PROVE  Accounted(k)'
      <3>1. CASE AgedOut(k)
        BY <1>1, <3>1
      <3>2. ASSUME NEW f \in topic["customers"], f.key = k
            PROVE  InBronze(k)'
        <4>1. f.op \in UpsertOps
          BY DEF ReferenceInv, CustomersStay
        <4>2. f \in raw'["customers"]
          BY <1>0, <2>1, <2>7, <4>1, TablesFacts DEF ParsedEvents, UpsertOps
        <4> QED
          BY <3>2, <4>1, <4>2 DEF Upserts, InBronze
      <3> QED
        BY <2>7, <3>1, <3>2 DEF CustomerVisible, AgedOut
    <2>8. ASSUME pc'[d] \in AfterCustomers, NEW e \in Streamed(raw["orders"])'
          PROVE  Accounted(e.img.customer)'
      <3>1. t # "orders" /\ e \in Streamed(raw["orders"])
        BY <2>1, <2>5, <2>8, AfterCustomersSteps
      <3>2. pc[d] \in AfterCustomers \/ t = "customers"
        BY <1>0, <2>1, <2>8, AfterCustomersSteps
      <3> QED
        BY <1>0, <1>1, <2>4, <2>7, <3>1, <3>2
    <2> QED
      BY <2>3, <2>6, <2>8
  <1>6. ASSUME NEW d \in Drivers, raw' = raw,
               pc'[d] \in AfterCustomers => pc[d] \in AfterCustomers,
               silver' = silver \/ \E t \in Tables : WriteSilver(d, t)
        PROVE  /\ OrdersFromBronze'
               /\ pc'[d] \in AfterCustomers =>
                       \A e \in Streamed(raw["orders"])' : Accounted(e.img.customer)'
    <2>1. CASE silver' = silver
      BY <1>0, <1>3, <1>6, <2>1 DEF OrdersFromBronze, Upserts
    <2>2. CASE \E t \in Tables : WriteSilver(d, t)
      BY <1>0, <1>3, <1>6, <2>2, OrdersFromBronzeCommit
    <2> QED
      BY <1>6, <2>1, <2>2
  <1> QED
    BY <1>3, <1>4, <1>5, <1>6, CoverCases DEF CoverSteps, SingleDriver

LEMMA CoverAlways ==
    ASSUME SingleDriver, OrderedPublish
    PROVE  Spec => [](ReferenceInv /\ CoverInv)
  <1>1. Init => ReferenceInv /\ CoverInv
    <2> SUFFICES ASSUME Init PROVE ReferenceInv /\ CoverInv
      OBVIOUS
    <2>1. /\ raw["orders"] = {} /\ silver["orders"] = {}
          /\ \A d \in Drivers : pc[d] = "idle"
      BY TablesFacts DEF Init, BatchInit
    <2> QED
      BY <2>1, ReferenceInit, AfterCustomersSteps DEF Init, CoverInv, Streamed
  <1>2. TypeOK /\ ReferenceInv /\ [Next]_vars => ReferenceInv'
    BY ReferenceNext, SourceSteps DEF TypeOK
  <1>3. TypeOK /\ BronzeInv /\ ReferenceInv /\ CoverInv /\ [Next]_vars => CoverInv'
    BY CoverNext
  <1> QED
    BY <1>1, <1>2, <1>3, TypeCorrect, BronzeAlways, PTL DEF Spec

AgedCustomersStay == \A f \in aged["customers"] : f.op \in UpsertOps

(***************************************************************************)
(* With one driver at a time, and a connector that publishes in the order  *)
(* of the log, when a batch completes the customer of every streamed order *)
(* of Silver is in silver.customers or aged out of its topic unread,       *)
(* across restarts of the connector, compaction and retention, deletes and *)
(* batches that died.                                                      *)
(***************************************************************************)
THEOREM CustomersCovered ==
    ASSUME SingleDriver, OrderedPublish
    PROVE  Spec => []CustomersCoverOrders
  <1>1. TypeOK /\ BronzeInv /\ CoverInv /\ AgedCustomersStay => CustomersCoverOrders
    <2> SUFFICES ASSUME BronzeInv, CoverInv, AgedCustomersStay,
                        NEW d \in Drivers, pc[d] = "done",
                        NEW o \in silver["orders"], o.op # "r"
                 PROVE  \E c \in silver["customers"] \cup Unread("customers") :
                           c.key = o.img.customer
      BY DEF CustomersCoverOrders
    <2>1. PICK e \in Upserts(raw["orders"]) : e.op = o.op /\ e.img = o.img
      BY DEF CoverInv
    <2>2. e \in Streamed(raw["orders"])
      BY <2>1 DEF Upserts, UpsertOps, Streamed
    <2>3. InBronze(o.img.customer) \/ AgedOut(o.img.customer)
      BY <2>1, <2>2 DEF CoverInv, AfterCustomers, AfterOrders
    <2>4. CASE InBronze(o.img.customer)
      <3>1. Covers("customers")
        BY TablesFacts DEF BronzeInv, AfterWrite, AfterOrders
      <3> QED
        BY <2>4, <3>1 DEF Covers, InBronze
    <2>5. CASE AgedOut(o.img.customer) /\ ~InBronze(o.img.customer)
      <3>1. PICK f \in aged["customers"] : f.key = o.img.customer
        BY <2>5 DEF AgedOut
      <3>2. f \in Upserts(aged["customers"])
        BY DEF AgedCustomersStay, Upserts
      <3>3. f \notin raw["customers"]
        BY <2>5, <3>1, <3>2 DEF InBronze, Upserts
      <3> QED
        BY <3>1, <3>2, <3>3 DEF Unread
    <2> QED
      BY <2>3, <2>4, <2>5
  <1>2. ReferenceInv => AgedCustomersStay
    BY DEF ReferenceInv, CustomersStay, AgedCustomersStay
  <1> QED
    BY <1>1, <1>2, TypeCorrect, BronzeAlways, CoverAlways, PTL
=============================================================================
