------------------------------ MODULE Medallion ------------------------------
(***************************************************************************)
(* The batch pipeline: Bronze ingest, Silver transform and Gold aggregate  *)
(* over Iceberg tables, run by one or several drivers (the Airflow DAG,    *)
(* which builds Gold with dbt, and the Kubernetes Job of run-batch.sh,     *)
(* which builds it with Spark) while the source keeps changing.            *)
(*                                                                         *)
(* A write to a table is one atomic Iceberg commit.  A Spark or Trino      *)
(* write first reads its inputs (read_x) and commits later (write_x); a    *)
(* driver may die between any two steps and starts again from Bronze.      *)
(* COUNT and SUM are represented by the set of rows they range over.       *)
(***************************************************************************)
EXTENDS CdcSource

CONSTANTS
    Drivers,        \* who runs the batch
    DbtDrivers,     \* the drivers that build Gold with dbt
    Days, NoDay,    \* days of created_at (numbered); the NULL partition value
    DayOf,          \* [Orders \cup Customers -> Days]: created_at, never updated
    MonthOf,        \* months(report_date)
    BucketOf,       \* bucket(16, order_id) and bucket(32, customer_id)
    MaxCrashes      \* bound: batches that die half way

ASSUME BatchAssumption ==
    /\ DbtDrivers \subseteq Drivers
    /\ DayOf \in [Orders \cup Customers -> Days]
    /\ Days \subseteq Nat /\ NoDay \notin Days
    /\ DOMAIN MonthOf = Days
    /\ DOMAIN BucketOf = Orders \cup Customers
    /\ MaxCrashes \in Nat

VARIABLES
    raw,       \* [t \in Tables -> SUBSET Event(t)]: the distinct rows of Bronze
    silver,    \* [Tables -> set of rows]
    gold,      \* [daily_revenue, customer_metrics -> set of rows]
    pc,        \* [Drivers -> step]
    held,      \* [Drivers -> rows read and not yet committed]
    crashes

batchVars == <<raw, silver, gold, pc, held, crashes>>
vars == <<sourceVars, batchVars>>

(***************************************************************************)
(* The steps of a batch, in order: TOPICS of 01_bronze_ingest, then main   *)
(* of 02_silver_transform, then the Gold tables.                           *)
(***************************************************************************)
NextStep == [idle |-> "ingest_orders",
             ingest_orders |-> "ingest_customers",
             ingest_customers |-> "ingest_items",
             ingest_items |-> "read_orders",
             read_orders |-> "write_orders",
             write_orders |-> "read_customers",
             read_customers |-> "write_customers",
             write_customers |-> "read_items",
             read_items |-> "write_items",
             write_items |-> "read_daily",
             read_daily |-> "write_daily",
             write_daily |-> "read_metrics",
             read_metrics |-> "write_metrics",
             write_metrics |-> "done",
             done |-> "idle"]
Steps == DOMAIN NextStep

(* Mutation of IngestStep: the customers topic is read before the orders. *)
CustomersBeforeOrders == [orders |-> "ingest_customers", customers |-> "ingest_orders",
                          order_items |-> "ingest_items"]

IngestStep == [orders |-> "ingest_orders", customers |-> "ingest_customers",
               order_items |-> "ingest_items"]
ReadStep == [orders |-> "read_orders", customers |-> "read_customers",
             order_items |-> "read_items",
             daily_revenue |-> "read_daily", customer_metrics |-> "read_metrics"]
WriteStep == [orders |-> "write_orders", customers |-> "write_customers",
              order_items |-> "write_items",
              daily_revenue |-> "write_daily", customer_metrics |-> "write_metrics"]
GoldTables == {"daily_revenue", "customer_metrics"}
DayTables == {"orders", "customers"}   \* Silver tables partitioned by days(created_at)

Advance(d) == pc' = [pc EXCEPT ![d] = NextStep[@]]

----------------------------------------------------------------------------
(* Helpers of lakehouse_common.py and of the table format. *)

(* Mutations of OverwritePartitions: append(); overwrite only what is missing. *)
AppendRows(old, new) == old \cup new
FillMissingPartitions(old, new) ==
    old \cup {n \in new : \A r \in old : n.part # r.part}

(* overwritePartitions: replace the partitions that occur in the new rows. *)
OverwritePartitions(old, new) ==
    {r \in old : \A n \in new : n.part # r.part} \cup new

(* Mutation of ParsedEvents: every table is fed from the orders topic. *)
ParsedOrders(t) == {e \in topic["orders"] : e.op # "tombstone"}

(* parse_debezium_envelope drops tombstones and empty values. *)
ParsedEvents(t) == {e \in topic[t] : e.op # "tombstone"}

Upserts(events) == {e \in events : e.op \in UpsertOps}

(* Mutations of NewestRows: no ORDER BY in the window; ascending order. *)
AnyRows(rows) == rows
OldestRows(rows) ==
    {r \in rows : \A q \in rows : q.key = r.key => q.ts >= r.ts}

(***************************************************************************)
(* latest_per_key: row_number() = 1 by ts_ms, descending.  Rows of a key   *)
(* that share the highest ts_ms come in no particular order, so there is   *)
(* one possible result per way of breaking the ties.                       *)
(***************************************************************************)
NewestRows(rows) ==
    {r \in rows : \A q \in rows : q.key = r.key => q.ts <= r.ts}

LatestPerKey(rows) ==
    {S \in SUBSET NewestRows(rows) :
        \A r \in rows : \E s \in S : s.key = r.key /\ \A q \in S : q.key = r.key => q = s}

SilverRow(e, part) ==
    [key |-> e.key, op |-> e.op, img |-> e.img, lsn |-> e.lsn, ts |-> e.ts, part |-> part]

(* The left join of silver_order_items with silver.orders: an item gets a
   copy for each matching order, or the NULL day when there is none.      *)
OrderDays(i) ==
    LET matches == {r \in silver["orders"] : r.key = i.img.order}
    IN  IF matches = {} THEN {NoDay} ELSE {DayOf[r.key] : r \in matches}

(* The rows silver_<t> writes for the latest image of each key. *)
SilverRows(t, latest) ==
    IF t = "order_items"
    THEN UNION {{SilverRow(e, <<day, BucketOf[e.img.order]>>) : day \in OrderDays(e)}
                    : e \in latest}
    ELSE {SilverRow(e, DayOf[e.key]) : e \in latest}

----------------------------------------------------------------------------
(* Gold. *)

RevenueStatuses == {"confirmed", "shipped", "delivered", "completed"}
RevenueOrders ==
    {r \in silver["orders"] : r.op \in UpsertOps /\ r.img.status \in RevenueStatuses}

(* What an order contributes to gross_revenue: its Silver lines, or its
   total_amount when it has none.                                         *)
OrderRevenue(o) ==
    LET lines == {i \in silver["order_items"] : i.img.order = o.key}
    IN  IF lines = {} THEN [lines |-> {}, total |-> o.img.total]
                      ELSE [lines |-> lines, total |-> NoLines]

FirstDays(c) == {DayOf[o.key] : o \in {r \in RevenueOrders : r.img.customer = c}}

(* Customers whose first revenue order falls on the day. *)
NewCustomers(day) ==
    {c \in Customers : day \in FirstDays(c) /\ \A x \in FirstDays(c) : day <= x}

DailyRevenue ==
    {LET orders == {o \in RevenueOrders : DayOf[o.key] = day}
     IN  [key |-> day, part |-> MonthOf[day],
          orders |-> {o.key : o \in orders},
          revenue |-> {OrderRevenue(o) : o \in orders},
          new |-> NewCustomers(day)]
        : day \in {DayOf[o.key] : o \in RevenueOrders}}

CustomerMetrics ==
    {LET orders == {o \in RevenueOrders : o.img.customer = c.key}
     IN  [key |-> c.key, part |-> BucketOf[c.key],
          orders |-> {o.key : o \in orders},
          revenue |-> {[lines |-> {}, total |-> o.img.total] : o \in orders}]
        : c \in {r \in silver["customers"] : r.op \in UpsertOps}}

GoldRows == [daily_revenue |-> DailyRevenue, customer_metrics |-> CustomerMetrics]

----------------------------------------------------------------------------
BatchInit ==
    /\ raw = [t \in Tables |-> {}]
    /\ silver = [t \in Tables |-> {}]
    /\ gold = [g \in GoldTables |-> {}]
    /\ pc = [d \in Drivers |-> "idle"]
    /\ held = [d \in Drivers |-> {}]
    /\ crashes = 0

Init == SourceInit /\ BatchInit

(* The schedule fires, or somebody runs the script. *)
StartBatch(d) ==
    /\ pc[d] = "idle"
    /\ Advance(d)
    /\ UNCHANGED <<sourceVars, raw, silver, gold, held, crashes>>

(***************************************************************************)
(* ingest_topic: append the whole topic, earliest to latest, to Bronze;    *)
(* an empty topic appends nothing.                                         *)
(***************************************************************************)
Ingest(d, t) ==
    /\ pc[d] = IngestStep[t]
    /\ Advance(d)
    /\ raw' = [raw EXCEPT ![t] = @ \cup ParsedEvents(t)]
    /\ UNCHANGED <<sourceVars, silver, gold, held, crashes>>

(* silver_<t>: read Bronze, keep the latest upsert of each key ... *)
ReadSilver(d, t) ==
    /\ pc[d] = ReadStep[t]
    /\ Advance(d)
    /\ \E latest \in LatestPerKey(Upserts(raw[t])) :
          held' = [held EXCEPT ![d] = SilverRows(t, latest)]
    /\ UNCHANGED <<sourceVars, raw, silver, gold, crashes>>

(* ... and overwrite the partitions these rows fall in. *)
WriteSilver(d, t) ==
    /\ pc[d] = WriteStep[t]
    /\ Advance(d)
    /\ silver' = [silver EXCEPT ![t] = OverwritePartitions(@, held[d])]
    /\ held' = [held EXCEPT ![d] = {}]
    /\ UNCHANGED <<sourceVars, raw, gold, crashes>>

ReadGold(d, g) ==
    /\ pc[d] = ReadStep[g]
    /\ Advance(d)
    /\ held' = [held EXCEPT ![d] = GoldRows[g]]
    /\ UNCHANGED <<sourceVars, raw, silver, gold, crashes>>

(* Spark overwrites partitions; dbt (materialized: table) replaces the table. *)
GoldCommit(d, old, new) ==
    IF d \in DbtDrivers THEN new ELSE OverwritePartitions(old, new)

WriteGold(d, g) ==
    /\ pc[d] = WriteStep[g]
    /\ Advance(d)
    /\ gold' = [gold EXCEPT ![g] = GoldCommit(d, @, held[d])]
    /\ held' = [held EXCEPT ![d] = {}]
    /\ UNCHANGED <<sourceVars, raw, silver, crashes>>

Finish(d) ==
    /\ pc[d] = "done"
    /\ Advance(d)
    /\ UNCHANGED <<sourceVars, raw, silver, gold, held, crashes>>

(* The pod dies: nothing is rolled back and nothing is retried (backoffLimit
   0); the next batch starts from the top.                                 *)
Crash(d) ==
    /\ pc[d] \notin {"idle", "done"}
    /\ crashes < MaxCrashes
    /\ crashes' = crashes + 1
    /\ pc' = [pc EXCEPT ![d] = "idle"]
    /\ held' = [held EXCEPT ![d] = {}]
    /\ UNCHANGED <<sourceVars, raw, silver, gold>>

BatchStep(d) ==
    \/ StartBatch(d)
    \/ \E t \in Tables : Ingest(d, t) \/ ReadSilver(d, t) \/ WriteSilver(d, t)
    \/ \E g \in GoldTables : ReadGold(d, g) \/ WriteGold(d, g)
    \/ Finish(d)

Next ==
    \/ SourceNext /\ UNCHANGED batchVars
    \/ \E d \in Drivers : BatchStep(d) \/ Crash(d)

(***************************************************************************)
(* The connector keeps publishing what is in the log, and every driver is  *)
(* scheduled again and again (@daily) and its steps end.  The source and   *)
(* the crashes are not fair: they may stop at any time.                    *)
(***************************************************************************)
Fairness ==
    /\ \A t \in Tables : WF_vars(Publish(t) /\ UNCHANGED batchVars)
    /\ \A d \in Drivers : WF_vars(BatchStep(d))

Spec == Init /\ [][Next]_vars /\ Fairness

----------------------------------------------------------------------------
(* Properties. *)

BatchTypeOK ==
    /\ DOMAIN raw = Tables /\ DOMAIN silver = Tables
    /\ DOMAIN gold = GoldTables /\ DOMAIN held = Drivers
    /\ \A t \in Tables : raw[t] \subseteq Event(t)
    /\ pc \in [Drivers -> Steps]
    /\ crashes \in Nat

(* Source, Bronze and program counters hold what the code may put in them;
   of Silver and Gold only the tables are fixed here, their rows are what
   the properties below are about.                                        *)
TypeOK == SourceTypeOK /\ BatchTypeOK

(***************************************************************************)
(* silver.orders and silver.customers hold one row per primary key, though *)
(* they are rewritten one partition at a time and batches die between two  *)
(* commits (silver_orders, silver_customers; the unique-key expectations   *)
(* of quality/great-expectations).                                         *)
(***************************************************************************)
OneRowPerKey ==
    \A t \in DayTables :
        \A r, s \in silver[t] : r.key = s.key => r = s

(***************************************************************************)
(* A commit to Silver never loses a key and never goes back to an older    *)
(* version of it: last-write-wins on ts_ms, across batches and crashes.    *)
(***************************************************************************)
SilverOnlyMovesForward ==
    [][\A t \in Tables : \A r \in silver[t] :
          \E s \in silver'[t] : s.key = r.key /\ r.ts <= s.ts]_vars

(***************************************************************************)
(* When a batch completes, Silver is at least as recent as every row       *)
(* version in Bronze, for all three tables.                                *)
(***************************************************************************)
SilverCurrentAtBatchEnd ==
    \A d \in Drivers : pc[d] = "done" =>
        \A t \in Tables : \A e \in Upserts(raw[t]) :
            \E s \in silver[t] : s.key = e.key /\ e.ts <= s.ts

(* The records that retention removed before Bronze had read them. *)
Unread(t) == Upserts(aged[t]) \ raw[t]

(***************************************************************************)
(* When a batch completes, the customer of every Silver order that was     *)
(* streamed is in silver.customers: Bronze reads the orders topic before   *)
(* the customers topic, so it cannot meet an order and miss its customer,  *)
(* unless a record of the customer aged out of its topic unread.           *)
(* (An order that comes from a snapshot is published with no regard to     *)
(* customers, and may be one batch ahead of its customer.)                 *)
(***************************************************************************)
CustomersCoverOrders ==
    \A d \in Drivers : pc[d] = "done" =>
        \A o \in {r \in silver["orders"] : r.op # "r"} :
            \E c \in silver["customers"] \cup Unread("customers") : c.key = o.img.customer

(***************************************************************************)
(* When a batch completes, gold.daily_revenue has exactly one row for each *)
(* day on which Silver has revenue, and it is what Silver now implies.     *)
(***************************************************************************)
RevenueDaysAreCurrent ==
    \A d \in Drivers : pc[d] = "done" =>
        \A r \in DailyRevenue :
            {g \in gold["daily_revenue"] : g.key = r.key} = {r}

(* The orders whose newest published version aged out of its topic unread. *)
LostOrders ==
    {o \in Orders : \E f \in Unread("orders") :
        f.key = o /\ \A e \in topic["orders"] \cup raw["orders"] :
                       e.key = o => e.lsn < f.lsn}

(***************************************************************************)
(* Once the source is quiet, silver.orders comes to hold, and keeps, the   *)
(* row of every order of the database, whatever crashes, restarts of the   *)
(* connector, removals from the topics and concurrent batches happened     *)
(* before; only an order whose last version aged out unread may be behind. *)
(***************************************************************************)
SilverConvergesToSource ==
    <>[](\A o \in Orders \ LostOrders : Exists("orders", o) =>
            \E s \in silver["orders"] : s.key = o /\ s.img = db["orders"][o])

(***************************************************************************)
(* Once the source is quiet, gold.daily_revenue comes to count, and keeps  *)
(* counting, exactly the revenue orders of the database, day by day, those *)
(* aside whose last version aged out unread.                               *)
(***************************************************************************)
GoldConvergesToSource ==
    <>[](\A day \in Days :
            UNION {g.orders : g \in {x \in gold["daily_revenue"] : x.key = day}} \ LostOrders
                = {o \in Orders \ LostOrders :
                      /\ DayOf[o] = day /\ Exists("orders", o)
                      /\ db["orders"][o].status \in RevenueStatuses})

(***************************************************************************)
(* silver.orders seen as a set of CDC rows: the view of LastWriteWinsView. *)
(***************************************************************************)
ViewOf(t) ==
    {[key |-> r.key, op |-> r.op, img |-> r.img, lsn |-> r.lsn, ts |-> r.ts]
        : r \in silver[t]}

OrdersView == INSTANCE LastWriteWinsView
                  WITH history <- Upserts(raw["orders"]), view <- ViewOf("orders")
CustomersView == INSTANCE LastWriteWinsView
                  WITH history <- Upserts(raw["customers"]), view <- ViewOf("customers")

(***************************************************************************)
(* Refinement: although it is written one day partition at a time, each of *)
(* the two Silver tables behaves as a last-write-wins view of its Bronze   *)
(* table that a batch replaces as a whole.                                 *)
(***************************************************************************)
SilverImplementsView == OrdersView!Spec /\ CustomersView!Spec

----------------------------------------------------------------------------
(* What the documentation says and the code does not do. *)

(***************************************************************************)
(* docs/architecture.md: "Deleted rows (last op = d) never reach Silver".  *)
(***************************************************************************)
DeletedOrdersLeaveSilver ==
    \A d \in Drivers : pc[d] = "done" =>
        \A s \in silver["orders"] :
            ~\E e \in NewestRows(raw["orders"]) : e.key = s.key /\ e.op = "d"

(***************************************************************************)
(* docs/architecture.md: "Three idempotent PySpark jobs", "Bronze appends  *)
(* are bounded by Kafka offsets": an ingest does not append a record that  *)
(* Bronze already holds.                                                   *)
(***************************************************************************)
BronzeAppendsNewRecords ==
    [][\A d \in Drivers, t \in Tables :
          Ingest(d, t) => ParsedEvents(t) \cap raw[t] = {}]_vars

(***************************************************************************)
(* expectations/silver_order_items.json: item_id is unique.                *)
(***************************************************************************)
OneRowPerItem ==
    \A r, s \in silver["order_items"] : r.key = s.key => r = s

(***************************************************************************)
(* dbt_project.yml: Gold is a "full rebuild per run", the strategy of the  *)
(* Spark job too, so a day without revenue orders has no row.              *)
(***************************************************************************)
NoStaleRevenueDay ==
    \A d \in Drivers : pc[d] = "done" =>
        \A g \in gold["daily_revenue"] : \E o \in RevenueOrders : DayOf[o.key] = g.key

(***************************************************************************)
(* 02_silver_transform.py: "take the latest version of each entity by      *)
(* ts_ms (last-write-wins)".                                               *)
(***************************************************************************)
SilverHoldsLastWrite ==
    \A d \in Drivers : pc[d] = "done" =>
        \A s \in silver["orders"], e \in Upserts(raw["orders"]) :
            e.key = s.key => e.lsn <= s.lsn

(***************************************************************************)
(* ADR-0004: "Deletes and every intermediate update reach the lakehouse":  *)
(* no record leaves its topic before Bronze has it.                        *)
(***************************************************************************)
EveryChangeReachesBronze ==
    [][\A t \in Tables : ParsedEvents(t) \ topic'[t] \subseteq raw[t]]_vars
=============================================================================
