------------------------------ MODULE CdcSource ------------------------------
(***************************************************************************)
(* The OLTP side of the pipeline: the Postgres shop database as            *)
(* demo/generate_traffic.py changes it, the Debezium connector that        *)
(* streams its write-ahead log, and the Kafka topic each table is captured *)
(* into, whose records are removed by compaction and by retention.         *)
(*                                                                         *)
(* A row is an image that a change event carries.  An amount is never      *)
(* added up: the total of an order is represented by the lines it sums     *)
(* (item -> quantity), so two totals are equal when they sum the same      *)
(* lines.  A log position (lsn) names a change; ts is Debezium's ts_ms,    *)
(* the instant at which the connector processed it.                        *)
(***************************************************************************)
EXTENDS Integers

CONSTANTS
    Customers, Orders, Items,  \* primary keys of the three captured tables
    OrderOf,         \* [Items -> Orders]: the order_id of each item
    Quantities,      \* quantities a line may have
    SeedCustomers,   \* customers inserted by init.sql
    Deletable,       \* orders that somebody may delete from the database
    TsGaps,          \* how far ts_ms may move between two events of a topic
    OrderedPublish,  \* TRUE: events become visible in log order, even across
                     \* topics; FALSE: in log order within a topic only
    NoRow,           \* the image of a row that is not there
    MaxLsn,          \* bound: changes written to the log
    MaxRestarts,     \* bound: restarts of the connector
    MaxRemovals      \* bound: records removed by the log cleaner or retention

Tables == {"orders", "customers", "order_items"}
Keys == [orders |-> Orders, customers |-> Customers, order_items |-> Items]
AllKeys == Orders \cup Customers \cup Items

ASSUME SourceAssumption ==
    /\ OrderOf \in [Items -> Orders]
    /\ Quantities \subseteq Nat
    /\ TsGaps \subseteq Nat
    /\ SeedCustomers \subseteq Customers
    /\ Deletable \subseteq Orders
    /\ OrderedPublish \in BOOLEAN
    /\ {MaxLsn, MaxRestarts, MaxRemovals} \subseteq Nat

(***************************************************************************)
(* STATUS_FLOW: the transitions an order may take.                         *)
(***************************************************************************)
StatusFlow == [pending   |-> {"confirmed", "cancelled"},
               confirmed |-> {"shipped", "cancelled"},
               shipped   |-> {"delivered"},
               delivered |-> {"completed"}]
TerminalStatuses == {"completed", "cancelled"}
Statuses == DOMAIN StatusFlow \cup TerminalStatuses

UpsertOps == {"c", "u", "r"}
Ops == UpsertOps \cup {"d", "tombstone"}

Lines == UNION {[S -> Quantities] : S \in SUBSET Items}
Images == [orders |-> [customer : Customers, status : Statuses, total : Lines],
           customers |-> [name : {"customer"}],
           order_items |-> [order : Orders, quantity : Quantities]]
Row(t) == Images[t] \cup {NoRow}
Change(t) == [key : Keys[t], op : Ops, img : Row(t), lsn : Nat]
Event(t) == [key : Keys[t], op : Ops, img : Row(t), lsn : Nat, ts : Nat]

(* A row that is there is not a row that is not there. *)
ASSUME NoRowAssumption == \A t \in Tables : NoRow \notin Images[t]

VARIABLES
    db,          \* [t \in Tables -> [AllKeys -> Row(t)]]: the database
    issued,      \* primary keys ever issued (BIGSERIAL never reuses one)
    lsn,         \* last position written to the log
    wal,         \* [t \in Tables -> SUBSET Change(t)]: committed, not yet published
    topic,       \* [t \in Tables -> SUBSET Event(t)]: records visible in Kafka
    clock,       \* [Tables -> Nat]: ts_ms of the last event of each topic
    aged,        \* [t \in Tables -> SUBSET Event(t)]: history, the records that
                 \* retention has removed from each topic
    restarts, removals

sourceVars == <<db, issued, lsn, wal, topic, clock, aged, restarts, removals>>

Exists(t, k) == db[t][k] # NoRow
ItemsOf(o) == {i \in Items : OrderOf[i] = o}
NoLines == [i \in {} |-> 0]
CustomerRow == [name |-> "customer"]

(* The lines SUM(quantity * unit_price) adds up for order o over item rows. *)
LinesOf(rows, o) ==
    [i \in {j \in ItemsOf(o) : rows[j] # NoRow} |-> rows[i].quantity]

NewChange(k, op, img, l) == [key |-> k, op |-> op, img |-> img, lsn |-> l]

(***************************************************************************)
(* Every captured row as a snapshot (op r) event, at log position l.       *)
(***************************************************************************)
SnapshotEvents(t, rows, l) ==
    {NewChange(k, "r", rows[t][k], l) : k \in {j \in Keys[t] : rows[t][j] # NoRow}}

SeedRows ==
    [t \in Tables |->
        [k \in AllKeys |-> IF t = "customers" /\ k \in SeedCustomers
                           THEN CustomerRow ELSE NoRow]]

(* init.sql has run; the connector takes its initial snapshot. *)
SourceInit ==
    /\ db = SeedRows
    /\ issued = SeedCustomers
    /\ lsn = 0
    /\ wal = [t \in Tables |-> SnapshotEvents(t, SeedRows, 0)]
    /\ topic = [t \in Tables |-> {}]
    /\ clock = [t \in Tables |-> 0]
    /\ aged = [t \in Tables |-> {}]
    /\ restarts = 0
    /\ removals = 0

(***************************************************************************)
(* One committed transaction of the database that took n log positions:    *)
(* the new rows and the changes written to the log.                        *)
(***************************************************************************)
Transaction(rows, changes, n) ==
    /\ lsn + n <= MaxLsn
    /\ lsn' = lsn + n
    /\ db' = rows
    /\ wal' = [t \in Tables |-> wal[t] \cup changes[t]]
    /\ UNCHANGED <<topic, clock, aged, restarts, removals>>

CreateCustomer(c) ==
    /\ c \notin issued
    /\ issued' = issued \cup {c}
    /\ Transaction([db EXCEPT !["customers"][c] = CustomerRow],
                   [orders |-> {}, order_items |-> {},
                    customers |-> {NewChange(c, "c", CustomerRow, lsn + 1)}], 1)

(***************************************************************************)
(* create_order: INSERT the order with total 0, INSERT its lines, UPDATE   *)
(* the total, all in one transaction.  When no customer exists one is      *)
(* created first, in the same transaction.                                 *)
(***************************************************************************)
NoCustomer == \A c \in Customers : ~Exists("customers", c)

OrderRows(o, c, qty) ==
    [customers |-> [db["customers"] EXCEPT ![c] = CustomerRow],
     orders |-> [db["orders"] EXCEPT
                   ![o] = [customer |-> c, status |-> "pending", total |-> qty]],
     order_items |-> [i \in AllKeys |->
                        IF i \in DOMAIN qty THEN [order |-> o, quantity |-> qty[i]]
                        ELSE db["order_items"][i]]]

OrderChanges(o, c, qty, l) ==
    [customers |-> IF NoCustomer THEN {NewChange(c, "c", CustomerRow, l)} ELSE {},
     orders |-> {NewChange(o, "c", [customer |-> c, status |-> "pending",
                                    total |-> NoLines], l + 1),
                 NewChange(o, "u", [customer |-> c, status |-> "pending",
                                    total |-> qty], l + 3)},
     order_items |-> {NewChange(i, "c", [order |-> o, quantity |-> qty[i]], l + 2)
                         : i \in DOMAIN qty}]

CreateOrder(o) ==
    \E c \in Customers, lines \in SUBSET ItemsOf(o) : \E qty \in [lines -> Quantities] :
      LET n == IF NoCustomer THEN 1 ELSE 0
      IN  /\ o \notin issued /\ lines # {} /\ lines \cap issued = {}
          /\ IF NoCustomer THEN c \notin issued ELSE Exists("customers", c)
          /\ issued' = issued \cup {o, c} \cup lines
          /\ Transaction(OrderRows(o, c, qty), OrderChanges(o, c, qty, lsn + n), n + 3)

(* progress_order: move a live order along STATUS_FLOW. *)
ProgressOrder(o) ==
    /\ Exists("orders", o)
    /\ db["orders"][o].status \notin TerminalStatuses
    /\ \E new \in StatusFlow[db["orders"][o].status] :
         LET img == [db["orders"][o] EXCEPT !.status = new]
         IN  Transaction([db EXCEPT !["orders"][o] = img],
                         [customers |-> {}, order_items |-> {},
                          orders |-> {NewChange(o, "u", img, lsn + 1)}], 1)
    /\ UNCHANGED issued

(* update_item_quantity: change a line of a pending order, re-sum the order. *)
UpdateItemQuantity(i) ==
    /\ Exists("order_items", i) /\ Exists("orders", OrderOf[i])
    /\ db["orders"][OrderOf[i]].status = "pending"
    /\ \E q \in Quantities :
         LET item == [db["order_items"][i] EXCEPT !.quantity = q]
             o == OrderOf[i]
             rows == [db["order_items"] EXCEPT ![i] = item]
             order == [db["orders"][o] EXCEPT !.total = LinesOf(rows, o)]
         IN  Transaction([db EXCEPT !["order_items"] = rows, !["orders"][o] = order],
                         [customers |-> {},
                          order_items |-> {NewChange(i, "u", item, lsn + 1)},
                          orders |-> {NewChange(o, "u", order, lsn + 2)}], 2)
    /\ UNCHANGED issued

(***************************************************************************)
(* External: somebody deletes an order with its lines.  The connector      *)
(* emits a delete event and then a tombstone for every row.                *)
(***************************************************************************)
DeleteOrder(o) ==
    /\ o \in Deletable /\ Exists("orders", o)
    /\ LET lines == {i \in ItemsOf(o) : Exists("order_items", i)}
           Gone(k, l) == {NewChange(k, "d", NoRow, l), NewChange(k, "tombstone", NoRow, l + 1)}
       IN  Transaction([db EXCEPT !["orders"][o] = NoRow,
                                  !["order_items"] =
                                     [i \in AllKeys |-> IF i \in lines THEN NoRow
                                                       ELSE db["order_items"][i]]],
                       [customers |-> {},
                        order_items |-> UNION {Gone(i, lsn + 1) : i \in lines},
                        orders |-> Gone(o, lsn + 3)], 4)
    /\ UNCHANGED issued

(***************************************************************************)
(* External: the connector, one task, publishes the oldest change it has   *)
(* not published and stamps it with its own clock, which never runs back   *)
(* but need not move between two events.                                   *)
(***************************************************************************)
Publish(t) ==
    \E c \in wal[t], g \in TsGaps :
      LET queue == IF OrderedPublish THEN UNION {wal[u] : u \in Tables} ELSE wal[t]
          ts == clock[t] + g
      IN  /\ \A w \in queue : c.lsn <= w.lsn
          /\ wal' = [wal EXCEPT ![t] = @ \ {c}]
          /\ clock' = [clock EXCEPT ![t] = ts]
          /\ topic' = [topic EXCEPT ![t] = @ \cup
                          {[key |-> c.key, op |-> c.op, img |-> c.img,
                            lsn |-> c.lsn, ts |-> ts]}]
          /\ UNCHANGED <<db, issued, lsn, aged, restarts, removals>>

(***************************************************************************)
(* External: the connector restarts.  snapshot.mode is "always", so it     *)
(* publishes an r event for every row it finds; what it had not read from  *)
(* the log is either still to come before the snapshot or skipped by it.   *)
(***************************************************************************)
ConnectorRestart ==
    /\ restarts < MaxRestarts /\ lsn < MaxLsn
    /\ restarts' = restarts + 1
    /\ lsn' = lsn + 1
    /\ \E skipped \in BOOLEAN :
         wal' = [t \in Tables |->
                    (IF skipped THEN {} ELSE wal[t]) \cup SnapshotEvents(t, db, lsn + 1)]
    /\ UNCHANGED <<db, issued, topic, clock, aged, removals>>

(***************************************************************************)
(* cleanup.policy compact,delete.  The log cleaner removes a record that a *)
(* later record of the same key supersedes (min.compaction.lag 0) ...      *)
(***************************************************************************)
Compact(t) ==
    /\ removals < MaxRemovals
    /\ removals' = removals + 1
    /\ \E e, f \in topic[t] :
         /\ e.key = f.key /\ e.lsn < f.lsn
         /\ topic' = [topic EXCEPT ![t] = @ \ {e}]
    /\ UNCHANGED <<db, issued, lsn, wal, clock, aged, restarts>>

(***************************************************************************)
(* ... and retention (retention.ms, 7 days) removes the oldest record of a *)
(* partition, superseded or not, read or not.  The records of a key are in *)
(* one partition, and which keys share it is left open: the oldest record  *)
(* of a key may go.                                                        *)
(***************************************************************************)
Expire(t) ==
    /\ removals < MaxRemovals
    /\ removals' = removals + 1
    /\ \E e \in topic[t] :
         /\ \A f \in topic[t] : f.key = e.key => e.lsn <= f.lsn
         /\ topic' = [topic EXCEPT ![t] = @ \ {e}]
         /\ aged' = [aged EXCEPT ![t] = @ \cup {e}]
    /\ UNCHANGED <<db, issued, lsn, wal, clock, restarts>>

SourceNext ==
    \/ \E c \in Customers : CreateCustomer(c)
    \/ \E o \in Orders : CreateOrder(o) \/ ProgressOrder(o) \/ DeleteOrder(o)
    \/ \E i \in Items : UpdateItemQuantity(i)
    \/ \E t \in Tables : Publish(t) \/ Compact(t) \/ Expire(t)
    \/ ConnectorRestart

SourceTypeOK ==
    /\ DOMAIN db = Tables /\ DOMAIN wal = Tables
    /\ DOMAIN topic = Tables /\ DOMAIN aged = Tables
    /\ \A t \in Tables :
         /\ db[t] \in [AllKeys -> Row(t)]
         /\ wal[t] \subseteq Change(t)
         /\ topic[t] \subseteq Event(t) /\ aged[t] \subseteq Event(t)
    /\ clock \in [Tables -> Nat]
    /\ issued \subseteq AllKeys
    /\ lsn \in Nat /\ restarts \in Nat /\ removals \in Nat
=============================================================================
