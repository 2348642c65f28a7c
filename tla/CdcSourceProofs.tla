--------------------------- MODULE CdcSourceProofs ---------------------------
(***************************************************************************)
(* Type correctness of the source: every event a topic carries is a well   *)
(* formed image of a row of its table.  And the order in which the rows of *)
(* two tables become visible: a streamed order never before its customer.  *)
(***************************************************************************)
EXTENDS CdcSource, TLAPS

USE SourceAssumption

LEMMA TablesFacts ==
    /\ Tables = {"orders", "customers", "order_items"}
    /\ Keys["orders"] = Orders /\ Keys["customers"] = Customers
    /\ Keys["order_items"] = Items
    /\ \A t \in Tables : Keys[t] \subseteq AllKeys
  BY DEF Tables, Keys, AllKeys

LEMMA OpsFacts == {"c", "u", "r", "d", "tombstone"} \subseteq Ops
  BY DEF Ops, UpsertOps

LEMMA NewChangeType ==
    ASSUME NEW t \in Tables, NEW k \in Keys[t], NEW op \in Ops,
           NEW img \in Row(t), NEW l \in Nat
    PROVE  NewChange(k, op, img, l) \in Change(t)
  BY DEF NewChange, Change

LEMMA SnapshotType ==
    ASSUME NEW rows, NEW t \in Tables, rows[t] \in [AllKeys -> Row(t)], NEW l \in Nat
    PROVE  SnapshotEvents(t, rows, l) \subseteq Change(t)
  BY TablesFacts, OpsFacts DEF SnapshotEvents, NewChange, Change

LEMMA SourceTypeInit == SourceInit => SourceTypeOK
  <1> SUFFICES ASSUME SourceInit PROVE SourceTypeOK
    OBVIOUS
  <1>1. \A t \in Tables : SeedRows[t] \in [AllKeys -> Row(t)]
    <2>1. CustomerRow \in Row("customers")
      BY DEF CustomerRow, Row, Images
    <2>2. \A t \in Tables : NoRow \in Row(t)
      BY DEF Row
    <2> QED
      BY <2>1, <2>2 DEF SeedRows
  <1>2. \A t \in Tables : SnapshotEvents(t, SeedRows, 0) \subseteq Change(t)
    BY <1>1, SnapshotType
  <1> QED
    BY <1>1, <1>2 DEF SourceInit, SourceTypeOK, SeedRows, AllKeys

(***************************************************************************)
(* A transaction preserves the types when its rows and changes have them.  *)
(***************************************************************************)
LEMMA TransactionType ==
    ASSUME SourceTypeOK, NEW rows, NEW changes, NEW n \in Nat,
           Transaction(rows, changes, n),
           issued' \subseteq AllKeys,
           DOMAIN rows = Tables,
           \A t \in Tables : rows[t] \in [AllKeys -> Row(t)] /\ changes[t] \subseteq Change(t)
    PROVE  SourceTypeOK'
  BY DEF Transaction, SourceTypeOK, Row, Change, Event

LEMMA RowFacts ==
    /\ \A t \in Tables : NoRow \in Row(t)
    /\ CustomerRow \in Row("customers")
    /\ CustomerRow # NoRow
    /\ NoLines \in Lines
    /\ \A k : Exists("orders", k) /\ db["orders"][k] \in Row("orders")
                => db["orders"][k] \in Images["orders"]
    /\ \A k : Exists("order_items", k) /\ db["order_items"][k] \in Row("order_items")
                => db["order_items"][k] \in Images["order_items"]
  <1>1. NoLines \in Lines
    <2>1. NoLines \in [{} -> Quantities]
      BY DEF NoLines
    <2> QED
      BY <2>1 DEF Lines
  <1>2. CustomerRow \in Row("customers")
    BY DEF CustomerRow, Row, Images
  <1>3. CustomerRow # NoRow
    <2>1. CustomerRow \in Images["customers"]
      BY DEF CustomerRow, Images
    <2> QED
      BY <2>1, NoRowAssumption, TablesFacts
  <1> QED
    BY <1>1, <1>2, <1>3 DEF Row, Exists

LEMMA CreateCustomerType ==
    ASSUME SourceTypeOK, NEW c \in Customers, CreateCustomer(c)
    PROVE  SourceTypeOK'
  <1> DEFINE rows == [db EXCEPT !["customers"][c] = CustomerRow]
             changes == [orders |-> {}, order_items |-> {},
                         customers |-> {NewChange(c, "c", CustomerRow, lsn + 1)}]
  <1>1. Transaction(rows, changes, 1) /\ issued' \subseteq AllKeys
    BY DEF CreateCustomer, SourceTypeOK, AllKeys
  <1>2. DOMAIN rows = Tables /\ \A t \in Tables : rows[t] \in [AllKeys -> Row(t)]
    BY RowFacts DEF SourceTypeOK
  <1>3. \A t \in Tables : changes[t] \subseteq Change(t)
    BY RowFacts, TablesFacts, OpsFacts, NewChangeType DEF SourceTypeOK
  <1> QED
    BY <1>1, <1>2, <1>3, TransactionType

LEMMA LinesType ==
    ASSUME NEW S \in SUBSET Items, NEW f \in [S -> Quantities]
    PROVE  f \in Lines
  BY DEF Lines

LEMMA LinesOfType ==
    ASSUME NEW rows \in [AllKeys -> Row("order_items")], NEW o
    PROVE  LinesOf(rows, o) \in Lines
  <1> DEFINE S == {j \in ItemsOf(o) : rows[j] # NoRow}
  <1>1. S \in SUBSET Items
    BY DEF ItemsOf
  <1>2. \A i \in S : rows[i] \in Images["order_items"]
    BY <1>1, TablesFacts DEF AllKeys, Row
  <1>3. LinesOf(rows, o) \in [S -> Quantities]
    BY <1>2 DEF LinesOf, Images
  <1> QED
    BY <1>1, <1>3, LinesType

LEMMA OrderChangesType ==
    ASSUME SourceTypeOK, NEW o \in Orders, NEW c \in Customers,
           NEW lines \in SUBSET ItemsOf(o), NEW qty \in [lines -> Quantities], NEW l \in Nat
    PROVE  \A t \in Tables : OrderChanges(o, c, qty, l)[t] \subseteq Change(t)
  <1> DEFINE changes == OrderChanges(o, c, qty, l)
  <1>1. lines \subseteq Items /\ DOMAIN qty = lines
    BY DEF ItemsOf
  <1>2. qty \in Lines
    BY <1>1, LinesType
  <1>3. \A total \in Lines :
          [customer |-> c, status |-> "pending", total |-> total] \in Row("orders")
    BY DEF Row, Images, Statuses, StatusFlow
  <1>4. \A i \in lines : [order |-> o, quantity |-> qty[i]] \in Row("order_items")
    BY DEF Row, Images
  <1>5. changes["orders"] \subseteq Change("orders")
    <2>1. \A op \in Ops, img \in Row("orders"), m \in Nat :
             NewChange(o, op, img, m) \in Change("orders")
      BY TablesFacts, NewChangeType
    <2>2. /\ changes["orders"] = {NewChange(o, "c", [customer |-> c, status |-> "pending",
                                                     total |-> NoLines], l + 1),
                                 NewChange(o, "u", [customer |-> c, status |-> "pending",
                                                     total |-> qty], l + 3)}
          /\ "c" \in Ops /\ "u" \in Ops
          /\ l + 1 \in Nat /\ l + 3 \in Nat
      BY OpsFacts DEF OrderChanges
    <2> HIDE DEF changes
    <2> QED
      BY <1>2, <1>3, <2>1, <2>2, RowFacts
  <1>6. changes["customers"] \subseteq Change("customers")
    BY RowFacts, TablesFacts, OpsFacts, NewChangeType DEF OrderChanges
  <1>7. changes["order_items"] \subseteq Change("order_items")
    <2>1. /\ changes["order_items"] =
               {NewChange(i, "c", [order |-> o, quantity |-> qty[i]], l + 2) : i \in lines}
          /\ "c" \in Ops /\ l + 2 \in Nat
      BY <1>1, OpsFacts DEF OrderChanges
    <2>2. \A i \in Items, img \in Row("order_items") :
             NewChange(i, "c", img, l + 2) \in Change("order_items")
      BY <2>1, TablesFacts, NewChangeType
    <2> HIDE DEF changes
    <2> QED
      BY <1>1, <1>4, <2>1, <2>2
  <1> QED
    BY <1>5, <1>6, <1>7, TablesFacts

LEMMA CreateOrderType ==
    ASSUME SourceTypeOK, NEW o \in Orders, CreateOrder(o)
    PROVE  SourceTypeOK'
  <1>1. PICK c \in Customers, lines \in SUBSET ItemsOf(o) :
          \E qty \in [lines -> Quantities] : CreateOrder(o)!(c, lines)!(qty)
    BY DEF CreateOrder
  <1>2. PICK qty \in [lines -> Quantities] : CreateOrder(o)!(c, lines)!(qty)
    BY <1>1
  <1> DEFINE n == IF NoCustomer THEN 1 ELSE 0
             rows == OrderRows(o, c, qty)
             changes == OrderChanges(o, c, qty, lsn + n)
  <1>3. /\ Transaction(rows, changes, n + 3)
        /\ issued' = issued \cup {o, c} \cup lines
    BY <1>2
  <1>4. lines \subseteq Items /\ DOMAIN qty = lines /\ n \in Nat /\ lsn \in Nat
    BY DEF ItemsOf, SourceTypeOK
  <1>5. qty \in Lines
    BY <1>4, LinesType
  <1>6. \A total \in Lines :
          [customer |-> c, status |-> "pending", total |-> total] \in Row("orders")
    BY DEF Row, Images, Statuses, StatusFlow
  <1>7. \A i \in lines : [order |-> o, quantity |-> qty[i]] \in Row("order_items")
    BY DEF Row, Images
  <1>8. DOMAIN rows = Tables /\ \A t \in Tables : rows[t] \in [AllKeys -> Row(t)]
    <2>1. rows["orders"] \in [AllKeys -> Row("orders")]
      BY <1>5, <1>6, TablesFacts DEF OrderRows, SourceTypeOK
    <2>2. rows["customers"] \in [AllKeys -> Row("customers")]
      BY RowFacts, TablesFacts DEF OrderRows, SourceTypeOK
    <2>3. rows["order_items"] \in [AllKeys -> Row("order_items")]
      BY <1>4, <1>7, TablesFacts DEF OrderRows, SourceTypeOK
    <2> QED
      BY <2>1, <2>2, <2>3, TablesFacts DEF OrderRows
  <1>9. \A t \in Tables : changes[t] \subseteq Change(t)
    BY <1>4, OrderChangesType
  <1>10. issued' \subseteq AllKeys
    BY <1>3, <1>4 DEF SourceTypeOK, AllKeys
  <1> QED
    BY <1>3, <1>4, <1>8, <1>9, <1>10, TransactionType

(* An order that takes a step of STATUS_FLOW is an order. *)
LEMMA ProgressOrderImage ==
    ASSUME NEW order \in Images["orders"], order.status \notin TerminalStatuses,
           NEW new \in StatusFlow[order.status]
    PROVE  [order EXCEPT !.status = new] \in Row("orders")
  <1>1. new \in Statuses
    <2>1. order.status \in Statuses \ TerminalStatuses
      BY DEF Images
    <2> QED
      BY <2>1 DEF Statuses, StatusFlow, TerminalStatuses
  <1> QED
    BY <1>1 DEF Images, Row

(* A line with another quantity is a line, and the order with its sum an order. *)
LEMMA ItemImage ==
    ASSUME NEW rows \in [AllKeys -> Row("order_items")], NEW i,
           rows[i] \in Images["order_items"], NEW q \in Quantities,
           NEW order \in Images["orders"], NEW o
    PROVE  LET item == [rows[i] EXCEPT !.quantity = q]
               items == [rows EXCEPT ![i] = item]
           IN  /\ item \in Row("order_items")
               /\ items \in [AllKeys -> Row("order_items")]
               /\ [order EXCEPT !.total = LinesOf(items, o)] \in Row("orders")
  <1> DEFINE item == [rows[i] EXCEPT !.quantity = q]
             items == [rows EXCEPT ![i] = item]
  <1>1. item \in Row("order_items")
    BY DEF Images, Row
  <1>2. items \in [AllKeys -> Row("order_items")]
    BY <1>1
  <1>3. LinesOf(items, o) \in Lines
    BY <1>2, LinesOfType
  <1> QED
    BY <1>1, <1>2, <1>3 DEF Images, Row

LEMMA ProgressOrderType ==
    ASSUME SourceTypeOK, NEW o \in Orders, ProgressOrder(o)
    PROVE  SourceTypeOK'
  <1>1. db["orders"][o] \in Images["orders"]
    BY RowFacts, TablesFacts DEF ProgressOrder, SourceTypeOK, AllKeys
  <1>2. PICK new \in StatusFlow[db["orders"][o].status] :
          ProgressOrder(o)!3!(new)
    BY DEF ProgressOrder
  <1> DEFINE img == [db["orders"][o] EXCEPT !.status = new]
             rows == [db EXCEPT !["orders"][o] = img]
             changes == [customers |-> {}, order_items |-> {},
                         orders |-> {NewChange(o, "u", img, lsn + 1)}]
  <1>3. Transaction(rows, changes, 1) /\ issued' \subseteq AllKeys
    BY <1>2 DEF ProgressOrder, SourceTypeOK
  <1>4. db["orders"][o].status \notin TerminalStatuses
    BY DEF ProgressOrder
  <1>5. img \in Row("orders")
    BY <1>1, <1>4, ProgressOrderImage
  <1>6. DOMAIN rows = Tables /\ \A t \in Tables : rows[t] \in [AllKeys -> Row(t)]
    BY <1>5 DEF SourceTypeOK
  <1>7. \A t \in Tables : changes[t] \subseteq Change(t)
    BY <1>5, TablesFacts, OpsFacts, NewChangeType DEF SourceTypeOK
  <1> QED
    BY <1>3, <1>6, <1>7, TransactionType

LEMMA UpdateItemQuantityType ==
    ASSUME SourceTypeOK, NEW i \in Items, UpdateItemQuantity(i)
    PROVE  SourceTypeOK'
  <1> DEFINE o == OrderOf[i]
  <1>1. /\ o \in Orders /\ o \in AllKeys /\ i \in AllKeys
        /\ db["order_items"][i] \in Images["order_items"]
        /\ db["orders"][o] \in Images["orders"]
        /\ db["order_items"] \in [AllKeys -> Row("order_items")]
        /\ lsn \in Nat
    BY RowFacts, TablesFacts DEF UpdateItemQuantity, SourceTypeOK, AllKeys
  <1>2. PICK q \in Quantities : UpdateItemQuantity(i)!3!(q)
    BY DEF UpdateItemQuantity
  <1> DEFINE item == [db["order_items"][i] EXCEPT !.quantity = q]
             items == [db["order_items"] EXCEPT ![i] = item]
             order == [db["orders"][o] EXCEPT !.total = LinesOf(items, o)]
             rows == [db EXCEPT !["order_items"] = items, !["orders"][o] = order]
             changes == [customers |-> {},
                         order_items |-> {NewChange(i, "u", item, lsn + 1)},
                         orders |-> {NewChange(o, "u", order, lsn + 2)}]
  <1>3. Transaction(rows, changes, 2) /\ issued' \subseteq AllKeys
    BY <1>2 DEF UpdateItemQuantity, SourceTypeOK
  <1>4. item \in Row("order_items") /\ order \in Row("orders")
    BY <1>1, ItemImage
  <1>5. items \in [AllKeys -> Row("order_items")]
    BY <1>1, <1>4
  <1>6. DOMAIN rows = Tables /\ \A t \in Tables : rows[t] \in [AllKeys -> Row(t)]
    BY <1>4, <1>5, TablesFacts DEF SourceTypeOK
  <1>7. \A t \in Tables : changes[t] \subseteq Change(t)
    <2> HIDE DEF item, order
    <2>1. NewChange(i, "u", item, lsn + 1) \in Change("order_items")
      BY <1>1, <1>4, TablesFacts, OpsFacts, NewChangeType
    <2>2. NewChange(o, "u", order, lsn + 2) \in Change("orders")
      BY <1>1, <1>4, TablesFacts, OpsFacts, NewChangeType
    <2> QED
      BY <2>1, <2>2, TablesFacts
  <1> QED
    BY <1>3, <1>6, <1>7, TransactionType

LEMMA DeleteOrderType ==
    ASSUME SourceTypeOK, NEW o \in Orders, DeleteOrder(o)
    PROVE  SourceTypeOK'
  <1> DEFINE lines == {i \in ItemsOf(o) : Exists("order_items", i)}
             Gone(k, l) == {NewChange(k, "d", NoRow, l), NewChange(k, "tombstone", NoRow, l + 1)}
             rows == [db EXCEPT !["orders"][o] = NoRow,
                                !["order_items"] =
                                   [i \in AllKeys |-> IF i \in lines THEN NoRow
                                                       ELSE db["order_items"][i]]]
             changes == [customers |-> {},
                         order_items |-> UNION {Gone(i, lsn + 1) : i \in lines},
                         orders |-> Gone(o, lsn + 3)]
  <1>1. Transaction(rows, changes, 4) /\ issued' \subseteq AllKeys
    BY DEF DeleteOrder, SourceTypeOK
  <1>2. DOMAIN rows = Tables /\ \A t \in Tables : rows[t] \in [AllKeys -> Row(t)]
    BY RowFacts, TablesFacts DEF SourceTypeOK
  <1>3. \A t \in Tables : \A k \in Keys[t], l \in Nat : Gone(k, l) \subseteq Change(t)
    BY RowFacts, OpsFacts, NewChangeType
  <1>4. \A t \in Tables : changes[t] \subseteq Change(t)
    <2>1. lines \subseteq Items /\ lsn + 1 \in Nat /\ lsn + 3 \in Nat
      BY DEF ItemsOf, SourceTypeOK
    <2> HIDE DEF lines, Gone
    <2> QED
      BY <1>3, <2>1, TablesFacts
  <1> QED
    BY <1>1, <1>2, <1>4, TransactionType

LEMMA PublishType ==
    ASSUME SourceTypeOK, NEW t \in Tables, Publish(t)
    PROVE  SourceTypeOK'
  <1>1. PICK c \in wal[t], g \in TsGaps : Publish(t)!(c, g)
    BY DEF Publish
  <1> DEFINE ts == clock[t] + g
             event == [key |-> c.key, op |-> c.op, img |-> c.img, lsn |-> c.lsn, ts |-> ts]
  <1>2. /\ wal' = [wal EXCEPT ![t] = @ \ {c}]
        /\ clock' = [clock EXCEPT ![t] = ts]
        /\ topic' = [topic EXCEPT ![t] = @ \cup {event}]
        /\ UNCHANGED <<db, issued, lsn, aged, restarts, removals>>
    BY <1>1
  <1>3. ts \in Nat /\ event \in Event(t)
    <2>1. c \in Change(t) /\ clock[t] \in Nat /\ g \in Nat
      BY DEF SourceTypeOK
    <2> QED
      BY <2>1 DEF Change, Event
  <1> QED
    BY <1>2, <1>3 DEF SourceTypeOK, Row, Change, Event

LEMMA ConnectorRestartType ==
    ASSUME SourceTypeOK, ConnectorRestart
    PROVE  SourceTypeOK'
  <1>1. PICK skipped \in BOOLEAN :
          wal' = [t \in Tables |->
                    (IF skipped THEN {} ELSE wal[t]) \cup SnapshotEvents(t, db, lsn + 1)]
    BY DEF ConnectorRestart
  <1>2. \A t \in Tables : SnapshotEvents(t, db, lsn + 1) \subseteq Change(t)
    BY SnapshotType DEF SourceTypeOK
  <1>3. \A t \in Tables : wal'[t] \subseteq Change(t)
    BY <1>1, <1>2 DEF SourceTypeOK
  <1> QED
    BY <1>1, <1>3 DEF ConnectorRestart, SourceTypeOK, Row, Change, Event

LEMMA CompactType ==
    ASSUME SourceTypeOK, NEW t \in Tables, Compact(t)
    PROVE  SourceTypeOK'
  BY DEF SourceTypeOK, Compact, Row, Change, Event

LEMMA ExpireType ==
    ASSUME SourceTypeOK, NEW t \in Tables, Expire(t)
    PROVE  SourceTypeOK'
  BY DEF SourceTypeOK, Expire, Row, Change, Event

(***************************************************************************)
(* Every transaction of the database and every step of the connector, the  *)
(* log cleaner and retention preserves the types of the source.            *)
(***************************************************************************)
LEMMA SourceTypeNext == SourceTypeOK /\ [SourceNext]_sourceVars => SourceTypeOK'
  <1> SUFFICES ASSUME SourceTypeOK, [SourceNext]_sourceVars PROVE SourceTypeOK'
    OBVIOUS
  <1>1. CASE UNCHANGED sourceVars
    BY <1>1 DEF sourceVars, SourceTypeOK, Row, Change, Event
  <1>2. CASE SourceNext
    BY <1>2, CreateCustomerType, CreateOrderType, ProgressOrderType, DeleteOrderType,
       UpdateItemQuantityType, PublishType, CompactType, ExpireType, ConnectorRestartType
       DEF SourceNext
  <1> QED
    BY <1>1, <1>2

----------------------------------------------------------------------------
(***************************************************************************)
(* Orders and their customers.  The transaction that inserts an order      *)
(* finds its customer in the database or inserts it first, and a customer  *)
(* is never deleted; the connector publishes the two tables in log order.  *)
(* So an order that is streamed becomes visible after its customer.        *)
(***************************************************************************)
Streamed(events) == {e \in events : e.op \in {"c", "u"}}

(* A row of customer c is in the customers topic, or has aged out of it. *)
CustomerVisible(c) == \E f \in topic["customers"] \cup aged["customers"] : f.key = c

(* ... or holds it once the log is published up to, and excluding, l. *)
VisibleBefore(c, l) ==
    CustomerVisible(c) \/ \E f \in wal["customers"] : f.key = c /\ f.lsn < l

(* No event of the customers is a delete. *)
CustomersStay ==
    \A f \in wal["customers"] \cup topic["customers"] \cup aged["customers"] : f.op \in UpsertOps

(* The foreign key of the orders table. *)
OrdersHaveCustomers ==
    \A o \in Orders :
        Exists("orders", o) => Exists("customers", db["orders"][o].customer)

ReferenceInv ==
    /\ CustomersStay
    /\ OrdersHaveCustomers
    /\ \A c \in Customers : Exists("customers", c) => VisibleBefore(c, lsn + 1)
    /\ \A w \in Streamed(wal["orders"]) : VisibleBefore(w.img.customer, w.lsn)
    /\ \A e \in Streamed(topic["orders"]) : CustomerVisible(e.img.customer)

(* Retention moves records from a topic to what has aged out of it. *)
LEMMA ExpireFacts ==
    ASSUME SourceTypeOK, NEW t \in Tables, Expire(t)
    PROVE  \A u \in Tables : /\ topic'[u] \subseteq topic[u]
                             /\ topic'[u] \cup aged'[u] = topic[u] \cup aged[u]
  <1>1. PICK e \in topic[t] : /\ topic' = [topic EXCEPT ![t] = @ \ {e}]
                              /\ aged' = [aged EXCEPT ![t] = @ \cup {e}]
    BY DEF Expire
  <1>2. DOMAIN topic = Tables /\ DOMAIN aged = Tables
    BY DEF SourceTypeOK
  <1> QED
    BY <1>1, <1>2

(* A customer that is visible stays visible: the log cleaner removes a
   record only when a later one of its key is there, and retention is
   remembered.                                                             *)
LEMMA VisibleStays ==
    ASSUME SourceTypeOK, [SourceNext]_sourceVars, NEW k, CustomerVisible(k)
    PROVE  CustomerVisible(k)'
  <1>1. PICK x \in topic["customers"] \cup aged["customers"] : x.key = k
    BY DEF CustomerVisible
  <1>2. CASE topic' = topic /\ aged' = aged
    BY <1>1, <1>2 DEF CustomerVisible
  <1>3. ASSUME NEW t \in Tables, Publish(t)
        PROVE  CustomerVisible(k)'
    <2>1. topic["customers"] \subseteq topic'["customers"] /\ aged' = aged
      BY <1>3, TablesFacts DEF Publish, SourceTypeOK
    <2> QED
      BY <1>1, <2>1 DEF CustomerVisible
  <1>4. ASSUME NEW t \in Tables, Compact(t)
        PROVE  CustomerVisible(k)'
    <2>1. PICK e \in topic[t], f \in topic[t] :
            e.key = f.key /\ e.lsn < f.lsn /\ topic' = [topic EXCEPT ![t] = @ \ {e}]
      BY <1>4 DEF Compact
    <2>2. e # f /\ DOMAIN topic = Tables /\ aged' = aged
      BY <1>4, <2>1 DEF Compact, SourceTypeOK, Event
    <2>3. CASE x = e /\ t = "customers"
      BY <1>1, <2>1, <2>2, <2>3 DEF CustomerVisible
    <2>4. CASE ~(x = e /\ t = "customers")
      BY <1>1, <2>1, <2>2, <2>4, TablesFacts DEF CustomerVisible
    <2> QED
      BY <2>3, <2>4
  <1>5. ASSUME NEW t \in Tables, Expire(t)
        PROVE  CustomerVisible(k)'
    <2>1. topic["customers"] \cup aged["customers"]
            \subseteq topic'["customers"] \cup aged'["customers"]
      BY <1>5, ExpireFacts, TablesFacts
    <2> QED
      BY <1>1, <2>1 DEF CustomerVisible
  <1>6. CASE \/ \E c \in Customers : CreateCustomer(c)
             \/ \E o \in Orders : CreateOrder(o) \/ ProgressOrder(o) \/ DeleteOrder(o)
             \/ \E i \in Items : UpdateItemQuantity(i)
    <2>1. topic' = topic /\ aged' = aged
      BY <1>6 DEF CreateCustomer, CreateOrder, ProgressOrder, DeleteOrder,
                  UpdateItemQuantity, Transaction
    <2> QED
      BY <1>2, <2>1
  <1> QED
    BY <1>1, <1>2, <1>3, <1>4, <1>5, <1>6 DEF SourceNext, sourceVars, ConnectorRestart

(* What has aged out is never forgotten. *)
LEMMA AgedStays ==
    ASSUME SourceTypeOK, [SourceNext]_sourceVars
    PROVE  aged["customers"] \subseteq aged'["customers"]
  <1>1. ASSUME NEW t \in Tables, Expire(t)
        PROVE  aged["customers"] \subseteq aged'["customers"]
    BY <1>1, TablesFacts DEF Expire, SourceTypeOK
  <1>2. CASE aged' = aged
    BY <1>2
  <1>3. CASE \/ \E c \in Customers : CreateCustomer(c)
             \/ \E o \in Orders : CreateOrder(o) \/ ProgressOrder(o) \/ DeleteOrder(o)
             \/ \E i \in Items : UpdateItemQuantity(i)
    <2>1. aged' = aged
      BY <1>3 DEF CreateCustomer, CreateOrder, ProgressOrder, DeleteOrder,
                  UpdateItemQuantity, Transaction
    <2> QED
      BY <2>1
  <1>4. ASSUME NEW t \in Tables, Publish(t) \/ Compact(t)
        PROVE  aged' = aged
    BY <1>4 DEF Publish, Compact
  <1> QED
    BY <1>1, <1>2, <1>3, <1>4 DEF SourceNext, sourceVars, ConnectorRestart

LEMMA SnapshotFacts ==
    ASSUME NEW t \in Tables, NEW rows, NEW l
    PROVE  /\ \A f \in SnapshotEvents(t, rows, l) : f.op = "r" /\ f.lsn = l
           /\ \A k \in Keys[t] : rows[t][k] # NoRow =>
                \E f \in SnapshotEvents(t, rows, l) : f.key = k
  <1>1. \A k \in Keys[t] : rows[t][k] # NoRow =>
          NewChange(k, "r", rows[t][k], l) \in SnapshotEvents(t, rows, l)
    BY DEF SnapshotEvents
  <1>2. \A k, img : LET f == NewChange(k, "r", img, l)
                    IN  f.key = k /\ f.op = "r" /\ f.lsn = l
    BY DEF NewChange
  <1>3. \A f \in SnapshotEvents(t, rows, l) : \E k \in Keys[t] :
          f = NewChange(k, "r", rows[t][k], l)
    BY DEF SnapshotEvents
  <1> QED
    BY <1>1, <1>2, <1>3

LEMMA ReferenceInit == SourceInit => ReferenceInv
  <1> SUFFICES ASSUME SourceInit PROVE ReferenceInv
    OBVIOUS
  <1>1. /\ db["orders"] = [k \in AllKeys |-> NoRow]
        /\ db["customers"] = [k \in AllKeys |-> IF k \in SeedCustomers THEN CustomerRow
                                                ELSE NoRow]
        /\ topic["orders"] = {} /\ topic["customers"] = {} /\ lsn = 0
        /\ aged["customers"] = {}
        /\ wal["orders"] = SnapshotEvents("orders", db, 0)
        /\ wal["customers"] = SnapshotEvents("customers", db, 0)
    BY TablesFacts DEF SourceInit, SeedRows
  <1>2. /\ Streamed(wal["orders"]) = {} /\ Streamed(topic["orders"]) = {}
        /\ \A f \in wal["customers"] : f.op = "r"
        /\ \A c \in Customers : Exists("customers", c) =>
              \E f \in wal["customers"] : f.key = c /\ f.lsn = 0
    BY <1>1, TablesFacts, SnapshotFacts DEF Streamed, Exists
  <1>3. \A o \in Orders : ~Exists("orders", o)
    BY <1>1 DEF Exists, AllKeys
  <1> QED
    BY <1>1, <1>2, <1>3 DEF ReferenceInv, CustomersStay, OrdersHaveCustomers, VisibleBefore,
       UpsertOps

(***************************************************************************)
(* A transaction keeps it when it deletes no customer, refers to customers *)
(* the database has, and logs a new customer before what refers to it.     *)
(***************************************************************************)
LEMMA TransactionReference ==
    ASSUME SourceTypeOK, ReferenceInv, NEW rows, NEW changes, NEW n \in Nat \ {0},
           Transaction(rows, changes, n),
           \A t \in Tables : changes[t] \subseteq Change(t),
           \A f \in changes["customers"] : f.op \in UpsertOps,
           \A o \in Orders : rows["orders"][o] # NoRow =>
              rows["customers"][rows["orders"][o].customer] # NoRow,
           \A c \in Customers : rows["customers"][c] # NoRow =>
              \/ Exists("customers", c)
              \/ \E f \in changes["customers"] : f.key = c /\ f.lsn = lsn + 1,
           \A w \in Streamed(changes["orders"]) :
              /\ w.lsn > lsn /\ w.img.customer \in Customers
              /\ \/ Exists("customers", w.img.customer)
                 \/ \E f \in changes["customers"] :
                       f.key = w.img.customer /\ f.lsn < w.lsn
    PROVE  ReferenceInv'
  <1>1. /\ lsn \in Nat /\ lsn' = lsn + n /\ db' = rows
        /\ topic' = topic /\ aged' = aged
        /\ wal'["orders"] = wal["orders"] \cup changes["orders"]
        /\ wal'["customers"] = wal["customers"] \cup changes["customers"]
    BY TablesFacts DEF Transaction, SourceTypeOK
  <1>2. \A f \in wal["customers"] \cup changes["customers"] : f.lsn \in Nat
    BY TablesFacts DEF SourceTypeOK, Change
  <1>3. \A w \in wal["orders"] \cup changes["orders"] : w.lsn \in Nat
    BY TablesFacts DEF SourceTypeOK, Change
  <1> DEFINE After(c, l) ==
               CustomerVisible(c) \/ \E f \in wal'["customers"] : f.key = c /\ f.lsn < l
  <1>4. ASSUME NEW c, NEW l \in Nat, NEW m \in Nat, l <= m, VisibleBefore(c, l)
        PROVE  After(c, m)
    BY <1>1, <1>2, <1>4 DEF VisibleBefore
  <1>5. CustomersStay' /\ OrdersHaveCustomers'
    BY <1>1 DEF ReferenceInv, CustomersStay, OrdersHaveCustomers, Exists
  <1>6. ASSUME NEW c \in Customers, Exists("customers", c)'
        PROVE  After(c, lsn' + 1)
    <2>1. CASE Exists("customers", c)
      <3>1. VisibleBefore(c, lsn + 1) /\ lsn + 1 <= lsn' + 1 /\ lsn' + 1 \in Nat
        BY <1>1, <2>1 DEF ReferenceInv
      <3> QED
        BY <1>1, <1>4, <3>1
    <2>2. CASE \E f \in changes["customers"] : f.key = c /\ f.lsn = lsn + 1
      BY <1>1, <2>2
    <2> QED
      BY <1>1, <1>6, <2>1, <2>2 DEF Exists
  <1>7. ASSUME NEW w \in wal["orders"], w \in Streamed(wal["orders"])
        PROVE  After(w.img.customer, w.lsn)
    <2>1. VisibleBefore(w.img.customer, w.lsn) /\ w.lsn \in Nat
      BY <1>3, <1>7 DEF ReferenceInv
    <2> QED
      BY <1>4, <2>1
  <1>8. ASSUME NEW w \in changes["orders"], w \in Streamed(changes["orders"])
         PROVE  After(w.img.customer, w.lsn)
    <2>1. CASE Exists("customers", w.img.customer)
      <3>1. VisibleBefore(w.img.customer, lsn + 1)
        BY <1>8, <2>1 DEF ReferenceInv
      <3>2. lsn + 1 <= w.lsn /\ w.lsn \in Nat
        BY <1>1, <1>3, <1>8
      <3> QED
        BY <1>1, <1>4, <3>1, <3>2
    <2>2. CASE \E f \in changes["customers"] : f.key = w.img.customer /\ f.lsn < w.lsn
      BY <1>1, <2>2
    <2> QED
      BY <1>8, <2>1, <2>2
  <1>9. \A w \in Streamed(wal'["orders"]) :
           w \in Streamed(wal["orders"]) \/ w \in Streamed(changes["orders"])
    BY <1>1 DEF Streamed
  <1>10. \A w \in Streamed(wal'["orders"]) : After(w.img.customer, w.lsn)
    BY <1>7, <1>8, <1>9 DEF Streamed
  <1> QED
    <2>1. \A c \in Customers : Exists("customers", c)' => VisibleBefore(c, lsn + 1)'
      BY <1>1, <1>6 DEF VisibleBefore, CustomerVisible
    <2>2. \A w \in Streamed(wal["orders"])' : VisibleBefore(w.img.customer, w.lsn)'
      BY <1>1, <1>10 DEF VisibleBefore, CustomerVisible, Streamed
    <2>3. \A e \in Streamed(topic["orders"])' : CustomerVisible(e.img.customer)'
      BY <1>1 DEF ReferenceInv, Streamed, CustomerVisible
    <2> QED
      BY <1>5, <2>1, <2>2, <2>3 DEF ReferenceInv

LEMMA CreateCustomerReference ==
    ASSUME SourceTypeOK, ReferenceInv, NEW c \in Customers, CreateCustomer(c)
    PROVE  ReferenceInv'
  <1> DEFINE rows == [db EXCEPT !["customers"][c] = CustomerRow]
             new == NewChange(c, "c", CustomerRow, lsn + 1)
             changes == [orders |-> {}, order_items |-> {}, customers |-> {new}]
  <1>1. Transaction(rows, changes, 1)
    BY DEF CreateCustomer
  <1>2. /\ rows["orders"] = db["orders"] /\ changes["orders"] = {}
        /\ rows["customers"] = [db["customers"] EXCEPT ![c] = CustomerRow]
        /\ DOMAIN db["customers"] = AllKeys /\ lsn \in Nat
    BY TablesFacts DEF SourceTypeOK
  <1>3. /\ \A t \in Tables : changes[t] \subseteq Change(t)
        /\ new.key = c /\ new.op = "c" /\ new.lsn = lsn + 1
    BY <1>2, RowFacts, TablesFacts, OpsFacts, NewChangeType DEF NewChange
  <1>4. CustomerRow # NoRow
    BY RowFacts
  <1>5. \A o \in Orders : rows["orders"][o] # NoRow =>
          rows["customers"][rows["orders"][o].customer] # NoRow
    BY <1>2, <1>4 DEF ReferenceInv, OrdersHaveCustomers, Exists
  <1>6. \A k \in Customers : rows["customers"][k] # NoRow =>
          \/ Exists("customers", k)
          \/ \E f \in changes["customers"] : f.key = k /\ f.lsn = lsn + 1
    BY <1>2, <1>3 DEF Exists
  <1>7. \A f \in changes["customers"] : f.op \in UpsertOps
    BY <1>3 DEF UpsertOps
  <1>8. Streamed(changes["orders"]) = {}
    BY <1>2 DEF Streamed
  <1> HIDE DEF rows, changes
  <1> QED
    BY <1>1, <1>3, <1>5, <1>6, <1>7, <1>8, TransactionReference

LEMMA CreateOrderReference ==
    ASSUME SourceTypeOK, ReferenceInv, NEW o \in Orders, CreateOrder(o)
    PROVE  ReferenceInv'
  <1>1. PICK c \in Customers, lines \in SUBSET ItemsOf(o) :
          \E qty \in [lines -> Quantities] : CreateOrder(o)!(c, lines)!(qty)
    BY DEF CreateOrder
  <1>2. PICK qty \in [lines -> Quantities] : CreateOrder(o)!(c, lines)!(qty)
    BY <1>1
  <1> DEFINE n == IF NoCustomer THEN 1 ELSE 0
             rows == OrderRows(o, c, qty)
             changes == OrderChanges(o, c, qty, lsn + n)
             Order(total) == [customer |-> c, status |-> "pending", total |-> total]
  <1>3. /\ Transaction(rows, changes, n + 3)
        /\ ~NoCustomer => Exists("customers", c)
        /\ n \in Nat /\ lsn \in Nat /\ (NoCustomer => n = 1)
        /\ DOMAIN db["customers"] = AllKeys /\ DOMAIN db["orders"] = AllKeys
    BY <1>2, TablesFacts DEF SourceTypeOK
  <1>4. \A t \in Tables : changes[t] \subseteq Change(t)
    BY <1>3, OrderChangesType
  <1>5. /\ rows["customers"] = [db["customers"] EXCEPT ![c] = CustomerRow]
        /\ rows["orders"] = [db["orders"] EXCEPT ![o] = Order(qty)]
        /\ CustomerRow # NoRow
    BY RowFacts DEF OrderRows
  <1>6. ASSUME NEW k \in Orders, rows["orders"][k] # NoRow
        PROVE  rows["customers"][rows["orders"][k].customer] # NoRow
    <2>1. CASE k = o
      BY <1>3, <1>5, <2>1 DEF AllKeys
    <2>2. CASE k # o
      BY <1>3, <1>5, <1>6, <2>2 DEF ReferenceInv, OrdersHaveCustomers, Exists
    <2> QED
      BY <2>1, <2>2
  <1>7. changes["customers"] = IF NoCustomer THEN {NewChange(c, "c", CustomerRow, lsn + n)} ELSE {}
    BY DEF OrderChanges
  <1>8. /\ \A f \in changes["customers"] :
             f.op \in UpsertOps /\ f.key = c /\ f.lsn = lsn + n
        /\ NoCustomer => changes["customers"] # {}
    <2> HIDE DEF changes, n
    <2>1. LET f == NewChange(c, "c", CustomerRow, lsn + n)
          IN  f.op \in UpsertOps /\ f.key = c /\ f.lsn = lsn + n
      BY DEF NewChange, UpsertOps
    <2> QED
      BY <1>7, <2>1
  <1>9. \A k \in Customers : rows["customers"][k] # NoRow =>
          \/ Exists("customers", k)
          \/ \E f \in changes["customers"] : f.key = k /\ f.lsn = lsn + 1
    BY <1>3, <1>5, <1>8 DEF Exists
  <1>10. changes["orders"] = {NewChange(o, "c", Order(NoLines), lsn + n + 1),
                              NewChange(o, "u", Order(qty), lsn + n + 3)}
    BY DEF OrderChanges
  <1>11. \A w \in changes["orders"] : w.img.customer = c /\ w.lsn > lsn + n
    BY <1>3, <1>10 DEF NewChange
  <1>12. \A w \in changes["orders"] :
           /\ w.lsn > lsn /\ w.img.customer \in Customers
           /\ \/ Exists("customers", w.img.customer)
              \/ \E f \in changes["customers"] : f.key = w.img.customer /\ f.lsn < w.lsn
    <2> HIDE DEF changes, n
    <2>1. ASSUME NEW w \in changes["orders"]
          PROVE  w.lsn > lsn
      <3>1. w.lsn \in Nat
        BY <1>4, TablesFacts DEF Change
      <3> QED
        BY <1>3, <1>11, <3>1
    <2> QED
      BY <1>3, <1>8, <1>11, <2>1
  <1>13. n + 3 \in Nat \ {0}
    BY <1>3
  <1> HIDE DEF rows, changes, n
  <1> QED
    BY <1>3, <1>4, <1>6, <1>8, <1>9, <1>12, <1>13, TransactionReference DEF Streamed

(* An order that changes keeps its customer, and an order that is deleted
   refers to none.                                                         *)
LEMMA OrderReference ==
    ASSUME SourceTypeOK, ReferenceInv, NEW o \in Orders, NEW rows, NEW changes,
           NEW n \in Nat \ {0}, Transaction(rows, changes, n),
           \A t \in Tables : changes[t] \subseteq Change(t),
           rows["customers"] = db["customers"], changes["customers"] = {},
           \A k \in Orders \ {o} : rows["orders"][k] = db["orders"][k],
           rows["orders"][o] # NoRow =>
              /\ Exists("orders", o)
              /\ rows["orders"][o].customer = db["orders"][o].customer,
           \A w \in Streamed(changes["orders"]) :
              /\ w.lsn > lsn /\ Exists("orders", o)
              /\ w.img.customer = db["orders"][o].customer
    PROVE  ReferenceInv'
  <1>1. Exists("orders", o) => /\ db["orders"][o].customer \in Customers
                               /\ Exists("customers", db["orders"][o].customer)
    BY RowFacts, TablesFacts DEF SourceTypeOK, AllKeys, Images, ReferenceInv, OrdersHaveCustomers
  <1>2. \A k \in Orders : rows["orders"][k] # NoRow =>
          rows["customers"][rows["orders"][k].customer] # NoRow
    BY <1>1 DEF ReferenceInv, OrdersHaveCustomers, Exists
  <1>3. \A c \in Customers : rows["customers"][c] # NoRow => Exists("customers", c)
    BY DEF Exists
  <1> QED
    BY <1>1, <1>2, <1>3, TransactionReference

LEMMA ProgressOrderReference ==
    ASSUME SourceTypeOK, ReferenceInv, NEW o \in Orders, ProgressOrder(o)
    PROVE  ReferenceInv'
  <1>1. /\ db["orders"][o] \in Images["orders"]
        /\ DOMAIN db["orders"] = AllKeys /\ o \in AllKeys /\ lsn \in Nat
    BY RowFacts, TablesFacts DEF ProgressOrder, SourceTypeOK, AllKeys
  <1>2. PICK new \in StatusFlow[db["orders"][o].status] :
          ProgressOrder(o)!3!(new)
    BY DEF ProgressOrder
  <1> DEFINE img == [db["orders"][o] EXCEPT !.status = new]
             rows == [db EXCEPT !["orders"][o] = img]
             changes == [customers |-> {}, order_items |-> {},
                         orders |-> {NewChange(o, "u", img, lsn + 1)}]
  <1>3. Transaction(rows, changes, 1) /\ Exists("orders", o)
    BY <1>2 DEF ProgressOrder
  <1>4. img.customer = db["orders"][o].customer
    BY <1>1 DEF Images
  <1>5. /\ rows["customers"] = db["customers"] /\ changes["customers"] = {}
        /\ rows["orders"] = [db["orders"] EXCEPT ![o] = img]
    BY TablesFacts DEF SourceTypeOK
  <1>6. \A t \in Tables : changes[t] \subseteq Change(t)
    <2>1. img \in Row("orders")
      BY <1>1, ProgressOrderImage DEF ProgressOrder
    <2> QED
      BY <1>1, <2>1, TablesFacts, OpsFacts, NewChangeType
  <1>7. \A w \in changes["orders"] :
          w.lsn > lsn /\ w.img.customer = db["orders"][o].customer
    <2> HIDE DEF img
    <2> QED
      BY <1>1, <1>4 DEF NewChange
  <1>8. /\ \A k \in Orders \ {o} : rows["orders"][k] = db["orders"][k]
        /\ rows["orders"][o] # NoRow =>
             /\ Exists("orders", o)
             /\ rows["orders"][o].customer = db["orders"][o].customer
    <2> HIDE DEF img
    <2> QED
      BY <1>1, <1>3, <1>4, <1>5 DEF AllKeys
  <1>9. \A w \in Streamed(changes["orders"]) :
          /\ w.lsn > lsn /\ Exists("orders", o)
          /\ w.img.customer = db["orders"][o].customer
    BY <1>3, <1>7 DEF Streamed
  <1> HIDE DEF rows, changes, img
  <1> QED
    <2>1. rows["customers"] = db["customers"] /\ changes["customers"] = {}
      BY <1>5
    <2> QED
      BY <1>1, <1>3, <1>6, <1>8, <1>9, <2>1, OrderReference

LEMMA UpdateItemQuantityReference ==
    ASSUME SourceTypeOK, ReferenceInv, NEW i \in Items, UpdateItemQuantity(i)
    PROVE  ReferenceInv'
  <1> DEFINE o == OrderOf[i]
  <1>1. /\ o \in Orders /\ o \in AllKeys /\ i \in AllKeys
        /\ db["order_items"][i] \in Images["order_items"]
        /\ db["orders"][o] \in Images["orders"]
        /\ db["order_items"] \in [AllKeys -> Row("order_items")]
        /\ DOMAIN db["orders"] = AllKeys /\ lsn \in Nat
    BY RowFacts, TablesFacts DEF UpdateItemQuantity, SourceTypeOK, AllKeys
  <1>2. PICK q \in Quantities : UpdateItemQuantity(i)!3!(q)
    BY DEF UpdateItemQuantity
  <1> DEFINE item == [db["order_items"][i] EXCEPT !.quantity = q]
             items == [db["order_items"] EXCEPT ![i] = item]
             order == [db["orders"][o] EXCEPT !.total = LinesOf(items, o)]
             rows == [db EXCEPT !["order_items"] = items, !["orders"][o] = order]
             changes == [customers |-> {},
                         order_items |-> {NewChange(i, "u", item, lsn + 1)},
                         orders |-> {NewChange(o, "u", order, lsn + 2)}]
  <1>3. Transaction(rows, changes, 2) /\ Exists("orders", o)
    BY <1>2 DEF UpdateItemQuantity
  <1>4. order.customer = db["orders"][o].customer
    BY <1>1 DEF Images
  <1>5. /\ rows["customers"] = db["customers"] /\ changes["customers"] = {}
        /\ rows["orders"] = [db["orders"] EXCEPT ![o] = order]
    BY TablesFacts DEF SourceTypeOK
  <1>6. \A t \in Tables : changes[t] \subseteq Change(t)
    <2>1. item \in Row("order_items") /\ order \in Row("orders")
      BY <1>1, ItemImage
    <2>2. NewChange(i, "u", item, lsn + 1) \in Change("order_items")
      BY <1>1, <2>1, TablesFacts, OpsFacts, NewChangeType
    <2>3. NewChange(o, "u", order, lsn + 2) \in Change("orders")
      BY <1>1, <2>1, TablesFacts, OpsFacts, NewChangeType
    <2> HIDE DEF item, order
    <2> QED
      BY <2>2, <2>3, TablesFacts
  <1>7. \A w \in changes["orders"] :
          w.lsn > lsn /\ w.img.customer = db["orders"][o].customer
    <2> HIDE DEF order, o
    <2> QED
      BY <1>1, <1>4 DEF NewChange
  <1>8. /\ \A k \in Orders \ {o} : rows["orders"][k] = db["orders"][k]
        /\ rows["orders"][o] # NoRow =>
             /\ Exists("orders", o)
             /\ rows["orders"][o].customer = db["orders"][o].customer
    <2> HIDE DEF order
    <2> QED
      BY <1>1, <1>3, <1>4, <1>5 DEF AllKeys
  <1>9. \A w \in Streamed(changes["orders"]) :
          /\ w.lsn > lsn /\ Exists("orders", o)
          /\ w.img.customer = db["orders"][o].customer
    BY <1>3, <1>7 DEF Streamed
  <1> HIDE DEF rows, changes, order, o
  <1> QED
    <2>1. rows["customers"] = db["customers"] /\ changes["customers"] = {}
      BY <1>5
    <2> QED
      BY <1>1, <1>3, <1>6, <1>8, <1>9, <2>1, OrderReference

LEMMA DeleteOrderReference ==
    ASSUME SourceTypeOK, ReferenceInv, NEW o \in Orders, DeleteOrder(o)
    PROVE  ReferenceInv'
  <1> DEFINE lines == {i \in ItemsOf(o) : Exists("order_items", i)}
             Gone(k, l) == {NewChange(k, "d", NoRow, l), NewChange(k, "tombstone", NoRow, l + 1)}
             rows == [db EXCEPT !["orders"][o] = NoRow,
                                !["order_items"] =
                                   [i \in AllKeys |-> IF i \in lines THEN NoRow
                                                       ELSE db["order_items"][i]]]
             changes == [customers |-> {},
                         order_items |-> UNION {Gone(i, lsn + 1) : i \in lines},
                         orders |-> Gone(o, lsn + 3)]
  <1>1. Transaction(rows, changes, 4)
    BY DEF DeleteOrder
  <1>2. /\ rows["customers"] = db["customers"] /\ changes["customers"] = {}
        /\ rows["orders"] = [db["orders"] EXCEPT ![o] = NoRow]
        /\ DOMAIN db["orders"] = AllKeys /\ lsn \in Nat
    BY TablesFacts DEF SourceTypeOK
  <1>3. \A t \in Tables : changes[t] \subseteq Change(t)
    <2>1. lines \subseteq Items /\ lsn + 1 \in Nat /\ lsn + 3 \in Nat
      BY <1>2 DEF ItemsOf
    <2>2. \A t \in Tables : \A k \in Keys[t], l \in Nat : Gone(k, l) \subseteq Change(t)
      BY RowFacts, OpsFacts, NewChangeType
    <2> HIDE DEF lines, Gone
    <2> QED
      BY <2>1, <2>2, TablesFacts
  <1>4. Streamed(changes["orders"]) = {}
    BY DEF Streamed, NewChange
  <1>5. rows["orders"][o] = NoRow /\ \A k \in Orders \ {o} : rows["orders"][k] = db["orders"][k]
    BY <1>2 DEF AllKeys
  <1> HIDE DEF rows, changes
  <1> QED
    <2>1. rows["customers"] = db["customers"] /\ changes["customers"] = {}
      BY <1>2
    <2>2. \A k \in Orders \ {o} : rows["orders"][k] = db["orders"][k]
      BY <1>5
    <2>3. rows["orders"][o] # NoRow =>
            /\ Exists("orders", o)
            /\ rows["orders"][o].customer = db["orders"][o].customer
      BY <1>5
    <2>4. \A w \in Streamed(changes["orders"]) :
            /\ w.lsn > lsn /\ Exists("orders", o)
            /\ w.img.customer = db["orders"][o].customer
      BY <1>4
    <2> QED
      BY <1>1, <1>3, <2>1, <2>2, <2>3, <2>4, OrderReference

(***************************************************************************)
(* The connector publishes the oldest change of the log, so when it comes  *)
(* to an order, nothing older is left, and the customer is visible.        *)
(***************************************************************************)
LEMMA PublishReference ==
    ASSUME SourceTypeOK, ReferenceInv, OrderedPublish, NEW t \in Tables, Publish(t)
    PROVE  ReferenceInv'
  <1>1. PICK c \in wal[t], g \in TsGaps : Publish(t)!(c, g)
    BY DEF Publish
  <1> DEFINE event == [key |-> c.key, op |-> c.op, img |-> c.img, lsn |-> c.lsn,
                       ts |-> clock[t] + g]
  <1>2. /\ wal' = [wal EXCEPT ![t] = @ \ {c}]
        /\ topic' = [topic EXCEPT ![t] = @ \cup {event}]
        /\ UNCHANGED <<db, lsn, aged>>
        /\ \A u \in Tables : \A w \in wal[u] : c.lsn <= w.lsn
    BY <1>1
  <1>3. /\ DOMAIN wal = Tables /\ DOMAIN topic = Tables /\ lsn \in Nat
        /\ \A u \in Tables : \A w \in wal[u] : w.lsn \in Nat
    BY DEF SourceTypeOK, Change
  <1>4. /\ event.key = c.key /\ event.op = c.op /\ event.img = c.img
    OBVIOUS
  <1> HIDE DEF event
  <1>5. \A k : CustomerVisible(k) => CustomerVisible(k)'
    BY VisibleStays DEF SourceNext
  <1> DEFINE After(k, l) ==
               CustomerVisible(k)' \/ \E f \in wal'["customers"] : f.key = k /\ f.lsn < l
  <1>6. ASSUME NEW k, NEW l, VisibleBefore(k, l)
        PROVE  After(k, l)
    <2>1. CASE CustomerVisible(k)
      BY <1>5, <2>1
    <2>2. ASSUME NEW f \in wal["customers"], f.key = k, f.lsn < l
          PROVE  After(k, l)
      <3>1. CASE f = c /\ t = "customers"
        <4>1. event \in topic'["customers"] /\ event.key = k
          BY <1>2, <1>3, <1>4, <2>2, <3>1
        <4> QED
          BY <4>1 DEF CustomerVisible
      <3>2. CASE ~(f = c /\ t = "customers")
        BY <1>2, <1>3, <2>2, <3>2, TablesFacts
      <3> QED
        BY <3>1, <3>2
    <2> QED
      BY <1>6, <2>1, <2>2 DEF VisibleBefore
  <1>7. CustomersStay'
    <2>1. wal'["customers"] \subseteq wal["customers"]
      BY <1>2, <1>3, TablesFacts
    <2>2. CASE t = "customers"
      <3>1. topic'["customers"] = topic["customers"] \cup {event}
        BY <1>2, <1>3, <2>2
      <3> QED
        BY <1>2, <1>4, <2>1, <2>2, <3>1 DEF ReferenceInv, CustomersStay
    <2>3. CASE t # "customers"
      <3>1. topic'["customers"] = topic["customers"]
        BY <1>2, <1>3, <2>3, TablesFacts
      <3> QED
        BY <1>2, <2>1, <3>1 DEF ReferenceInv, CustomersStay
    <2> QED
      BY <2>2, <2>3
  <1>8. OrdersHaveCustomers'
    BY <1>2 DEF ReferenceInv, OrdersHaveCustomers, Exists
  <1>9. \A k \in Customers : Exists("customers", k)' => VisibleBefore(k, lsn + 1)'
    BY <1>2, <1>6 DEF ReferenceInv, Exists, VisibleBefore
  <1>10. \A w \in Streamed(wal["orders"])' : VisibleBefore(w.img.customer, w.lsn)'
    <2>1. wal'["orders"] \subseteq wal["orders"]
      BY <1>2, <1>3, TablesFacts
    <2>2. \A w \in Streamed(wal'["orders"]) : After(w.img.customer, w.lsn)
      BY <1>6, <2>1 DEF ReferenceInv, Streamed
    <2> QED
      BY <2>2 DEF VisibleBefore, Streamed
  <1>11. ASSUME NEW e \in topic'["orders"], e.op \in {"c", "u"}
         PROVE  CustomerVisible(e.img.customer)'
    <2>1. CASE e \in topic["orders"]
      BY <1>5, <1>11, <2>1 DEF ReferenceInv, Streamed
    <2>2. CASE e = event /\ t = "orders"
      <3>1. VisibleBefore(c.img.customer, c.lsn)
        BY <1>4, <1>11, <2>2 DEF ReferenceInv, Streamed
      <3>2. \A f \in wal["customers"] : ~(f.lsn < c.lsn)
        BY <1>2, <1>3, TablesFacts
      <3> QED
        BY <1>4, <1>5, <2>2, <3>1, <3>2 DEF VisibleBefore
    <2> QED
      BY <1>2, <1>3, <1>11, <2>1, <2>2, TablesFacts
  <1> QED
    BY <1>7, <1>8, <1>9, <1>10, <1>11 DEF ReferenceInv, Streamed

(* The snapshot of a restart holds every customer, and no streamed order. *)
LEMMA ConnectorRestartReference ==
    ASSUME SourceTypeOK, ReferenceInv, ConnectorRestart
    PROVE  ReferenceInv'
  <1>1. PICK skipped \in BOOLEAN :
          wal' = [t \in Tables |->
                    (IF skipped THEN {} ELSE wal[t]) \cup SnapshotEvents(t, db, lsn + 1)]
    BY DEF ConnectorRestart
  <1>2. lsn \in Nat /\ lsn' = lsn + 1 /\ db' = db /\ topic' = topic /\ aged' = aged
    BY DEF ConnectorRestart, SourceTypeOK
  <1> DEFINE kept(t) == IF skipped THEN {} ELSE wal[t]
             snap(t) == SnapshotEvents(t, db, lsn + 1)
  <1>3. /\ wal'["orders"] = kept("orders") \cup snap("orders")
        /\ wal'["customers"] = kept("customers") \cup snap("customers")
        /\ kept("orders") \subseteq wal["orders"]
        /\ kept("customers") \subseteq wal["customers"]
        /\ kept("orders") # {} => kept("customers") = wal["customers"]
    BY <1>1, TablesFacts
  <1>4. /\ \A f \in snap("orders") \cup snap("customers") : f.op = "r" /\ f.lsn = lsn + 1
        /\ \A c \in Customers : Exists("customers", c) =>
              \E f \in snap("customers") : f.key = c
    BY TablesFacts, SnapshotFacts DEF Exists
  <1> HIDE DEF kept, snap
  <1>5. CustomersStay'
    BY <1>2, <1>3, <1>4 DEF ReferenceInv, CustomersStay, UpsertOps
  <1>6. OrdersHaveCustomers'
    BY <1>2 DEF ReferenceInv, OrdersHaveCustomers, Exists
  <1>7. ASSUME NEW c \in Customers, Exists("customers", c)
        PROVE  \E f \in wal'["customers"] : f.key = c /\ f.lsn < lsn' + 1
    <2>1. PICK f \in snap("customers") : f.key = c
      BY <1>4, <1>7
    <2>2. f.lsn < lsn' + 1 /\ f \in wal'["customers"]
      BY <1>2, <1>3, <1>4, <2>1
    <2> QED
      BY <2>1, <2>2
  <1>8. \A c \in Customers : Exists("customers", c)' => VisibleBefore(c, lsn + 1)'
    BY <1>2, <1>7 DEF VisibleBefore, Exists
  <1>9. \A w \in Streamed(wal'["orders"]) :
          w \in Streamed(wal["orders"]) /\ wal["customers"] \subseteq wal'["customers"]
    BY <1>3, <1>4 DEF Streamed
  <1>10. \A w \in Streamed(wal["orders"])' : VisibleBefore(w.img.customer, w.lsn)'
    BY <1>2, <1>9 DEF ReferenceInv, VisibleBefore, CustomerVisible, Streamed
  <1>11. \A e \in Streamed(topic["orders"])' : CustomerVisible(e.img.customer)'
    BY <1>2 DEF ReferenceInv, CustomerVisible, Streamed
  <1> QED
    BY <1>5, <1>6, <1>8, <1>10, <1>11 DEF ReferenceInv

(* The log cleaner and retention make no record visible. *)
LEMMA RemovalReference ==
    ASSUME SourceTypeOK, ReferenceInv, NEW t \in Tables, Compact(t) \/ Expire(t)
    PROVE  ReferenceInv'
  <1>1. db' = db /\ lsn' = lsn /\ wal' = wal
    BY DEF Compact, Expire
  <1>2. \A u \in Tables : /\ topic'[u] \subseteq topic[u]
                          /\ topic'[u] \cup aged'[u] \subseteq topic[u] \cup aged[u]
    <2>1. CASE Expire(t)
      BY <2>1, ExpireFacts
    <2>2. CASE Compact(t)
      <3>1. PICK e \in topic[t] : topic' = [topic EXCEPT ![t] = @ \ {e}]
        BY <2>2 DEF Compact
      <3>2. aged' = aged /\ DOMAIN topic = Tables
        BY <2>2 DEF Compact, SourceTypeOK
      <3> QED
        BY <3>1, <3>2
    <2> QED
      BY <2>1, <2>2
  <1>3. \A k : CustomerVisible(k) => CustomerVisible(k)'
    BY VisibleStays DEF SourceNext
  <1>4. CustomersStay' /\ OrdersHaveCustomers'
    BY <1>1, <1>2, TablesFacts DEF ReferenceInv, CustomersStay, OrdersHaveCustomers, Exists
  <1>5. \A k \in Customers : Exists("customers", k)' => VisibleBefore(k, lsn + 1)'
    BY <1>1, <1>3 DEF ReferenceInv, VisibleBefore, Exists
  <1>6. \A w \in Streamed(wal["orders"])' : VisibleBefore(w.img.customer, w.lsn)'
    BY <1>1, <1>3 DEF ReferenceInv, VisibleBefore, Streamed
  <1>7. \A x \in Streamed(topic["orders"])' : CustomerVisible(x.img.customer)'
    BY <1>2, <1>3, TablesFacts DEF ReferenceInv, Streamed
  <1> QED
    BY <1>4, <1>5, <1>6, <1>7 DEF ReferenceInv

(***************************************************************************)
(* Whatever the database, a connector that publishes in log order, its     *)
(* restarts, the log cleaner and retention do, a streamed order is never   *)
(* visible before its customer was.                                        *)
(***************************************************************************)
LEMMA ReferenceNext ==
    ASSUME SourceTypeOK, ReferenceInv, OrderedPublish, [SourceNext]_sourceVars
    PROVE  ReferenceInv'
  <1>1. CASE UNCHANGED sourceVars
    BY <1>1 DEF sourceVars, ReferenceInv, CustomersStay, OrdersHaveCustomers, VisibleBefore,
       CustomerVisible, Streamed, Exists
  <1>2. CASE SourceNext
    BY <1>2, CreateCustomerReference, CreateOrderReference, ProgressOrderReference,
       DeleteOrderReference, UpdateItemQuantityReference, PublishReference,
       RemovalReference, ConnectorRestartReference DEF SourceNext
  <1> QED
    BY <1>1, <1>2
=============================================================================
