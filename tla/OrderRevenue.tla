----------------------------- MODULE OrderRevenue -----------------------------
(***************************************************************************)
(* The hot path: the PyFlink job order-revenue, which reads the topic      *)
(* debezium.public.orders, counts the row versions whose updated_at falls  *)
(* in each one-minute window, and writes one record per closed window to   *)
(* gold.order-revenue-1m.  The Flink operators are external: what they do  *)
(* is modelled as the job configures them.                                 *)
(*                                                                         *)
(* A row version is an order and the updated_at it had.  COUNT and SUM are *)
(* represented by how often each version was added, less how often it was  *)
(* retracted.                                                              *)
(***************************************************************************)
EXTENDS Integers, SequencesExt, FiniteSetsExt

CONSTANTS
    Orders, Partitions,
    PartitionOf,    \* [Orders -> Partitions]: the key decides the partition
    Width, Delay,   \* the window (1 minute) and the watermark delay (5 seconds)
    Skew,           \* how far a transaction's NOW() lags behind its commit
    Busy,           \* partitions that never stay silent for the idle timeout
    MaxTime, MaxRecords, MaxCheckpoints, MaxRestarts, MaxSnapshots,
    MaxRemovals     \* bounds; a restart is a failure or an upgrade, a removal
                    \* one of compaction or of retention

ASSUME RevenueAssumption ==
    /\ IsFiniteSet(Orders)
    /\ PartitionOf \in [Orders -> Partitions]
    /\ Width \in Nat \ {0} /\ {Delay, Skew} \subseteq Nat
    /\ Busy \subseteq Partitions
    /\ {MaxTime, MaxRecords, MaxCheckpoints, MaxRestarts, MaxSnapshots,
        MaxRemovals} \subseteq Nat

None == -1                          \* no such row; nothing seen yet
Times == 0..MaxTime
Versions == Orders \X Times
Windows == 0..(MaxTime \div Width)
WindowOf(t) == t \div Width

(* debezium-json: an update retracts its before image and adds its after. *)
Record == [order : Orders, before : Times \cup {None}, after : Times \cup {None},
           gone : BOOLEAN]

VARIABLES
    now,        \* wall clock of the database
    row,        \* [Orders -> updated_at of the row, or None]
    log,        \* [Partitions -> Seq(Record)]: the topic
    job,        \* the running job, see NewJob
    checkpoint, \* [offset, acc]: what a restored job starts from
    out,        \* the records of gold.order-revenue-1m
    late,       \* <<partition, offset>> of the rows dropped as late, ever
    done        \* [bounded event -> how often it happened]

vars == <<now, row, log, job, checkpoint, out, late, done>>

NoVersions == [v \in Versions |-> 0]

(* Mutation of Earliest: offsets counted from one. *)
FirstOffset == [p \in Partitions |-> 1]

Earliest == [p \in Partitions |-> 0]
Fresh == [offset |-> Earliest, acc |-> NoVersions]

(* Mutation of NewJob: the offsets are restored, the window state is not. *)
LoseState(c, life) ==
    [offset |-> c.offset, acc |-> NoVersions, life |-> life,
     seen |-> [p \in Partitions |-> None], idle |-> {}, wm |-> None - Delay]

(* A job that starts from state c: watermarks and idleness start afresh. *)
NewJob(c, life) ==
    [offset |-> c.offset, acc |-> c.acc, life |-> life,
     seen |-> [p \in Partitions |-> None],     \* latest updated_at by partition
     idle |-> {},                              \* partitions marked idle
     wm |-> None - Delay]                      \* watermark of the window operator

Once(event, bound) ==
    /\ done[event] < bound
    /\ done' = [done EXCEPT ![event] = @ + 1]

Events == {"record", "checkpoint", "restart", "snapshot", "removal"}

Init ==
    /\ now = 0
    /\ row = [o \in Orders |-> None]
    /\ log = [p \in Partitions |-> << >>]
    /\ job = NewJob(Fresh, 0)
    /\ checkpoint = Fresh
    /\ out = << >>
    /\ late = {}
    /\ done = [e \in Events |-> 0]

----------------------------------------------------------------------------
(* The topic. *)

Tick ==
    /\ now < MaxTime
    /\ now' = now + 1
    /\ UNCHANGED <<row, log, job, checkpoint, out, late, done>>

Entry(o, before, after) ==
    [order |-> o, before |-> before, after |-> after, gone |-> FALSE]

(* A transaction inserts, updates or deletes an order and its change is
   published; updated_at is the NOW() of the transaction.                *)
ChangeOrder(o) ==
    /\ Once("record", MaxRecords)
    /\ \E after \in {t \in Times : now - Skew <= t /\ t <= now} \cup {None} :
         /\ row[o] # None \/ (after # None /\ \A i \in DOMAIN log[PartitionOf[o]] :
                                                  log[PartitionOf[o]][i].order # o)
         /\ row' = [row EXCEPT ![o] = after]
         /\ log' = [log EXCEPT ![PartitionOf[o]] = Append(@, Entry(o, row[o], after))]
    /\ UNCHANGED <<now, job, checkpoint, out, late>>

(* The connector restarts and snapshots again: every row comes as an insert. *)
Snapshot ==
    /\ Once("snapshot", MaxSnapshots)
    /\ log' = [p \in Partitions |->
                 log[p] \o SetToSeq({Entry(o, None, row[o]) :
                     o \in {x \in Orders : PartitionOf[x] = p /\ row[x] # None}})]
    /\ UNCHANGED <<now, row, job, checkpoint, out, late>>

(* cleanup.policy compact,delete: a record that a later one supersedes
   disappears ...                                                        *)
Compact(p) ==
    /\ Once("removal", MaxRemovals)
    /\ \E i, j \in DOMAIN log[p] :
         /\ i < j /\ log[p][i].order = log[p][j].order /\ ~log[p][i].gone
         /\ log' = [log EXCEPT ![p][i].gone = TRUE]
    /\ UNCHANGED <<now, row, job, checkpoint, out, late>>

(* ... and the oldest one does when it is seven days old, read or not. *)
Expire(p) ==
    /\ Once("removal", MaxRemovals)
    /\ \E i \in DOMAIN log[p] :
         /\ ~log[p][i].gone /\ \A j \in 1..i - 1 : log[p][j].gone
         /\ log' = [log EXCEPT ![p][i].gone = TRUE]
    /\ UNCHANGED <<now, row, job, checkpoint, out, late>>

----------------------------------------------------------------------------
(* The job. *)

(* A window is closed when the watermark has reached its last instant ... *)
Closed(w, wm) == (w + 1) * Width - 1 <= wm

(* Mutation of OnTime: a late row opens its window again. *)
AnyRow(t) == t # None

(* ... and a row of a closed window is late, and dropped. *)
OnTime(t) == t # None /\ ~Closed(WindowOf(t), job.wm)

(* Mutation of Changes: the retraction is accepted late, like an upsert. *)
LateRetraction(r, v) ==
    (IF v = <<r.order, r.after>> /\ OnTime(r.after) THEN 1 ELSE 0)
    - (IF v = <<r.order, r.before>> THEN 1 ELSE 0)

(* What a record adds to the count of version v. *)
Changes(r, v) ==
    (IF v = <<r.order, r.after>> /\ OnTime(r.after) THEN 1 ELSE 0)
    - (IF v = <<r.order, r.before>> /\ OnTime(r.before) THEN 1 ELSE 0)

(* Read the next record of a partition; one that was removed is skipped. *)
Consume(p) ==
    /\ job.offset[p] < Len(log[p])
    /\ LET i == job.offset[p] + 1
           r == log[p][i]
       IN  IF r.gone
           THEN /\ job' = [job EXCEPT !.offset = [job.offset EXCEPT ![p] = i]]
                /\ late' = late
           ELSE /\ job' = [job EXCEPT
                             !.offset = [job.offset EXCEPT ![p] = i],
                             !.acc = [v \in Versions |-> job.acc[v] + Changes(r, v)],
                             !.seen = [job.seen EXCEPT ![p] = Max({@, r.before, r.after})],
                             !.idle = @ \ {p}]
                /\ late' = IF r.after = None \/ OnTime(r.after) THEN late
                           ELSE late \cup {<<p, i>>}
    /\ UNCHANGED <<now, row, log, checkpoint, out, done>>

(* Mutation of SilentPartitions: no scan.watermark.idle-timeout. *)
NoIdleTimeout == {}

SilentPartitions == {p \in Partitions \ Busy : job.offset[p] = Len(log[p])}

(* scan.watermark.idle-timeout: nothing came from the partition for 30 s. *)
MarkIdle(p) ==
    /\ p \in SilentPartitions \ job.idle
    /\ job' = [job EXCEPT !.idle = @ \cup {p}]
    /\ UNCHANGED <<now, row, log, checkpoint, out, late, done>>

InWindow(w) == {v \in Versions : WindowOf(v[2]) = w}
Total(acc, S) == MapThenSumSet(LAMBDA v : acc[v], S)
OrderCount(acc, w) == Total(acc, InWindow(w))

(* The record of a window: what it counted. *)
Result(w) == [window |-> w, life |-> job.life,
              count |-> [v \in InWindow(w) |-> job.acc[v]]]

(* Firing a window clears its state. *)
StateAfter(wm) == [v \in Versions |-> IF Closed(WindowOf(v[2]), wm) THEN 0 ELSE job.acc[v]]

(* The periodic watermark, the least of the partitions that are not idle,
   fires the windows it closes, oldest first; one that counts nothing is
   not emitted.                                                          *)
EmitWatermark ==
    /\ Partitions # job.idle
    /\ LET wm == Min({job.seen[p] : p \in Partitions \ job.idle}) - Delay
           fired == {w \in Windows : Closed(w, wm) /\ OrderCount(job.acc, w) # 0}
       IN  /\ wm > job.wm
           /\ job' = [job EXCEPT !.wm = wm, !.acc = StateAfter(wm)]
           /\ \E q \in SetToSeqs(fired) :
                 /\ \A i, j \in DOMAIN q : i < j => q[i] < q[j]
                 /\ out' = out \o [i \in DOMAIN q |-> Result(q[i])]
    /\ UNCHANGED <<now, row, log, checkpoint, late, done>>

(* Every 60 s: offsets and window state, consistently. *)
Checkpoint ==
    /\ Once("checkpoint", MaxCheckpoints)
    /\ checkpoint' = [offset |-> job.offset, acc |-> job.acc]
    /\ UNCHANGED <<now, row, log, job, out, late>>

(* The job fails and is restored from its last checkpoint.  What the sink
   wrote since stays in the topic (its delivery guarantee is the default,
   at least once).                                                       *)
Fail ==
    /\ Once("restart", MaxRestarts)
    /\ job' = NewJob(checkpoint, job.life + 1)
    /\ UNCHANGED <<now, row, log, checkpoint, out, late>>

(* upgradeMode stateless, scan.startup.mode earliest-offset. *)
Upgrade ==
    /\ Once("restart", MaxRestarts)
    /\ job' = NewJob(Fresh, job.life + 1)
    /\ checkpoint' = Fresh
    /\ UNCHANGED <<now, row, log, out, late>>

Next ==
    \/ Tick \/ Snapshot
    \/ \E o \in Orders : ChangeOrder(o)
    \/ \E p \in Partitions : Compact(p) \/ Expire(p) \/ Consume(p) \/ MarkIdle(p)
    \/ EmitWatermark \/ Checkpoint \/ Fail \/ Upgrade

(* The job keeps polling, its idle timers and periodic watermarks fire. *)
Fairness ==
    /\ \A p \in Partitions : WF_vars(Consume(p)) /\ WF_vars(MarkIdle(p))
    /\ WF_vars(EmitWatermark)

Spec == Init /\ [][Next]_vars /\ Fairness

----------------------------------------------------------------------------
(* Properties. *)

(* Every variable holds what the code may put in it. *)
TypeOK ==
    /\ now \in Times
    /\ row \in [Orders -> Times \cup {None}]
    /\ \A p \in Partitions : log[p] \in Seq(Record)
    /\ job.acc \in [Versions -> Int] /\ job.idle \subseteq Partitions
    /\ job.seen \in [Partitions -> Times \cup {None}]
    /\ \A p \in Partitions : {job.offset[p], checkpoint.offset[p]} \subseteq 0..Len(log[p])
    /\ checkpoint.acc \in [Versions -> Int]
    /\ \A i \in DOMAIN out : out[i].window \in Windows
    /\ done \in [Events -> Nat]

(***************************************************************************)
(* Between two restarts the job writes at most one record per window, in   *)
(* the order of window_end, whatever comes late, twice or not at all.      *)
(***************************************************************************)
InOrderWithinALife ==
    \A i, j \in DOMAIN out :
        i < j /\ out[i].life = out[j].life => out[i].window < out[j].window

(***************************************************************************)
(* A record counts a row version once or not at all: a version that was    *)
(* dropped as late is never retracted, one that was counted is retracted   *)
(* at most once (job.py: "counts net live orders per window").             *)
(***************************************************************************)
CountsVersionsOnce ==
    \A i \in DOMAIN out : \A v \in DOMAIN out[i].count : out[i].count[v] \in {0, 1}

(* No record takes a row version of window w back. *)
NothingRetracted(w) ==
    \A p \in Partitions : \A i \in DOMAIN log[p] : WindowOf(log[p][i].before) # w

(***************************************************************************)
(* At least once: when the watermark has closed a window of which nothing  *)
(* was retracted, every row of it that was read is counted by some record, *)
(* unless it came late: no failure, upgrade, second snapshot or removal of *)
(* other records loses it.  (A record that was removed itself is not there *)
(* to be read again after a restore.  And a retraction that is accepted    *)
(* after a restore may cancel other rows of its window: see                *)
(* RewrittenWindowsAgree.)                                                 *)
(***************************************************************************)
NoOrderLost ==
    \A p \in Partitions : \A i \in 1..job.offset[p] :
        LET r == log[p][i]
            w == WindowOf(r.after)
        IN  r.after # None /\ ~r.gone /\ Closed(w, job.wm) /\ NothingRetracted(w) =>
                \/ <<p, i>> \in late
                \/ \E k \in DOMAIN out : /\ out[k].window = w
                                         /\ out[k].count[<<r.order, r.after>>] >= 1

(* Partition p holds a record that puts its watermark past window w. *)
Reached(p, w) ==
    \E i \in DOMAIN log[p] : ~log[p][i].gone /\ Closed(w, log[p][i].after - Delay)

(***************************************************************************)
(* docs/architecture.md: "an idle source cannot stall the pipeline": a     *)
(* window is closed once every partition that is not idle, and one at      *)
(* least, has gone past it.                                                *)
(***************************************************************************)
IdleSourceDoesNotStall ==
    \A w \in Windows :
        (/\ \E p \in Partitions : Reached(p, w)
         /\ \A p \in Busy : Reached(p, w))  ~>  Closed(w, job.wm)

(***************************************************************************)
(* gold-order-revenue.yaml: "one record per closed 1-minute window",       *)
(* "window results are naturally ordered by window_end".                   *)
(* This is so as long as the job is never restarted, whatever comes late.  *)
(***************************************************************************)
OneRecordPerWindow ==
    \A i, j \in DOMAIN out : i < j => out[i].window < out[j].window

----------------------------------------------------------------------------
(* What the documentation says and the code does not do. *)

(***************************************************************************)
(* cdc-orders contract: "exactly-once in Flink aggregates": at least, a    *)
(* window that is written again after a restore has the same aggregate.    *)
(***************************************************************************)
RewrittenWindowsAgree ==
    \A i, j \in DOMAIN out : out[i].window = out[j].window => out[i].count = out[j].count
=============================================================================
