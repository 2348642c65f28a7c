# A TLA+ model of the real-time lakehouse

This directory holds TLA+ modules for the parts of the real-time lakehouse whose
correctness depends on the order in which things happen: the CDC source, the batch
medallion pipeline, the lane of raw events, the quality gate and the DAG around it, the Flink
revenue job, the release promotion chain and the scripts that run batches.  TLC checks them
on small instances; TLAPS proves every safety property that they check, with the hypotheses
that section 4 names, for every instance.

    tlc -workers 2 -config Medallion_history.cfg MCMedallion.tla
    tlapm MedallionProofs.tla

Paths below are those of the repository.

## 1. The system

### Components, their state and their operations

| component | state | operations |
|---|---|---|
| Postgres shop database, `demo/generate_traffic.py` | customers, orders, order items | create customer, create order (with lines, one transaction), progress an order along `STATUS_FLOW`, change a line's quantity |
| Debezium connector, CDC topics (`pipelines/streaming/`) | log position, Kafka topics | initial snapshot, streaming, restart with `snapshot.mode: always`, compaction and retention |
| Bronze ingest (`01_bronze_ingest.py`) | `raw.cdc_*` and `raw.kafka_events`, append only | read a topic from earliest to latest, append all of it |
| Silver transform (`02_silver_transform.py`) | `silver.orders`, `silver.customers`, `silver.order_items` | latest upsert of each key, overwrite the partitions it touches |
| Gold (`03_gold_aggregate.py`, or the dbt models) | `gold.daily_revenue`, `gold.customer_metrics` | aggregate Silver; Spark overwrites partitions, dbt replaces tables |
| `run-batch.sh`, `run-quality-gate.sh` | Jobs and pods in Kubernetes, the scripts' own progress | delete, create and poll a Job by name; time out |
| Airflow DAG (`lakehouse_batch.py`) | the task of the present run | batch, dbt, gate, lineage, each in a pod; a failure ends the run |
| Quality gate (`runner.py`), alert `QualityGateFailed` | results per layer; the Pushgateway | checkpoints of Bronze, Silver and Gold, churn check, push metrics, exit 0 or 1 |
| Lineage registration (`register_lineage.py`) | run events in Marquez | post START and COMPLETE of each edge, stop at the first error |
| Flink job (`order-revenue/job.py`) | offsets, watermarks, window counts, checkpoints | consume a changelog, fire windows, checkpoint, restore, stateless upgrade |
| CI, CD, `promote.sh`, ArgoCD | main, clones of it, image tags of dev, staging and prod, sync operations | build, bump dev, promote a tag, open the prod gate, sync, smoke check |
| EL lane (`exchange_rates_loader.py`, topic `raw.events`) | the producer's buffer, the topic | fetch, send, flush, close; retention |
| Dashboards, other Prometheus rules, Trino, Nessie, MinIO, Terraform | none relevant here | configuration and display |

### How they interact

The source and the connector talk through Postgres' write-ahead log; the connector and both
lanes (Spark batch, Flink stream) through Kafka topics.  The batch steps share Iceberg
tables: each write is one atomic commit, but a batch is a sequence of seven or eight of
them, with nothing that holds them together.  Nothing locks the tables either, so the DAG
and the script's Job may run together.  The promotion scripts and CD share one git branch,
and reach the cluster only through ArgoCD's polling of that branch.  The scripts share
Kubernetes Jobs under fixed names.  The DAG's gate and the Job's gate read the same tables
and push to the same Pushgateway, from which, with the state of the Job, the alert is made.
The exchange-rates loader meets the batch only in the topic `raw.events`.

### What is hard to get right

* A batch dies between two commits, or runs while another one does.
* The connector restarts and snapshots every row again; compaction and retention remove
  records that were not read yet; timestamps tie.
* Partition overwrite: a row whose partition changes, or that stops having a partition,
  is not removed by it.
* Late rows and late retractions; idle partitions; a restore that fires windows again.
* Pushes refused because main moved; commits, index entries and edits that a script which
  stopped half way left in a clone; a gate that polls a phase from before its own request.
* A Job deleted and created again by somebody else between two polls; a script that times
  out while its Job goes on.
* A gate reads one layer after the other while tables change; a query, a push or a pod
  fails; two gates push in either order.
* `send()` only queues a row; a flush times out while the producer still retries; an
  acknowledgement is lost; retention removes between two reads of one batch.

### What makes each component correct

* *Silver* holds one row per key, the last write of it, and never moves back.
* *Gold* is what Silver implies, and reaches what the database holds.
* *The Flink job* counts each row version that is on time once, loses none, and closes
  every window once.
* *Promotion* is strict (dev, then staging, then prod), no push undoes another, prod moves
  only when the gate is opened, and what was promoted to staging lands there.
* *The events lane*: exit 0 of the loader means that its rows are in the topic; what a
  Bronze pass counted lands; every record lands or ages out.
* *The gate* exits 0 only on good tables, its metrics do not contradict each other, and the
  alert follows the state of the tables; a green run of the DAG has passed the gate and
  registered its lineage.
* *The scripts* report the outcome of the Job they created, keep one batch pod at a time,
  and end.

## 2. The modules

| module | models | extends |
|---|---|---|
| `CdcSource` | the database, the connector, the topics | |
| `Medallion` | Bronze, Silver, Gold and the drivers that run the batch | `CdcSource` |
| `LastWriteWinsView` | what a Silver table promises: an abstract specification | |
| `OrderRevenue` | the Flink job with its source topic | |
| `Promotion` | CI and CD, `promote.sh` in several clones, ArgoCD | |
| `BatchRuns` | the two scripts, their Jobs and pods | |
| `RawEvents` | the exchange-rates loader, `raw.events`, its Bronze pass and its suite | |
| `QualityGate` | `runner.py` in any number of pods, the Pushgateway, the alert | |
| `LakehouseDag` | a run of the DAG, `register_lineage.py` | `QualityGate` |
| `CdcSourceProofs`, `MedallionProofs`, `RawEventsProofs`, `LakehouseDagProofs`, `BatchRunsProofs`, `PromotionProofs`, `OrderRevenueProofs` | theorems | the module they are about |
| `MCMedallion`, `MCOrderRevenue`, `MCPromotion`, `MCBatchRuns`, `MCRawEvents`, `MCLakehouseDag` | values for TLC | the module they check |

Definitions marked *External* model services that are not in the repository (Debezium,
Flink, ArgoCD, Kubernetes, git) as far as the repository configures and uses them.
Definitions marked *Mutation* are plausible bugs; no specification uses them.  They show
that the property named with them in `PROJECT.json` can fail.

### CdcSource

One action per transaction of `generate_traffic.py` (`CreateCustomer`, `CreateOrder`,
`ProgressOrder`, `UpdateItemQuantity`), plus `DeleteOrder`, which the generator never does
but Postgres allows and the pipeline has code for.  A transaction writes its changes to
`wal` with consecutive log positions, so `CreateOrder` writes an insert with total 0, its
lines, and the update of the total.  `Publish` moves the oldest change of a table to its
topic and stamps it with `ts_ms`, a clock that never runs back but may stand still
(`TsGaps`).  `OrderedPublish` says whether events become visible in log order across topics
(one connector task, one producer, no retry) or within each topic only.  `ConnectorRestart`
is `snapshot.mode: always`; what had not been streamed either still comes or is covered by
the snapshot.  The topics say `cleanup.policy: compact,delete` with a retention of seven days:
`Compact` removes a record that a later record of its key supersedes, `Expire` the oldest
record of a key, superseded or not, read or not (a key stays in one partition, and which keys
share it is left open).  `aged` remembers what `Expire` removed, so that properties can say
what was lost unread; no step reads it.
Amounts are the lines they sum: equal totals sum equal lines.

### Medallion

A driver walks through `NextStep`: three ingests (`ingest_topic` in the order of `TOPICS`),
then a read and a write for each Silver table (`silver_orders`, `silver_customers`,
`silver_order_items`), then a read and a write for each Gold table.  Read and write are
separate steps because Spark and Trino read a snapshot of their inputs and commit later;
`held` is what was read.  `LatestPerKey` is the `row_number() = 1` of
`lakehouse_common.latest_per_key`: several results when timestamps tie.
`OverwritePartitions` is `overwritePartitions()`.  `OrderDays` is the left join that gives
an item the day of its order, or NULL.  `GoldCommit` is a partition overwrite for Spark and
a table replacement for dbt.  `Crash` drops a driver back to `idle` with nothing rolled
back.  Bronze is a set: whether a record was appended twice is visible only to the step
that appends it, and every reader of Bronze is indifferent to duplicates; no property here
would notice a reader that is not.

### LastWriteWinsView

History grows, or the view is replaced as a whole by one newest version of each key in the
history.  `SilverImplementsView` says that `silver.orders` and `silver.customers`, which are
written one day partition at a time, behave like that, with Bronze as the history.  It is
checked with orders of two days, hence two partitions.

### OrderRevenue

The topic is a sequence per partition; a record carries the `updated_at` before and after
(Flink's `debezium-json` turns an update into a retraction and an insertion).  `Consume`
applies a record to the counts of the open windows and drops what is late; `EmitWatermark`
takes the least timestamp of the partitions that are not idle, less the delay, and fires
the windows that it closes; `MarkIdle` is `scan.watermark.idle-timeout`.  `Checkpoint` keeps
offsets and window state; `Fail` restores them but not the watermark and not what the sink
already wrote; `Upgrade` (`upgradeMode: stateless`) starts from the earliest offset with no
state.  `Compact` and `Expire` remove a superseded and the oldest record.  `life` numbers the
job's incarnations, so that properties can speak of one of them.

### Promotion

A commit is a number and a tag is the commit it was built from.  A clone has the commit of
main it is based on (`base`, `origin`), its own commits (`mine`, `head`), its files
(`tree`) and its index (`staged`).  `Launch` to `PollPhase` are the steps of `promote.sh`
in order; `Interrupt`, `CommitRefused` and a refused `Push` leave behind what the script
leaves behind.  `ResetClone` and `Rebase` are what its user does in between; the
`promote.yml` workflow is a user whose clone has just been reset.  `PushTag` is CD, which
does not retry.  A run of `promote.sh` whose edit restores the tag of its last commit has
nothing to commit, and `set -e` ends it there (`NothingToCommit`).

`AutoSync`, `StartSync`, `ApplyManifests`, `EndSync` and `FailSync` are ArgoCD, with
`operationState.phase` keeping its last outcome until the next sync starts.  An automated
application requests a sync of the revision it finds, unless the last sync was of this
revision and failed (`AlreadyFailed`).  A sync ends when its manifests are applied and the
smoke check has an outcome, or fails because they cannot be applied; the three retries of
`applicationset.yaml` happen before that, with the phase at Running, and are not counted.
`released` and `gate` record what main has given each environment and how often prod was
asked to change and did.

### BatchRuns

A Job is a name with the number of its creation; a pod may outlive its Job.  Each script
step is an action: delete, wait for pods (gives up after 60 s), `kubectl apply` (leaves a
Job alone that exists, or is refused and ends the script when the pod template differs,
`ApplyRefused`), poll, time out.  `since` is the number of Jobs that had been created when the
script deleted the one of its name.  Of the tables only `healthy` is kept: would the
expectations pass on them now.  `EvaluateGate` is the one moment at which `runner.py` reads
them; `QualityGate` takes that moment apart.

### RawEvents

A record of `raw.events` is the run of the loader that sent it and its currency.  `log` is
all that the topic ever held, `start` how much of it has aged out; the three partitions are
one log, since nothing depends on the order between them.  `Load`, `Send`, `Flush` and
`Close` are `main` and `produce_events`: `Send` hands rows over in order of currency and may
be cut short by an exception, `Flush` returns when no row waits or raises after 30 s, and
`Close` waits for the rest, also after an exception.  `Store`, `Resend`, `Acknowledge` and
`FailSend` are the broker with `acks=all` and the producer's retries: a record may be
written twice, and given up though it was written.  The Bronze pass reads the topic twice,
in `CountEvents` and `AppendEvents`; `landed` is the set of positions that
`raw.kafka_events` has rows of.  `CheckLane` is the row count of the suite
`bronze_kafka_events`.

### QualityGate and LakehouseDag

Of the tables `bad` is kept: the checks that fail on them as they are (a layer, or the churn
check).  Each gate goes through `main` of `runner.py`: a checkpoint per layer (`Passed`,
`Failed`, which a query that fails may cause as well, or `Errored` when it raises), `CheckChurn`, which takes a failed query as
consistent, `PushMetrics`, which may be dropped, `Exit`.  `Abort` is any other end of the
pod, with exit 2 or none.  `quiet` says that no table changed since the gate started, so
that a property can compare its verdict with the tables it has read.  `pushed` is the group
of the Pushgateway, replaced as a whole by each push; `Alert` is the rule
`QualityGateFailed`.

`LakehouseDag` adds the gate's pod in the DAG to the Job's: `task` walks along the chain
`batch >> dbt >> gate >> lineage`, and any failure ends the run.  A dbt test on Gold is a
failure that the tables cause (`TaskFails`).  `PostEvent` posts the next event of
`build_events`; when the call fails, Marquez may have stored the event or not.  Run ids are
new in each run, so `marquez` starts empty.  What the batch writes is `WriteTables`, at any
time; how it writes is the subject of `Medallion`.

## 3. The runs

All finish within five minutes with two workers.  A *violation* run checks one statement of
the repository's own documents or tests that the code does not keep; see section 6.

| run | question | bounds |
|---|---|---|
| `Medallion_history` | One driver, Gold built by Spark.  Are the Silver tables keyed, current at the end of a batch, and monotone?  Are they last-write-wins views of Bronze?  Does the overwrite by month keep every revenue day current? | two orders with a line each, on two days of one month; 8 log positions (two creations and two steps of progress, or a creation and a deletion); 1 crash |
| `Medallion_recovery` | One driver, Gold built by dbt.  After a second snapshot, and when a record is compacted or ages out before a batch reads it: does Silver cover the customers of its orders, and do Silver and Gold reach what the database holds, except for what aged out unread? | one order, no seed customer (the order's transaction creates it), 6 positions, 1 restart, 1 removal; liveness |
| `Medallion_concurrent` | The DAG (Gold built by dbt) and the Job (by Spark) at once, one of which dies between two commits.  Do Silver and Gold converge? | 2 drivers, one order, 4 positions, 1 crash; liveness |
| `OrderRevenue_stream` | No failure, late rows, an idle partition.  Is every window written once, each version counted once, and does each window close? | 2 partitions (one busy), 4 records, 5 instants (3 windows); liveness |
| `OrderRevenue_recovery` | Restart, second snapshot and removal from the topic.  Are windows written once and in order between restarts, and is every row that was on time in some record? | 1 partition, 3 records, 4 instants (2 windows), 1 checkpoint, 1 restart (failure or upgrade), 1 snapshot, 1 removal |
| `Promotion_clones` | Two clones and CD on one branch.  Is the chain strict, and does no push undo another? | 2 clones, 2 code commits, 2 runs of the script |
| `Promotion_gate` | Runs that stop half way, syncs that cannot be applied.  Does prod change only through the gate; does staging land? | 1 clone, 1 commit, 3 runs, 1 interruption; liveness |
| `BatchRuns_shared` | Two people, who delete each other's Jobs.  Is the outcome that a script reports that of a fresh Job, and does every script end?  When one of them is alone: one batch pod at a time, and a green gate that speaks of the present tables? | 3 runs, 1 wait that gives up; liveness |
| `RawEvents_lane` | Does exit 0 deliver, does a Bronze pass land what it counted, does the loader end, does every record land or age out? | 2 currencies, 2 runs of the loader, 1 retention, 1 fault (lost acknowledgement, record given up, dead loader or batch); liveness |
| `LakehouseDag_daily` | Two gates on changing tables.  Do verdict, metrics and alert agree with the tables, is a green run earned, is lineage registered? | gates of the DAG and the Job, 3 edges, 2 table changes, 2 faults; liveness |
| `Medallion_delete`, `Promotion_stale_phase` | violations | one order, or one clone |

Why the bounds are enough.  Two versions of one key, one of them already in Silver, are
what last-write-wins can get wrong; the batch order matters only relative to one order, its
customer and its line.  Six positions give an order its transaction and two changes, and
any number of batches fits between them, because drivers run again and again.  Overwrite by
partition needs two keys in two days of one month, which `history` has; eight positions let
both have revenue.  One removal lets the only record of a customer, or the last one of an order, go
before a batch reads it; without the exceptions named below, TLC refutes the properties of
`recovery`.  The Flink job needs one row that moves between two windows (two
records) and one that pushes the watermark; a snapshot repeats them.  Promotion needs a tag
that overtakes another (two commits) and two clones that race; three runs give staging,
prod and a repetition.  Two people and three runs give every pair of script positions and
one successor.  The events lane needs a run of the loader that starts while the one before
is still read, and one fault between any two of its steps.  Two changes let a table become
bad and good again during one gate; two faults let a checkpoint fail and then the push that
should say so; the three edges are those of `build_events`.  `Delay` and `Skew` are 1 and `Width` is 2, so that rows are on time, late
within the delay, and late beyond it.

What is left out of a run on purpose:

* `Medallion_concurrent` does not check `SilverCurrentAtBatchEnd` and
  `SilverOnlyMovesForward`.  They do not hold with two drivers: one may commit what it read
  before the other's commit.  Convergence still holds, because each driver runs again.
* `CustomersCoverOrders` is checked with `OrderedPublish`; without it the connector may make
  an order visible before its customer.
* `GoldConvergesToSource` is checked with a dbt driver, in `concurrent` for an order that takes
  one step; where Spark alone builds Gold, a cancelled day may stay (`NoStaleRevenueDay`).
* `NoUnstagedRelease` is checked where nobody interrupts a script; an interrupted one leaves
  an edit that a later run may take for a release.
* `OneBatchPod` and `GreenMeansHealthy` are claimed of one person whose waits do not give up
  (`Undisturbed`); two people can have two batch pods.
* `GreenMeansGood` excepts the churn check and gates during which a table changed;
  `BadTablesAlarm` speaks of Bronze and Silver, because a failing dbt test on Gold ends every
  run of the DAG before its gate.
* `ExitZeroDelivers` is claimed of loaders of whose rows none was given up.
* `CountsVersionsOnce` and `OneRecordPerWindow` are checked without restarts and second
  snapshots, with which they do not hold.  `NoOrderLost` speaks of windows of which nothing
  is retracted: a retraction that was late before a restore and is accepted after it may
  cancel another row of its window.
* `CustomersCoverOrders` and the two convergence properties except what retention removed
  before Bronze had read it (`Unread`, `LostOrders`): such a record is lost for good.
* `StagingLands` excepts a revision whose sync failed (`Unappliable`), which ArgoCD does not
  try again by itself.
* `TsGaps` is `{1}`: ties of `ts_ms` multiply the states.  The theorems of section 4 cover
  them, and `SilverHoldsLastWrite` (section 6) is what they break.

Deadlock is checked for the Medallion, the events lane and the DAG, where batches are
scheduled for ever.  The other systems may stop when their bounds are used up and there is nothing left to do, so their
configurations say `CHECK_DEADLOCK FALSE`.

### Fairness

* `Medallion`: `Publish` of each table, because the connector keeps streaming; `BatchStep`
  of each driver, because the DAG is scheduled `@daily` and the steps of a batch end.  The
  source, restarts, removals and crashes are not fair.
* `OrderRevenue`: `Consume`, `MarkIdle` and `EmitWatermark`: the source keeps polling, and
  both timers are periodic.  Failures, checkpoints and records are not fair.
* `Promotion`: each environment's ArgoCD steps, because the controller reconciles for ever
  (`selfHeal`, polling).  That a sync can be applied is not assumed.  Nobody has to commit,
  build or promote.
* `RawEvents`: the loader's own steps once it runs; for each currency, that the broker
  stores what waits and that the producer resolves it (its delivery timeout); the steps of
  each driver.  Loads, faults and retention are not fair.
* `LakehouseDag`: the DAG's steps (`@daily`, and no pod runs for ever), the steps of each
  gate, and `ttlSecondsAfterFinished` of the Job.  Starting the Job, table changes and
  faults are not fair.
* `BatchRuns`: a script that was started goes on, and some pod of those that run ends.

## 4. What is proved

`CdcSourceProofs` shows, action by action, that the source keeps `SourceTypeOK` and
`ReferenceInv`.  `MedallionProofs` rests on both.

| theorem | states | assumptions |
|---|---|---|
| `TypeCorrect` | `Spec => []TypeOK` of `Medallion` | `SourceAssumption`, `NoRowAssumption`, `BatchAssumption` |
| `UniqueCorrect` | `Spec => []OneRowPerKey` | the same, any number of drivers |
| `CurrentCorrect` | `Spec => []SilverCurrentAtBatchEnd` | and `SingleDriver` |
| `ForwardCorrect` | `Spec => SilverOnlyMovesForward` | and `SingleDriver` |
| `ViewCorrect` | `Spec => SilverImplementsView`, the refinement | and `SingleDriver` |
| `DaysCorrect` | `Spec => []RevenueDaysAreCurrent` | and `SingleDriver` |
| `CustomersCovered` | `Spec => []CustomersCoverOrders` | and `SingleDriver`, `OrderedPublish` |
| `LaneTypeCorrect` | `Spec => []TypeOK` of `RawEvents` | `LaneAssumption` |
| `ExitZeroCorrect` | `Spec => []ExitZeroDelivers` | the same |
| `LandingCorrect` | `Spec => []BatchLandsTheTopic` | the same, any number of drivers |
| `DagTypeCorrect` | `Spec => []TypeOK` of `LakehouseDag` | `GateAssumption`, `DagAssumption` |
| `GreenCorrect` | `Spec => []GreenMeansGood` | the same, any number of gates |
| `MetricsCorrect` | `Spec => []MetricsAgree` | the same |
| `GreenRunCorrect` | `Spec => []GreenRunIsEarned` | the same |
| `LineageCorrect` | `Spec => []NoEndWithoutStart` | the same, any edges |
| `RunsTypeCorrect` | `Spec => []TypeOK` of `BatchRuns` | `RunsAssumption` |
| `FreshCorrect` | `Spec => []VerdictIsFresh` | the same, any number of people |
| `OnePodCorrect` | `Spec => []OneBatchPod` | the same |
| `HealthyCorrect` | `Spec => []GreenMeansHealthy` | the same |
| `PromotionTypeCorrect` | `Spec => []TypeOK` of `Promotion` | `PromotionAssumption` |
| `ChainCorrect` | `Spec => [](interrupts = 0 => NoUnstagedRelease)` | the same, any number of clones |
| `PushesCorrect` | `Spec => PushesUndoNothing` | the same |
| `GateCorrect` | `Spec => []ProdWaitsForGate` | the same |
| `RevenueTypeCorrect` | `Spec => []TypeOK` of `OrderRevenue` | `RevenueAssumption` |
| `LivesAreOrdered` | `Spec => []InOrderWithinALife` | the same |
| `OneRecordWithoutRestart` | `Spec => [](done["restart"] = 0 => OneRecordPerWindow)` | the same |
| `NoOrderIsLost` | `Spec => []NoOrderLost` | the same, any faults |
| `VersionsCountOnce` | `Spec => [](Undisturbed => CountsVersionsOnce)`: no restart, second snapshot or removal so far | the same |

The constants are arbitrary: any number of customers, orders, lines, days and partitions,
any history, any number of crashes, restarts and removals; any currencies, gates and
edges, any number of faults; any number of people, of scripts and of timeouts; any clones and
commits; any partitions, orders, instants, delays and window widths.  `SingleDriver`,
`OrderedPublish`, `interrupts = 0` and `Undisturbed` are what the runs of section 3 assume of
the same properties, and for the same reasons.  `NoRowAssumption` says that a row that is
there differs from the mark of one that is not.

*The medallion.*  `OneRowPerKey` alone is not inductive: a driver may be about to commit a
set of rows with two of one key, or a row in a partition that is not the key's, so that
overwriting partitions leaves the old row behind.  `UniqueInv` adds both: what is stored
**and what is held** before a commit has one row per key, in the partition of the key's day.
`LatestIsUnique` and `OverwriteKeepsUnique` are its two lemmas.  It needs nothing of the
drivers, so the result holds for concurrent ones.

`SilverCurrentAtBatchEnd` speaks of the last step only.  `BronzeInv` carries it there: from
the read of a table to its commit, what is held is the latest of Bronze; from the commit to
the end, the table is as recent as Bronze; and what is stored is always a version that
Bronze has.  This needs that Bronze does not grow between the ingest and the end, which is
what `SingleDriver` gives.  `ForwardCorrect` and `ViewCorrect` use the same invariant, since
a commit replaces stored versions of Bronze by the latest ones.

`RevenueDaysAreCurrent` follows from `DailyInv`: what was computed stays what Silver implies
until the batch ends, and a stored row lies in the month of its day, so that a commit that
replaces only the months it has rows of replaces every old row of a day it holds.

`CustomersCoverOrders` needs an invariant of the source, `ReferenceInv`, that no step of the
batch sees: an order of the database has its customer, the customer's insertion is in the
topic or earlier in the log than any streamed event of the order, and so a streamed order in
its topic has its customer in the other topic, where compaction leaves a record of it, or the
customer's record aged out.  In the second case Bronze had read it, or it is in `Unread`, which
the property excepts; that the order can then be in Silver without its customer is what the
code does, and what TLC shows if the exception is dropped.
A restart that skips the rest of the log skips the streamed orders with it, and its snapshot
holds every customer.  `CoverInv` takes this to Bronze, which reads the orders before the
customers: between the two reads the missing customers are still in Kafka, and afterwards in
Bronze; `OrdersFromBronze` and `BronzeInv` take it from there to the Silver tables.

*The events lane.*  `ExitZeroDelivers` follows from `LoaderInv`: once all rows were handed
over without an exception (`HandedOver`), each of them waits, is acknowledged or was given
up, and what is acknowledged is in the topic, which never loses a record that it once held.
`BatchLandsTheTopic` is inductive with `SeenInv`, which says that a batch has counted only
positions the topic had: a record that is added later is none of them.

*The DAG.*  `RunnerInv` follows a gate through `main`: it has passed so far exactly if every
layer that it has read is a success, and while no table changed none of these layers is bad.
`GreenMeansGood` and `MetricsAgree` are what this says at the exit and at the push.  `DagInv`
says that the DAG's gate runs only inside its task, and that it has succeeded from the
lineage task on.
`NoEndWithoutStart` is inductive because `IsNext` posts an event only after all those that
are before it.

*The scripts.*  A verdict is that of a fresh Job because whoever stands behind a `delete`
finds no Job of that name, or one created after that `delete` (`FreshInv`): nobody can bring an
old one back.  `OneBatchPod` needs more, `AloneInv`, which follows a single person through
`run-batch.sh`: behind the wait no batch pod is left; while the Job is polled, the only
batch pod is its own, and only while the Job is active; so when the gate is created nobody
writes, and a good reading of its pod stays true (`GateSpeaks`).  `PodInv` gives every pod a
number of its own, so that the end of one Job's pod is never taken for that of another.

*Promotion.*  `NoUnstagedRelease` speaks of main, but the script reads a source's tag in the
files of a clone that may be stale.  `ChainInv` says why that is harmless: every tag in a
clone was released to its environment or is one of the clone's own unpushed commits, of each
of which the source environment has the tag in the same sense; what ArgoCD applies and runs was
released; and the files are those of the last commit except between the edit and the
commit of one run.  The last part is what an interruption breaks, hence `interrupts = 0`.
`PushesUndoNothing` rests on `CloneInv`: a clone that is based on main knows main's tags, and
differs from them only where it has committed itself.  `ProdWaitsForGate` is not inductive;
`GateInv` adds that while an operation of prod is pending, an opening of the gate is left for
the change it may still make.

*The Flink job.*  The records of a life are of windows that its watermark has closed
(`OutInv`), and a closed window holds nothing (`ClosedIsEmpty`), so no window is fired twice
and none out of order.  `LossInv` follows a row through a restore: what was read up to the
job's offsets, *and up to the checkpoint's*, was late, is counted in the state that belongs to
these offsets, or was written; where nothing is retracted a count never falls, so a row that
is counted stays counted until its window fires.  `VersionsCountOnce` needs `HistoryInv` (each
change is made to the row that the last change of its order left) and `OnceInv` (the open
windows count the last version read of each order, once): then a retraction always meets the
one insertion it retracts.  A record counts its window's versions with a fold over a finite
set, and a window fires exactly if that sum is not zero; `TotalBounds` says what is needed of
it.

## 5. What is only model-checked, and what is not modelled

*Only model-checked.*  Every liveness property (`SilverConvergesToSource`,
`GoldConvergesToSource`, `IdleSourceDoesNotStall`, `StagingLands`, `EveryRunEnds`,
`LoaderEnds`, `RecordsLand`, `BadTablesAlarm`, `AlertClears`, `LineageIsRegistered`): TLAPS
does not reason about fairness and `ENABLED`.  The safety properties are all proved.

The induction theorems of TLAPS' library take a predicate as a parameter, which the provers
cannot instantiate.  The one induction that is needed, over the subsets of a finite set that
a sum ranges over, goes without: `NatSetInduction` is about a *set* of numbers, and comes from
the least counterexample, which a well-founded relation has (`LeastNatural`).

*Not modelled.*

* The sample orders of `init.sql`; amounts, rates and payloads; the churn flag and dates
  relative to today in Gold.
* The data docs, `--layer` and `--datasource pandas` of `runner.py`, which no Job, DAG or
  script of the repository uses.
* The queries and retries of the smoke check: its verdict is a free choice, and what could
  go wrong in it is a matter of seconds (twelve attempts against a deadline of 600 s).
* Two traffic generators at once: `progress_order` is one action, although it reads before
  it updates.  The image that the DAG's node has cached: both drivers run one version.
* The other alert rules, which read metrics of external exporters; the dashboards, which
  only read; Terraform and the configuration of Trino, Nessie and MinIO, which change no
  state of these parts.

An Iceberg commit is taken as atomic.  Kafka loses nothing that it acknowledged, except by
retention and compaction.  The local cluster gives the broker `ephemeral` storage
(`infra/kubernetes/base/kafka/kafka-cluster.yaml:17-18`), so there a broker pod that is
replaced loses its topics; that is not modelled.

## 6. Where the repository says one thing and does another

Two runs each refute one statement; the quotations and lines are in `PROJECT.json`.

| run | what happens |
|---|---|
| `Medallion_delete` | a deleted order stays in Silver: deletes are filtered before the latest row is taken |
| `Promotion_stale_phase` | the poll sees the outcome of the previous sync and reports success |

The modules state more such sentences, under *What the documentation says and the code does
not do*.  No run is kept for these; each is refuted by TLC when a configuration of this
directory is changed as the last column says.

| property | stated by | what happens | configuration |
|---|---|---|---|
| `OneRowPerItem` | `expectations/silver_order_items.json:49` | an item read before its order stays in the NULL partition and appears again in its day | `Medallion_delete` |
| `BronzeAppendsNewRecords` | `docs/architecture.md:41` | each batch appends the whole topic again | `Medallion_delete` |
| `NoStaleRevenueDay` | `pipelines/dbt/dbt_project.yml:18` | Spark keeps the row of a day that has no revenue any more | `Medallion_delete` |
| `SilverHoldsLastWrite` | `02_silver_transform.py:8` | with equal `ts_ms` Silver may keep the older version | `Medallion_delete`, `TsGaps` {0, 1} |
| `EveryChangeReachesBronze` | `docs/decisions/0004-debezium-cdc-over-polling.md:26` | an update is compacted or ages out before a batch reads it | `Medallion_delete`, `MaxRemovals` 1 |
| `ProdReceivesWhatStagingRuns` | `scripts/promote.sh:19` | prod is given a tag that staging does not run yet | `Promotion_stale_phase` |
| `NothingToPromoteMeansPromoted` | `scripts/promote.sh:88` | after a refused push, the next run finds nothing to promote | `Promotion_stale_phase`, `MaxCommits` 2 |
| `DryRunOpensNoGate` | `scripts/promote.sh:7` | `prod --sync --dry-run` opens the gate when the tags are equal | `Promotion_stale_phase` |
| `DevRunsLatestRelease` | `infra/argocd/envs/dev.yaml:5` | a refused push of CD leaves dev behind | `Promotion_stale_phase`, `MaxCommits` 2 |
| `NoUnstagedRelease` | `docs/decisions/0012-multi-env-promotion-applicationsets.md:47` | prod is promoted from an edit of staging that no commit made | `Promotion_gate` |
| `OneRecordPerWindow` | `kafka-topics/gold-order-revenue.yaml:9` | a restored job writes a window a second time | `OrderRevenue_recovery` |
| `RewrittenWindowsAgree` | `data/contracts/cdc-orders.yaml:29` | ... and may write something else than the first time | `OrderRevenue_recovery`, `MaxTime` 4, no snapshot, no removal |
| `CountsVersionsOnce` | `order-revenue/job.py:16` | a second snapshot counts a version twice; a retraction whose insertion was removed counts it -1 times | `OrderRevenue_recovery` |
| `IdleSourceDoesNotStall` | `docs/architecture.md:34` | when all partitions fall idle first, a window that was passed stays open | `OrderRevenue_stream`, `Busy` {} |
| `AfterEveryBatchAGate` | `docs/architecture.md:90` | a batch that outlives the script's timeout completes without a gate | `BatchRuns_shared`, `GateChoices` {TRUE} |
| `EmptyLaneFailsTheGate` | `README.md:284` | a batch without events passes the suite once the table has rows | `RawEvents_lane` |
| `CountIsAcknowledged` | `exchange_rates_loader.py:102` | `flush` does not raise for rows that failed | `RawEvents_lane` |
| `CountIsWritten` | `01_bronze_ingest.py:110` | the topic grows, or shrinks, between `count()` and `append()` | `RawEvents_lane` |
| `GreenMeansAllChecks` | `runner.py:155` | a churn query that fails is taken as consistent | `LakehouseDag_daily` |
| `FailedMetricShowsRedLayer` | `observability/prometheus/rules/pipeline.yml:99` | a checkpoint that raises, or the churn check, counts no failed expectation | `LakehouseDag_daily` |
| `FailedGateAlerts` | `dags/lakehouse_batch.py:7` | the alert reads the Job's pods and the Pushgateway, not the DAG's pods | `LakehouseDag_daily` |

## 7. Plan

Done: `CdcSource`, `Medallion` with `LastWriteWinsView`, `Promotion`, `OrderRevenue`,
`BatchRuns`, `RawEvents`, `QualityGate`, `LakehouseDag`; a theorem for each safety property
of the runs.

Next, in this order:

1. Proofs of what the runs do not ask: how far `SilverCurrentAtBatchEnd` holds with several
   drivers (a commit is never older than its own batch's Bronze), and what an interrupted
   promotion can still not do.
2. The sample orders of `init.sql`.
