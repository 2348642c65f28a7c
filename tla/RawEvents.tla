------------------------------- MODULE RawEvents -------------------------------
(***************************************************************************)
(* The second ingestion lane: exchange_rates_loader.py fetches rates and   *)
(* produces one event per currency to the topic raw.events; the Bronze job *)
(* appends the whole topic to raw.kafka_events; the suite                  *)
(* bronze_kafka_events of the quality gate wants that table not empty.     *)
(*                                                                         *)
(* A record is the run of the loader that sent it and its currency, and it *)
(* is named by its position in the topic.  Bronze is the set of positions  *)
(* it has captured: a position appended twice is two rows of one event.    *)
(***************************************************************************)
EXTENDS Integers, Sequences, FiniteSets

CONSTANTS
    Currencies,   \* DEFAULT_CURRENCIES, numbered as rates_to_events sorts them
    Drivers,      \* who runs the Bronze job
    MaxLoads, MaxExpiries, MaxFaults
                  \* bounds: runs of the loader, times that retention runs,
                  \* faults (sends that fail or are repeated, loaders and
                  \* batches that die)

ASSUME LaneAssumption ==
    /\ Currencies \subseteq Nat \ {0}
    /\ {MaxLoads, MaxExpiries, MaxFaults} \subseteq Nat

VARIABLES
    loader,    \* [step, run, events, buffer, acked, failed, raised]
    log,       \* Seq([run, currency]): all that raw.events ever held
    start,     \* the first start records of the log have aged out
    landed,    \* positions that raw.kafka_events has rows of
    batch,     \* [Drivers -> [step, seen]]: seen is what count() ranged over
    done       \* [bounded event -> how often it happened]

batchVars == <<landed, batch>>
vars == <<loader, log, start, landed, batch, done>>

Bounds == [load |-> MaxLoads, expiry |-> MaxExpiries, fault |-> MaxFaults]

Once(event) ==
    /\ done[event] < Bounds[event]
    /\ done' = [done EXCEPT ![event] = @ + 1]

Running == {"sending", "flushing", "closing"}
Ended == {"idle", "ok", "error", "dry_run", "killed"}

NewRun(run, events, step) ==
    [step |-> step, run |-> run, events |-> events, raised |-> FALSE,
     buffer |-> {},    \* handed to the producer, neither acknowledged nor failed
     acked |-> {}, failed |-> {}]

EndedRun(run, step) == NewRun(run, {}, step)

NoBatch == [step |-> "idle", seen |-> {}]

(* The outcome of the gate is a step: that of a batch that is over. *)
Over == {"idle", "green", "red"}

Retained == (start + 1)..Len(log)

(* Currencies of which a run of the loader has had a record in the topic. *)
InTopic(run) == {log[i].currency : i \in {j \in DOMAIN log : log[j].run = run}}

Init ==
    /\ loader = EndedRun(0, "idle")
    /\ log = << >>
    /\ start = 0
    /\ landed = {}
    /\ batch = [d \in Drivers |-> NoBatch]
    /\ done = [e \in DOMAIN Bounds |-> 0]

----------------------------------------------------------------------------
(* exchange_rates_loader.py *)

(* fetch_rates, rates_to_events: one event for each currency that is asked
   for and quoted.                                                        *)
Fetches == SUBSET Currencies

(* main: no event, or a fetch that fails, is exit 1.  --dry-run prints the
   events and exits 0.                                                    *)
Load ==
    /\ loader.step \in Ended
    /\ Once("load")
    /\ \E events \in Fetches, dry_run \in BOOLEAN :
         loader' = CASE events = {} -> EndedRun(loader.run + 1, "error")
                     [] events # {} /\ dry_run -> EndedRun(loader.run + 1, "dry_run")
                     [] OTHER -> NewRun(loader.run + 1, events, "sending")
    /\ UNCHANGED <<log, start, batchVars>>

(* produce_events hands the rows to the producer in order of currency; one
   that cannot be handed over (no metadata for 60 s) raises.              *)
Send ==
    /\ loader.step = "sending"
    /\ \E k \in Currencies \cup {0} :
         LET sent == {c \in loader.events : c <= k}
             raised == sent # loader.events
         IN  loader' = [loader EXCEPT !.buffer = sent, !.raised = raised,
                                      !.step = IF raised THEN "closing" ELSE "flushing"]
    /\ UNCHANGED <<log, start, batchVars, done>>

(* Mutation of Drained: do not wait for the sender thread. *)
Abandoned == TRUE

(* Mutation of Drained: wait until every row is acknowledged. *)
AllAcked == loader.acked = loader.events

Drained == loader.buffer = {}

(* flush(timeout=30): wait for every row to be acknowledged or failed; after
   30 s it raises.  A row that failed does not make flush raise.           *)
Flush ==
    /\ loader.step = "flushing"
    /\ \E timeout \in BOOLEAN :
         /\ timeout \/ Drained
         /\ loader' = [loader EXCEPT !.step = "closing", !.raised = timeout]
    /\ UNCHANGED <<log, start, batchVars, done>>

(* close() waits until the buffer is sent; then the exception, or exit 0. *)
Close ==
    /\ loader.step = "closing" /\ Drained
    /\ loader' = IF loader.raised THEN EndedRun(loader.run, "error")
                 ELSE [loader EXCEPT !.step = "ok", !.buffer = {}]
    /\ UNCHANGED <<log, start, batchVars, done>>

Kill ==
    /\ loader.step \in Running
    /\ Once("fault")
    /\ loader' = EndedRun(loader.run, "killed")
    /\ UNCHANGED <<log, start, batchVars>>

----------------------------------------------------------------------------
(* External: the broker. *)

Write(c) ==
    /\ log' = Append(log, [run |-> loader.run, currency |-> c])
    /\ UNCHANGED <<loader, start, batchVars>>

(* acks=all: the record is written, and its acknowledgement is on its way. *)
Store(c) ==
    /\ c \in loader.buffer \ InTopic(loader.run)
    /\ Write(c)
    /\ UNCHANGED done

(* The acknowledgement is lost and the producer sends the record again. *)
Resend(c) ==
    /\ c \in loader.buffer \cap InTopic(loader.run)
    /\ Once("fault")
    /\ Write(c)

Acknowledge(c) ==
    /\ c \in loader.buffer \cap InTopic(loader.run)
    /\ loader' = [loader EXCEPT !.acked = @ \cup {c}, !.buffer = @ \ {c}]
    /\ UNCHANGED <<log, start, batchVars, done>>

(* The producer gives the record up, whether or not it was written. *)
FailSend(c) ==
    /\ c \in loader.buffer
    /\ Once("fault")
    /\ loader' = [loader EXCEPT !.failed = @ \cup {c}, !.buffer = @ \ {c}]
    /\ UNCHANGED <<log, start, batchVars>>

(* retention.ms: the oldest records leave the topic. *)
Expire ==
    /\ Once("expiry")
    /\ \E s \in Retained : start' = s
    /\ UNCHANGED <<loader, log, batchVars>>

----------------------------------------------------------------------------
(* The Bronze job (ingest_raw_events) and, after it, the gate. *)

Step(d, step) == batch' = [batch EXCEPT ![d].step = step]

StartBatch(d) ==
    /\ batch[d].step \in Over
    /\ Step(d, "count")
    /\ UNCHANGED <<loader, log, start, landed, done>>

(* count() reads the topic from earliest to latest; no record, no append. *)
CountEvents(d) ==
    /\ batch[d].step = "count"
    /\ batch' = [batch EXCEPT ![d] = [step |-> IF Retained = {} THEN "gate" ELSE "append",
                                      seen |-> Retained]]
    /\ UNCHANGED <<loader, log, start, landed, done>>

(* Mutation of EarliestToLatest: startingOffsets latest. *)
NewestOnly == {i \in Retained : i = Len(log)}

(* Mutation of EarliestToLatest: positions counted from 0. *)
FromZero == start..Len(log)

(* Mutation of EarliestToLatest: the last position is taken for the end. *)
ExclusiveEnd == {i \in Retained : i < Len(log)}

EarliestToLatest == Retained

(* append() reads the topic again, up to its present end (failOnDataLoss is
   false: what has aged out meanwhile is skipped).                         *)
AppendEvents(d) ==
    /\ batch[d].step = "append"
    /\ landed' = landed \cup EarliestToLatest
    /\ Step(d, "gate")
    /\ UNCHANGED <<loader, log, start, done>>

(* bronze_kafka_events: expect_table_row_count_to_be_between, at least 1. *)
CheckLane(d) ==
    /\ batch[d].step = "gate"
    /\ batch' = [batch EXCEPT ![d] = [step |-> IF landed = {} THEN "red" ELSE "green",
                                      seen |-> {}]]
    /\ UNCHANGED <<loader, log, start, landed, done>>

(* The pod dies; what was appended stays. *)
Crash(d) ==
    /\ batch[d].step \notin Over
    /\ Once("fault")
    /\ batch' = [batch EXCEPT ![d] = NoBatch]
    /\ UNCHANGED <<loader, log, start, landed>>

BatchStep(d) == StartBatch(d) \/ CountEvents(d) \/ AppendEvents(d) \/ CheckLane(d)

Resolve(c) == Acknowledge(c) \/ FailSend(c)

Next ==
    \/ Load \/ Send \/ Flush \/ Close \/ Kill \/ Expire
    \/ \E c \in Currencies : Store(c) \/ Resend(c) \/ Resolve(c)
    \/ \E d \in Drivers : BatchStep(d) \/ Crash(d)

(***************************************************************************)
(* The loader runs on once started, and its producer resolves every record *)
(* within its delivery timeout; batches are scheduled and their steps end. *)
(* Nobody has to load rates, and nothing has to fail or to age out.        *)
(***************************************************************************)
Fairness ==
    /\ WF_vars(Send \/ Flush \/ Close)
    /\ \A c \in Currencies : WF_vars(Store(c)) /\ WF_vars(Resolve(c))
    /\ \A d \in Drivers : WF_vars(BatchStep(d))

Spec == Init /\ [][Next]_vars /\ Fairness

----------------------------------------------------------------------------
(* Properties. *)

Runs == [step : Running \cup Ended, run : Nat, events : SUBSET Currencies,
         raised : BOOLEAN, buffer : SUBSET Currencies,
         acked : SUBSET Currencies, failed : SUBSET Currencies]

(* Every variable holds what the code may put in it. *)
TypeOK ==
    /\ loader \in Runs
    /\ log \in Seq([run : Nat, currency : Currencies])
    /\ start \in Nat /\ start <= Len(log)
    /\ landed \subseteq 1..Len(log)
    /\ batch \in [Drivers -> [step : Over \cup {"count", "append", "gate"}, seen : SUBSET Nat]]
    /\ done \in [DOMAIN Bounds -> Nat]

(***************************************************************************)
(* A loader that exits 0 and of whose rows the producer gave up none has   *)
(* all of them in the topic: send() only queues a row, and nothing but     *)
(* flush and close stands between the last send and the exit.              *)
(***************************************************************************)
ExitZeroDelivers ==
    loader.step = "ok" /\ loader.failed = {} => loader.events \subseteq InTopic(loader.run)

(***************************************************************************)
(* When the Bronze pass is over, every event that it counted and that has  *)
(* not aged out is in raw.kafka_events, though the topic is read twice     *)
(* while the loader produces and retention removes.                        *)
(***************************************************************************)
BatchLandsTheTopic ==
    \A d \in Drivers : batch[d].step = "gate" => batch[d].seen \cap Retained \subseteq landed

(* The loader comes to an end, whatever the broker does with its rows. *)
LoaderEnds == loader.step \in Running ~> loader.step \in Ended

(***************************************************************************)
(* Bronze catches up with the topic again and again, so that every record  *)
(* lands or ages out, whatever batches die on the way.                     *)
(***************************************************************************)
RecordsLand == []<>(Retained \subseteq landed)

----------------------------------------------------------------------------
(* What the documentation says and the code does not do. *)

(***************************************************************************)
(* README.md: "rerun the loader before a batch if the events have aged out *)
(* - otherwise the gate fails the run on an empty lane": the suite passes  *)
(* only in a batch that found an event.                                    *)
(***************************************************************************)
EmptyLaneFailsTheGate ==
    [][\A d \in Drivers : CheckLane(d) /\ batch[d].seen = {} => batch'[d].step = "red"]_vars

(* produce_events: "Returns: Number of messages acknowledged". *)
CountIsAcknowledged == loader.step = "ok" => loader.acked = loader.events

(* ingest_raw_events: "Returns: Number of records written". *)
CountIsWritten ==
    [][\A d \in Drivers : AppendEvents(d) => Cardinality(batch[d].seen) = Cardinality(Retained)]_vars
=============================================================================
