------------------------------ MODULE QualityGate ------------------------------
(***************************************************************************)
(* The quality gate, quality/great-expectations/runner.py: it runs the     *)
(* checkpoint of each layer, then the churn check, pushes its gx_* metrics *)
(* and exits 0 or 1.  It runs in a pod of the Job quality-gate and in a    *)
(* pod of the Airflow DAG, at times in both; both push to one Pushgateway, *)
(* and the alert QualityGateFailed reads that and the state of the Job.    *)
(*                                                                         *)
(* Of the tables only one thing is kept: which checks would fail on them.  *)
(***************************************************************************)
EXTENDS Naturals, FiniteSets

CONSTANTS
    Gates,      \* the pods that run the gate: "job" is the Job's
    MaxWrites,  \* bound: times that the tables become better or worse
    MaxFaults   \* bound: queries, pushes, pods and calls that fail

ASSUME GateAssumption ==
    /\ "job" \in Gates
    /\ {MaxWrites, MaxFaults} \subseteq Nat

Layers == {"bronze", "silver", "gold"}
Checks == Layers \cup {"churn"}

VARIABLES
    bad,      \* the checks that fail on the tables as they are
    runner,   \* [Gates -> [step, passed, stats, quiet]]
    status,   \* [Gates -> state of the last pod; for "job", of the Job]
    pushed,   \* what the Pushgateway holds: [passed, stats]
    writes, faults

gateVars == <<runner, status, pushed>>
vars == <<bad, runner, status, pushed, writes, faults>>

(* layer_stats[layer]: did an expectation fail, and was it a success?  A
   checkpoint that raises counts no expectation, and is no success.      *)
NotRun == [failed |-> FALSE, success |-> FALSE, run |-> FALSE]
Passed == [failed |-> FALSE, success |-> TRUE, run |-> TRUE]
Failed == [failed |-> TRUE, success |-> FALSE, run |-> TRUE]
Errored == [failed |-> FALSE, success |-> FALSE, run |-> TRUE]

NoStats == [l \in Layers |-> NotRun]
Idle == [step |-> "idle", passed |-> TRUE, stats |-> NoStats, quiet |-> FALSE]

GateInit ==
    /\ bad = {}
    /\ runner = [g \in Gates |-> Idle]
    /\ status = [g \in Gates |-> "none"]
    /\ pushed = [passed |-> TRUE, stats |-> NoStats]
    /\ writes = 0
    /\ faults = 0

At(g, step) == runner[g].step = step

(* Something fails. *)
Fault == faults < MaxFaults /\ faults' = faults + 1

----------------------------------------------------------------------------
(* main *)

After == [bronze |-> "silver", silver |-> "gold", gold |-> "churn",
          churn |-> "push", push |-> "exit"]

StartGate(g) ==
    /\ At(g, "idle")
    /\ runner' = [runner EXCEPT ![g] = [Idle EXCEPT !.step = "bronze", !.quiet = TRUE]]
    /\ status' = [status EXCEPT ![g] = "active"]
    /\ UNCHANGED <<bad, pushed, writes, faults>>

(* Mutation of StillPassed: a checkpoint that raises fails nothing. *)
NoFailure(g, result) == runner[g].passed /\ ~result.failed

StillPassed(g, result) == runner[g].passed /\ result.success

(* run_checkpoint and summarise of one layer.  When Trino fails the call
   raises, or, for the query of one expectation, that expectation fails.  *)
RunCheckpoint(g) ==
    /\ runner[g].step \in Layers
    /\ LET layer == runner[g].step
       IN  \E result \in {Passed, Failed, Errored} :
             /\ result = Passed => layer \notin bad
             /\ IF result = Errored \/ (result = Failed /\ layer \notin bad)
                THEN Fault ELSE UNCHANGED faults
             /\ runner' = [runner EXCEPT ![g].step = After[layer],
                                         ![g].stats[layer] = result,
                                         ![g].passed = StillPassed(g, result)]
    /\ UNCHANGED <<bad, status, pushed, writes>>

(* Mutation of GoldStats: the churn check is no part of the gold layer. *)
WithoutChurn(g, consistent) == runner[g].stats

(* Mutation of GoldStats: the failed check replaces what was counted. *)
OnlyGold(g, consistent) ==
    IF consistent THEN runner[g].stats ELSE [gold |-> Failed]

GoldStats(g, consistent) ==
    IF consistent THEN runner[g].stats
    ELSE [runner[g].stats EXCEPT !["gold"].success = FALSE]

(* check_churn_consistency: a query that fails is taken as consistent. *)
CheckChurn(g) ==
    /\ At(g, "churn")
    /\ \E consistent \in BOOLEAN :
         /\ \/ consistent = ("churn" \notin bad) /\ UNCHANGED faults
            \/ consistent /\ "churn" \in bad /\ Fault
         /\ runner' = [runner EXCEPT ![g].step = After["churn"],
                                     ![g].passed = @ /\ consistent,
                                     ![g].stats = GoldStats(g, consistent)]
    /\ UNCHANGED <<bad, status, pushed, writes>>

(* Mutations of Metrics: push them only when the gate is green, or red. *)
MetricsIfGreen(g) ==
    IF runner[g].passed THEN [passed |-> TRUE, stats |-> runner[g].stats] ELSE pushed
MetricsIfRed(g) ==
    IF runner[g].passed THEN pushed ELSE [passed |-> FALSE, stats |-> runner[g].stats]

Metrics(g) == [passed |-> runner[g].passed, stats |-> runner[g].stats]

(* push_metrics never raises: what cannot be pushed is left out. *)
PushMetrics(g) ==
    /\ At(g, "push")
    /\ \/ pushed' = Metrics(g) /\ UNCHANGED faults
       \/ UNCHANGED pushed /\ Fault
    /\ runner' = [runner EXCEPT ![g].step = After["push"]]
    /\ UNCHANGED <<bad, status, writes>>

Ended(g, outcome) ==
    /\ runner' = [runner EXCEPT ![g] = [Idle EXCEPT !.quiet = runner[g].quiet]]
    /\ status' = [status EXCEPT ![g] = outcome]
    /\ UNCHANGED <<bad, pushed, writes>>

Exit(g) ==
    /\ At(g, "exit")
    /\ Ended(g, IF runner[g].passed THEN "succeeded" ELSE "failed")
    /\ UNCHANGED faults

(* The pod fails, with or without its runner: pip gives up, the context does
   not load (exit 2), no memory, activeDeadlineSeconds.                     *)
Abort(g) ==
    /\ ~At(g, "idle")
    /\ Fault
    /\ Ended(g, "failed")

GateStep(g) ==
    RunCheckpoint(g) \/ CheckChurn(g) \/ PushMetrics(g) \/ Exit(g) \/ Abort(g)

----------------------------------------------------------------------------
(* The world around it. *)

(* A batch commits a table: a check fails from now on, or no longer does. *)
WriteTables ==
    /\ writes < MaxWrites
    /\ writes' = writes + 1
    /\ \E c \in Checks : bad' = IF c \in bad THEN bad \ {c} ELSE bad \cup {c}
    /\ runner' = [g \in Gates |-> [runner[g] EXCEPT !.quiet = FALSE]]
    /\ UNCHANGED <<status, pushed, faults>>

(* ttlSecondsAfterFinished: the Job that ended disappears. *)
ExpireJob ==
    /\ status["job"] \in {"succeeded", "failed"}
    /\ status' = [status EXCEPT !["job"] = "none"]
    /\ UNCHANGED <<bad, runner, pushed, writes, faults>>

(* QualityGateFailed *)
Alert == ~pushed.passed \/ status["job"] = "failed"

----------------------------------------------------------------------------
(* Properties. *)

Stat == [failed : BOOLEAN, success : BOOLEAN, run : BOOLEAN]
Stats == [Layers -> Stat]
Runners == [step : DOMAIN After \cup {"idle", "exit"}, passed : BOOLEAN,
            stats : Stats, quiet : BOOLEAN]

GateTypeOK ==
    /\ bad \subseteq Checks
    /\ runner \in [Gates -> Runners]
    /\ status \in [Gates -> {"none", "active", "succeeded", "failed"}]
    /\ pushed \in [passed : BOOLEAN, stats : Stats]
    /\ {writes, faults} \subseteq Nat

(***************************************************************************)
(* A gate that exits 0, while no table changed since it started, speaks of *)
(* tables on which every expectation holds; only the churn check may have  *)
(* been passed unread (runner.py: "don't block CI on connectivity issues").*)
(***************************************************************************)
GreenMeansGood ==
    \A g \in Gates : status[g] = "succeeded" /\ runner[g].quiet => bad \subseteq {"churn"}

(***************************************************************************)
(* The Pushgateway does not contradict itself: the gate is a success there *)
(* exactly if every layer is, with its custom check and after errors too.  *)
(***************************************************************************)
MetricsAgree ==
    pushed.stats # NoStats =>
        (pushed.passed <=> \A l \in Layers : pushed.stats[l].success)

----------------------------------------------------------------------------
(* What the documentation says and the code does not do. *)

(* runner.py: gx_quality_gate_success is "1 if the whole quality gate passed
   (all layers + custom checks)".                                           *)
GreenMeansAllChecks ==
    \A g \in Gates : status[g] = "succeeded" /\ runner[g].quiet => bad = {}

(* pipeline.yml: "gx_expectations_failed{layer=...} shows which layer is
   red".                                                                    *)
FailedMetricShowsRedLayer == ~pushed.passed => \E l \in Layers : pushed.stats[l].failed
=============================================================================
