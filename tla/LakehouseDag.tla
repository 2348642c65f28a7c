----------------------------- MODULE LakehouseDag ------------------------------
(***************************************************************************)
(* A run of the Airflow DAG lakehouse_batch: batch, dbt, quality gate,     *)
(* lineage, one pod after the other, while the Job quality-gate may check  *)
(* the same tables and another batch may write them.  Its last task is     *)
(* scripts/register_lineage.py, which posts a START and a COMPLETE event   *)
(* for each declarative edge to Marquez, under run ids of its own.         *)
(***************************************************************************)
EXTENDS QualityGate

CONSTANT Edges   \* jobs without an emitter, numbered in the order of build_events

ASSUME DagAssumption ==
    /\ "dag" \in Gates
    /\ Edges \subseteq Nat

VARIABLES
    task,     \* the task that runs, or how the last run of the DAG ended
    marquez   \* the lineage events of the present run that Marquez has

allVars == <<bad, runner, status, pushed, writes, faults, task, marquez>>

Events == [edge : Edges, type : {"START", "COMPLETE"}]

(* Mutation of Before: an edge is completed first. *)
CompleteFirst(e, f) ==
    e.edge < f.edge \/ (e.edge = f.edge /\ e.type = "COMPLETE" /\ f.type = "START")

(* build_events: edge after edge, and START before COMPLETE. *)
Before(e, f) ==
    e.edge < f.edge \/ (e.edge = f.edge /\ e.type = "START" /\ f.type = "COMPLETE")

(* Mutation of Over: depends_on_past, a run waits for the last to be green. *)
NotFailed == {"none", "success"}

Over == {"none", "success", "failed"}

AfterTask == [batch |-> "dbt", dbt |-> "gate", gate |-> "lineage", lineage |-> "success"]

Init ==
    /\ GateInit
    /\ task = "none"
    /\ marquez = {}

----------------------------------------------------------------------------
(* lakehouse_batch.py *)

(* @daily, one run at a time: new pods, new run ids. *)
ScheduleRun ==
    /\ task \in Over
    /\ task' = "batch"
    /\ status' = [status EXCEPT !["dag"] = "none"]
    /\ marquez' = {}
    /\ UNCHANGED <<bad, runner, pushed, writes, faults>>

(* The pod of the batch or of dbt ends well; meanwhile WriteTables. *)
TaskEnds ==
    /\ task \in {"batch", "dbt"}
    /\ task' = AfterTask[task]
    /\ UNCHANGED <<vars, marquez>>

GatePod ==
    /\ task = "gate" /\ status["dag"] = "none"
    /\ StartGate("dag")
    /\ UNCHANGED <<task, marquez>>

(* Mutation of AfterGate: trigger_rule="all_done". *)
AllDone == AfterTask["gate"]

(* A gate that exits non-zero fails its task, and so the run. *)
AfterGate == IF status["dag"] = "succeeded" THEN AfterTask["gate"] ELSE "failed"

GateEnds ==
    /\ task = "gate" /\ status["dag"] \in {"succeeded", "failed"}
    /\ task' = AfterGate
    /\ UNCHANGED <<vars, marquez>>

(* A pod that does not start, or dies; or a dbt test that fails on Gold.  No
   task has retries.                                                        *)
TaskFails ==
    /\ task \in DOMAIN AfterTask
    /\ task = "gate" => status["dag"] = "none"
    /\ Fault \/ (task = "dbt" /\ "gold" \in bad /\ UNCHANGED faults)
    /\ task' = "failed"
    /\ UNCHANGED <<bad, runner, status, pushed, writes, marquez>>

----------------------------------------------------------------------------
(* register_lineage.py *)

(* The event that main posts next. *)
IsNext(e) == e \in Events \ marquez /\ \A f \in Events : Before(f, e) => f \in marquez

(* Mutation of AfterError: main says what went wrong and returns 0. *)
Reported == AfterTask["lineage"]

(* The first event that cannot be posted ends main: exit 1. *)
AfterError == "failed"

(* post_event raises, also when only Marquez' answer is lost. *)
PostEvent ==
    /\ task = "lineage"
    /\ \E e \in Events :
         /\ IsNext(e)
         /\ \/ marquez' = marquez \cup {e} /\ UNCHANGED <<task, faults>>
            \/ /\ marquez' \in {marquez, marquez \cup {e}}
               /\ task' = AfterError
               /\ Fault
    /\ UNCHANGED <<bad, runner, status, pushed, writes>>

LineageEnds ==
    /\ task = "lineage" /\ marquez = Events
    /\ task' = AfterTask["lineage"]
    /\ UNCHANGED <<vars, marquez>>

----------------------------------------------------------------------------

DagStep ==
    \/ ScheduleRun \/ TaskEnds \/ TaskFails
    \/ GatePod \/ GateEnds
    \/ PostEvent \/ LineageEnds

Others ==
    \/ StartGate("job") \/ ExpireJob \/ WriteTables
    \/ \E g \in Gates : GateStep(g)

Next == DagStep \/ (Others /\ UNCHANGED <<task, marquez>>)

(***************************************************************************)
(* The DAG is scheduled every day and no pod runs forever; a Job that      *)
(* ended expires.  Nobody has to start the Job.                            *)
(***************************************************************************)
Fairness ==
    /\ WF_allVars(DagStep)
    /\ WF_allVars(ExpireJob /\ UNCHANGED <<task, marquez>>)
    /\ \A g \in Gates : WF_allVars(GateStep(g) /\ UNCHANGED <<task, marquez>>)

Spec == Init /\ [][Next]_allVars /\ Fairness

----------------------------------------------------------------------------
(* Properties. *)

(* Every variable holds what the code may put in it. *)
TypeOK ==
    /\ GateTypeOK
    /\ task \in Over \cup DOMAIN AfterTask
    /\ marquez \subseteq Events

(***************************************************************************)
(* A run of the DAG that is green has every declarative edge, started and  *)
(* completed, in Marquez, and if no table changed since its gate started,  *)
(* the expectations hold on all of them ("the gate blocks the pipeline").  *)
(***************************************************************************)
GreenRunIsEarned ==
    task = "success" =>
        /\ marquez = Events
        /\ runner["dag"].quiet => bad \subseteq {"churn"}

(***************************************************************************)
(* Marquez never has the end of a run without its beginning, wherever the  *)
(* registration stopped.                                                   *)
(***************************************************************************)
NoEndWithoutStart ==
    \A e \in marquez : e.type = "COMPLETE" => [e EXCEPT !.type = "START"] \in marquez

(***************************************************************************)
(* When Bronze or Silver stays bad the alert comes and stays, whatever Job *)
(* and DAG pushed before, in whatever order.  (When Gold is bad, a dbt     *)
(* test may end every run of the DAG before its gate.)                     *)
(***************************************************************************)
BadTablesAlarm ==
    <>[](bad # {} /\ bad \subseteq {"bronze", "silver"}) => <>[]Alert

(* When the tables stay good the alert goes and does not come back. *)
AlertClears == <>[](bad = {}) => <>[]~Alert

(* When the tables stay good, the lineage is registered again and again. *)
LineageIsRegistered == <>[](bad = {}) => []<>(task = "success")

----------------------------------------------------------------------------
(* What the documentation says and the code does not do. *)

(***************************************************************************)
(* lakehouse_batch.py: "FAILED pods are kept so kube-state-metrics exposes *)
(* them to the ... dashboard and alerts": a DAG whose gate failed alerts.  *)
(***************************************************************************)
FailedGateAlerts == task = "failed" /\ status["dag"] = "failed" => Alert
=============================================================================
