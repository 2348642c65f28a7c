------------------------------ MODULE BatchRuns ------------------------------
(***************************************************************************)
(* What runs the batch without Airflow: scripts/run-batch.sh and           *)
(* scripts/run-quality-gate.sh, the two Kubernetes Jobs they delete,       *)
(* create and poll by name, and the pods of these Jobs, which may outlive  *)
(* them.  Several people may run the scripts at once.                      *)
(*                                                                         *)
(* Jobs are numbered as they are created.  Of the tables only one thing is *)
(* kept: whether the expectations would pass on them.                      *)
(***************************************************************************)
EXTENDS Naturals, Functions

CONSTANTS
    Operators,
    GateChoices,    \* does a run want the gate (SKIP_QUALITY_GATE is not 1)?
    MaxRuns,    \* bound: scripts launched
    MaxStuck    \* bound: waits for an old pod that give up after 60 s

ASSUME RunsAssumption ==
    /\ GateChoices \subseteq BOOLEAN
    /\ {MaxRuns, MaxStuck} \subseteq Nat

Names == {"batch", "gate"}
Outcomes == {"succeeded", "failed"}

VARIABLES
    jobs,       \* [Names -> [id, status]], id 0: there is no such Job
    pods,       \* set of [job, id, seen]: seen is what a gate pod has read
    healthy,    \* would every expectation pass on the tables?
    script,     \* [Operators -> [step, gate, since]]: since is the number of
                \* Jobs there had been when the script last deleted one
    created,    \* Jobs created so far
    unchecked,  \* a batch completed and no gate Job was created since
    runs,       \* [Operators -> scripts that each has launched]
    stuck

vars == <<jobs, pods, healthy, script, created, unchecked, runs, stuck>>

Idle == [step |-> "idle", gate |-> FALSE, since |-> 0]

(* Mutation of NoJob: the Jobs are part of the overlay, applied at deploy. *)
DeployedJob == [id |-> 1, status |-> "none"]

NoJob == [id |-> 0, status |-> "none"]

Init ==
    /\ jobs = [n \in Names |-> NoJob]
    /\ pods = {}
    /\ healthy = TRUE
    /\ script = [p \in Operators |-> Idle]
    /\ created = 0
    /\ unchecked = FALSE
    /\ runs = [p \in Operators |-> 0]
    /\ stuck = 0

Launched == FoldFunction(+, 0, runs)

(* p launches a script, which goes through its steps from step on. *)
Launch(p, step, gate) ==
    /\ script[p].step = "idle"
    /\ Launched < MaxRuns
    /\ runs' = [runs EXCEPT ![p] = @ + 1]
    /\ script' = [script EXCEPT ![p] = [step |-> step, gate |-> gate, since |-> 0]]

At(p, step) == script[p].step = step
Goto(p, step) == script' = [script EXCEPT ![p].step = step]
Exit(p) == script' = [script EXCEPT ![p] = Idle]
BatchPods == {x \in pods : x.job = "batch"}

----------------------------------------------------------------------------
(* What both scripts do with a Job. *)

(* Mutation of AfterDelete: the previous Job is kept. *)
KeepJob(n) == jobs

(* kubectl delete job: the object is gone at once, its pod only later. *)
AfterDelete(n) == [jobs EXCEPT ![n] = NoJob]

Delete(p, n, next) ==
    /\ jobs' = AfterDelete(n)
    /\ script' = [script EXCEPT ![p].step = next, ![p].since = created]

(* kubectl apply: a Job that exists is left unchanged ... *)
Apply(n) ==
    IF jobs[n] = NoJob
    THEN /\ created' = created + 1
         /\ jobs' = [jobs EXCEPT ![n] = [id |-> created + 1, status |-> "active"]]
         /\ pods' = pods \cup {[job |-> n, id |-> created + 1, seen |-> "nothing"]}
         /\ unchecked' = IF n = "gate" THEN FALSE ELSE unchecked
    ELSE UNCHANGED <<created, jobs, pods, unchecked>>

(* ... or, if its pod template differs (CD has set another image, somebody
   else has another clone), refused: it is immutable, and set -e ends the
   script.                                                                *)
ApplyRefused(p, n) ==
    /\ jobs[n] # NoJob
    /\ Exit(p)
    /\ UNCHANGED <<created, jobs, pods, unchecked>>

----------------------------------------------------------------------------
(* scripts/run-batch.sh *)

(* Run the script, with or without SKIP_QUALITY_GATE=1. *)
RunBatch(p) ==
    /\ \E gate \in GateChoices : Launch(p, "delete_batch", gate)
    /\ UNCHANGED <<jobs, pods, healthy, created, unchecked, stuck>>

DeleteBatch(p) ==
    /\ At(p, "delete_batch")
    /\ Delete(p, "batch", "wait")
    /\ UNCHANGED <<pods, healthy, created, unchecked, runs, stuck>>

(* Mutation of PodsAreGone: do not wait for the old pod. *)
DoNotWait == TRUE

(* Mutation of PodsAreGone: wait for the Job's deletion too. *)
JobIsGone == BatchPods = {} /\ jobs["batch"] = NoJob

PodsAreGone == BatchPods = {}

WaitForPods(p) ==
    /\ At(p, "wait")
    /\ \/ PodsAreGone /\ stuck' = stuck
       \/ BatchPods # {} /\ stuck < MaxStuck /\ stuck' = stuck + 1
    /\ Goto(p, "apply_batch")
    /\ UNCHANGED <<jobs, pods, healthy, created, unchecked, runs>>

ApplyBatch(p) ==
    /\ At(p, "apply_batch")
    /\ \/ Apply("batch") /\ Goto(p, "poll_batch")
       \/ ApplyRefused(p, "batch")
    /\ UNCHANGED <<healthy, runs, stuck>>

(* The Job succeeded: go on to the gate.  It failed: exit 1. *)
PollBatch(p) ==
    /\ At(p, "poll_batch")
    /\ \/ jobs["batch"].status = "succeeded" /\ script[p].gate /\ Goto(p, "delete_gate")
       \/ jobs["batch"].status = "succeeded" /\ ~script[p].gate /\ Exit(p)
       \/ jobs["batch"].status = "failed" /\ Exit(p)
    /\ UNCHANGED <<jobs, pods, healthy, created, unchecked, runs, stuck>>

----------------------------------------------------------------------------
(* scripts/run-quality-gate.sh *)

(* make quality-gate *)
RunGate(p) ==
    /\ Launch(p, "delete_gate", FALSE)
    /\ UNCHANGED <<jobs, pods, healthy, created, unchecked, stuck>>

DeleteGate(p) ==
    /\ At(p, "delete_gate")
    /\ Delete(p, "gate", "apply_gate")
    /\ UNCHANGED <<pods, healthy, created, unchecked, runs, stuck>>

ApplyGate(p) ==
    /\ At(p, "apply_gate")
    /\ \/ Apply("gate") /\ Goto(p, "poll_gate")
       \/ ApplyRefused(p, "gate")
    /\ UNCHANGED <<healthy, runs, stuck>>

PollGate(p) ==
    /\ At(p, "poll_gate")
    /\ jobs["gate"].status \in Outcomes
    /\ Exit(p)
    /\ UNCHANGED <<jobs, pods, healthy, created, unchecked, runs, stuck>>

PollingSteps == {"poll_batch", "poll_gate"}

(* BATCH_TIMEOUT, QUALITY_GATE_TIMEOUT: exit 1; the Job goes on. *)
Timeout(p) ==
    /\ script[p].step \in PollingSteps
    /\ Exit(p)
    /\ UNCHANGED <<jobs, pods, healthy, created, unchecked, runs, stuck>>

----------------------------------------------------------------------------
(* Kubernetes and the pods. *)

(* Some table is committed; the expectations hold on the new state or not. *)
WriteTables(x) ==
    /\ x.job = "batch"
    /\ \E h \in BOOLEAN : h # healthy /\ healthy' = h
    /\ UNCHANGED <<jobs, pods, script, created, unchecked, runs, stuck>>

(* runner.py reads the tables. *)
EvaluateGate(x) ==
    /\ x.job = "gate" /\ x.seen = "nothing"
    /\ pods' = (pods \ {x}) \cup {[x EXCEPT !.seen = IF healthy THEN "good" ELSE "bad"]}
    /\ UNCHANGED <<jobs, healthy, script, created, unchecked, runs, stuck>>

(* A pod ends, well only if its work is done; backoffLimit is 0, so its Job,
   if it is still there, ends with it.                                     *)
EndPod(x) ==
    /\ pods' = pods \ {x}
    /\ \E outcome \in IF x.job = "batch" \/ x.seen = "good" THEN Outcomes ELSE {"failed"} :
         LET own == jobs[x.job].id = x.id
         IN  /\ jobs' = IF own THEN [jobs EXCEPT ![x.job].status = outcome] ELSE jobs
             /\ unchecked' = (unchecked \/ (own /\ x.job = "batch" /\ outcome = "succeeded"))
    /\ UNCHANGED <<healthy, script, created, runs, stuck>>

(* ttlSecondsAfterFinished, long after every script has stopped polling. *)
Expire(n) ==
    /\ jobs[n].status \in Outcomes
    /\ \A p \in Operators : script[p].step \notin {"poll_batch", "poll_gate"}
    /\ jobs' = [jobs EXCEPT ![n] = NoJob]
    /\ UNCHANGED <<pods, healthy, script, created, unchecked, runs, stuck>>

ScriptStep(p) ==
    \/ DeleteBatch(p) \/ WaitForPods(p) \/ ApplyBatch(p) \/ PollBatch(p)
    \/ DeleteGate(p) \/ ApplyGate(p) \/ PollGate(p) \/ Timeout(p)

PodEnds == \E x \in pods : EndPod(x)

Next ==
    \/ \E p \in Operators : RunBatch(p) \/ RunGate(p) \/ ScriptStep(p)
    \/ \E x \in pods : WriteTables(x) \/ EvaluateGate(x)
    \/ PodEnds
    \/ \E n \in Names : Expire(n)

(* A script that was started runs on, and a pod does not live forever. *)
Spec == Init /\ [][Next]_vars /\ WF_vars(PodEnds)
        /\ \A p \in Operators : WF_vars(ScriptStep(p))

----------------------------------------------------------------------------
(* Properties. *)

Steps == {"idle", "delete_batch", "wait", "apply_batch", "poll_batch",
          "delete_gate", "apply_gate", "poll_gate"}
Pods == [job : Names, id : Nat, seen : {"nothing", "good", "bad"}]

(* Every variable holds what the code may put in it, and every Job number
   was given out.                                                         *)
TypeOK ==
    /\ jobs \in [Names -> [id : 0..created, status : Outcomes \cup {"none", "active"}]]
    /\ pods \subseteq Pods
    /\ script \in [Operators -> [step : Steps, gate : BOOLEAN, since : 0..created]]
    /\ {healthy, unchecked} \subseteq BOOLEAN
    /\ runs \in [Operators -> Nat]
    /\ {created, stuck} \subseteq Nat

(* p's script takes the outcome of Job n for its own. *)
Believes(p, n) ==
    /\ At(p, IF n = "batch" THEN "poll_batch" ELSE "poll_gate")
    /\ jobs[n].status \in Outcomes

(***************************************************************************)
(* The outcome that a script reports is that of a Job created after its own*)
(* delete of the previous one, though the Jobs are looked up by name only  *)
(* and somebody else may delete and create them at the same time.          *)
(***************************************************************************)
VerdictIsFresh ==
    \A p \in Operators, n \in Names : Believes(p, n) => jobs[n].id > script[p].since

(* One person runs the scripts, and no wait for an old pod has given up. *)
Undisturbed ==
    /\ \A p, q \in Operators : runs[p] > 0 /\ runs[q] > 0 => p = q
    /\ stuck = 0

(***************************************************************************)
(* One person running the scripts never has two batch pods writing the     *)
(* tables, not even when a run timed out and its Job is still going        *)
(* (run-batch.sh: "Waiting for old pod to terminate...").                  *)
(***************************************************************************)
OneBatchPod == Undisturbed => \A x, y \in BatchPods : x = y

(***************************************************************************)
(* When run-batch.sh ends with "Quality gate PASSED", the tables are those *)
(* the gate passed, whatever timed out before.                             *)
(***************************************************************************)
GreenMeansHealthy ==
    Undisturbed => \A p \in Operators :
        At(p, "poll_gate") /\ script[p].gate /\ jobs["gate"].status = "succeeded" => healthy

(***************************************************************************)
(* A script always comes to an end, even when somebody else deletes the    *)
(* Job it polls.                                                           *)
(***************************************************************************)
EveryRunEnds == \A p \in Operators : ~At(p, "idle") ~> At(p, "idle")

----------------------------------------------------------------------------
(* What the documentation says and the code does not do. *)

(***************************************************************************)
(* docs/architecture.md: "after every batch, scripts/run-batch.sh launches *)
(* the quality-gate Job": when everything has ended, the last batch that   *)
(* completed was followed by a gate (when nobody asks to skip it).         *)
(***************************************************************************)
AfterEveryBatchAGate ==
    (\A p \in Operators : At(p, "idle")) /\ pods = {} => ~unchecked
=============================================================================
