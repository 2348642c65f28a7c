---------------------------- MODULE BatchRunsProofs ----------------------------
(***************************************************************************)
(* Proofs about the scripts and their Jobs, for any number of people, runs *)
(* and waits that give up.                                                 *)
(***************************************************************************)
EXTENDS BatchRuns, TLAPS

(* Job n is gone, or was created after the last delete of p's script. *)
Fresh(p, n) == jobs[n] = NoJob \/ jobs[n].id > script[p].since

FreshInv ==
    \A p \in Operators :
        /\ script[p].step \in {"wait", "apply_batch", "poll_batch"} => Fresh(p, "batch")
        /\ script[p].step \in {"apply_gate", "poll_gate"} => Fresh(p, "gate")

(* Pods have numbers that were given out, each its own. *)
PodInv ==
    /\ \A x \in pods : 0 < x.id /\ x.id <= created
    /\ \A x, y \in pods : x.job = y.job /\ x.id = y.id => x = y

(* Who has launched no script runs none. *)
IdleInv == \A p \in Operators : runs[p] = 0 => At(p, "idle")

(* A green outcome of the present gate Job, present or to come, is true. *)
GateSpeaks ==
    /\ jobs["gate"].status = "succeeded" => healthy
    /\ \A x \in pods : x.job = "gate" /\ x.id = jobs["gate"].id /\ x.seen = "good" => healthy

(***************************************************************************)
(* Where the script of somebody alone is, what it deleted is gone, the     *)
(* only batch pod is that of the Job it polls, and no batch pod is left    *)
(* once it has gone on to the gate.                                        *)
(***************************************************************************)
AloneAt(p) ==
    /\ At(p, "wait") => jobs["batch"] = NoJob
    /\ At(p, "apply_batch") => jobs["batch"] = NoJob /\ BatchPods = {}
    /\ At(p, "poll_batch") =>
          \A x \in BatchPods : x.id = jobs["batch"].id /\ jobs["batch"].status = "active"
    /\ script[p].step \in {"delete_gate", "apply_gate", "poll_gate"} /\ script[p].gate =>
          BatchPods = {}
    /\ At(p, "apply_gate") => jobs["gate"] = NoJob
    /\ At(p, "poll_gate") /\ script[p].gate => GateSpeaks

AloneInv == Undisturbed => \A p \in Operators : AloneAt(p)

IInv == TypeOK /\ PodInv /\ FreshInv /\ IdleInv /\ AloneInv /\ OneBatchPod

USE RunsAssumption

LEMMA InitKeeps == Init => IInv
  <1> SUFFICES ASSUME Init PROVE IInv
    OBVIOUS
  <1>1. TypeOK
    <2>1. {healthy, unchecked} \subseteq BOOLEAN
      BY DEF Init
    <2>2. jobs \in [Names -> [id : 0..created, status : Outcomes \cup {"none", "active"}]]
      BY DEF Init, NoJob
    <2> QED
      BY <2>1, <2>2 DEF Init, TypeOK, Idle, Steps
  <1> QED
    BY <1>1 DEF Init, IInv, PodInv, FreshInv, IdleInv, AloneInv, AloneAt, OneBatchPod, BatchPods,
                Idle, At

(* While somebody is alone, nobody else runs a script. *)
LEMMA OthersAreIdle ==
    ASSUME TypeOK, IdleInv, Undisturbed,
           NEW p \in Operators, ~At(p, "idle"), NEW q \in Operators, q # p
    PROVE  At(q, "idle")
  BY DEF TypeOK, IdleInv, Undisturbed

(* An idle script claims nothing. *)
LEMMA IdleClaimsNothing ==
    ASSUME NEW p \in Operators, At(p, "idle")
    PROVE  AloneAt(p)
  BY DEF AloneAt, At

(* A step of p's script leaves it alone if it was, and what holds where p is
   holds of everybody.                                                      *)
LEMMA AloneStays ==
    ASSUME TypeOK, IdleInv, NEW p \in Operators, ~At(p, "idle"),
           UNCHANGED runs, stuck' >= stuck,
           \A q \in Operators \ {p} : script'[q] = script[q],
           Undisturbed => AloneAt(p)'
    PROVE  AloneInv' /\ (Undisturbed' => Undisturbed)
  <1>1. Undisturbed' => Undisturbed
    BY DEF Undisturbed, TypeOK
  <1>2. ASSUME Undisturbed', NEW q \in Operators, q # p PROVE AloneAt(q)'
    <2>1. At(q, "idle")
      BY <1>1, <1>2, OthersAreIdle
    <2>2. At(q, "idle")'
      BY <1>2, <2>1 DEF At
    <2> QED
      BY <2>2 DEF AloneAt, At
  <1> QED
    BY <1>1, <1>2 DEF AloneInv

(* So does a step that moves no script. *)
LEMMA AloneStaysToo ==
    ASSUME TypeOK, UNCHANGED <<runs, script, stuck>>,
           Undisturbed => \A p \in Operators : AloneAt(p)'
    PROVE  AloneInv' /\ (Undisturbed' => Undisturbed)
  BY DEF AloneInv, Undisturbed

----------------------------------------------------------------------------
(* Launching a script. *)

LEMMA LaunchKeeps ==
    ASSUME IInv, NEW p \in Operators, NEW step \in {"delete_batch", "delete_gate"},
           NEW gate \in BOOLEAN, step = "delete_gate" => ~gate, Launch(p, step, gate),
           UNCHANGED <<jobs, pods, healthy, created, unchecked, stuck>>
    PROVE  IInv'
  <1> USE DEF IInv, Launch
  <1>1. TypeOK'
    BY DEF TypeOK, Steps
  <1>2. PodInv'
    BY DEF PodInv
  <1>3. FreshInv'
    BY DEF FreshInv, Fresh, TypeOK
  <1>4. IdleInv'
    BY DEF IdleInv, At, TypeOK
  <1>5. Undisturbed' => Undisturbed /\ \A q \in Operators \ {p} : At(q, "idle")'
    <2>1. \A q \in Operators : runs[q] \in Nat /\ runs'[q] \in Nat /\ runs'[q] >= runs[q]
      BY DEF TypeOK
    <2>2. runs'[p] > 0
      BY DEF TypeOK
    <2>3. Undisturbed' => Undisturbed
      BY <2>1 DEF Undisturbed
    <2>4. ASSUME Undisturbed', NEW q \in Operators \ {p} PROVE At(q, "idle")'
      <3>1. runs'[q] = 0
        BY <2>1, <2>2, <2>4 DEF Undisturbed
      <3> QED
        BY <3>1, <1>4 DEF IdleInv
    <2> QED
      BY <2>3, <2>4
  <1>6. AloneInv'
    <2>1. AloneAt(p)'
      BY DEF AloneAt, At, TypeOK
    <2>2. ASSUME Undisturbed', NEW q \in Operators \ {p} PROVE AloneAt(q)'
      BY <1>5, <2>2 DEF AloneAt, At
    <2> QED
      BY <2>1, <2>2 DEF AloneInv
  <1>7. OneBatchPod'
    BY <1>5 DEF OneBatchPod, BatchPods
  <1> QED
    BY <1>1, <1>2, <1>3, <1>4, <1>6, <1>7

----------------------------------------------------------------------------
(* The steps of a script. *)

LEMMA DeleteKeeps ==
    ASSUME IInv, NEW p \in Operators, NEW n \in Names, NEW step \in {"wait", "apply_gate"},
           step = "wait" <=> n = "batch",
           At(p, IF n = "batch" THEN "delete_batch" ELSE "delete_gate"),
           Delete(p, n, step),
           UNCHANGED <<pods, healthy, created, unchecked, runs, stuck>>
    PROVE  IInv'
  <1> USE DEF IInv, Names
  <1>0. /\ jobs' = [jobs EXCEPT ![n] = NoJob]
        /\ script' = [script EXCEPT ![p].step = step, ![p].since = created]
    BY DEF Delete, AfterDelete
  <1>1. TypeOK'
    <2>1. jobs' \in [Names -> [id : 0..created, status : Outcomes \cup {"none", "active"}]]
      BY <1>0 DEF TypeOK, NoJob
    <2>2. script[p] \in [step : Steps, gate : BOOLEAN, since : 0..created] /\ created \in 0..created
      BY DEF TypeOK
    <2>3. [script[p] EXCEPT !.step = step, !.since = created]
             \in [step : Steps, gate : BOOLEAN, since : 0..created]
      BY <2>2 DEF Steps
    <2>4. script' \in [Operators -> [step : Steps, gate : BOOLEAN, since : 0..created]]
      BY <1>0, <2>3 DEF TypeOK
    <2> QED
      BY <2>1, <2>4 DEF TypeOK
  <1>2. PodInv'
    BY DEF PodInv
  <1>3. FreshInv'
    BY <1>0 DEF FreshInv, Fresh, TypeOK
  <1>4. IdleInv'
    BY <1>0 DEF IdleInv, At, TypeOK
  <1>5. ~At(p, "idle")
    BY DEF At
  <1>6. Undisturbed => AloneAt(p)'
    BY <1>0 DEF AloneInv, AloneAt, At, TypeOK, BatchPods, GateSpeaks
  <1>7. AloneInv' /\ (Undisturbed' => Undisturbed)
    BY <1>0, <1>5, <1>6, AloneStays DEF TypeOK
  <1>8. OneBatchPod'
    BY <1>7 DEF OneBatchPod, BatchPods
  <1> QED
    BY <1>1, <1>2, <1>3, <1>4, <1>7, <1>8

LEMMA WaitKeeps == ASSUME IInv, NEW p \in Operators, WaitForPods(p) PROVE IInv'
  <1> USE DEF IInv
  <1>0. /\ script' = [script EXCEPT ![p].step = "apply_batch"]
        /\ stuck' \in Nat /\ stuck' >= stuck
        /\ stuck' = stuck => BatchPods = {}
    BY DEF WaitForPods, Goto, PodsAreGone, TypeOK
  <1>1. TypeOK'
    BY <1>0 DEF WaitForPods, TypeOK, Steps
  <1>2. PodInv' /\ IdleInv'
    BY <1>0 DEF WaitForPods, PodInv, IdleInv, At, TypeOK
  <1>3. FreshInv'
    BY <1>0 DEF WaitForPods, FreshInv, Fresh, At, TypeOK
  <1>4. ASSUME Undisturbed, stuck' = stuck PROVE AloneAt(p)'
    BY <1>0, <1>4 DEF WaitForPods, AloneInv, AloneAt, At, TypeOK, BatchPods
  <1>5. ASSUME stuck' = stuck PROVE AloneInv' /\ (Undisturbed' => Undisturbed)
    BY <1>0, <1>4, <1>5, AloneStays DEF WaitForPods, At
  <1>6. ASSUME stuck' # stuck PROVE ~Undisturbed'
    BY <1>0, <1>6 DEF Undisturbed, TypeOK
  <1>7. AloneInv' /\ (Undisturbed' => Undisturbed)
    BY <1>5, <1>6 DEF AloneInv
  <1>8. OneBatchPod'
    BY <1>7 DEF WaitForPods, OneBatchPod, BatchPods
  <1> QED
    BY <1>1, <1>2, <1>3, <1>7, <1>8

(* A script that has ended, or given up, claims nothing any more. *)
LEMMA ExitKeeps ==
    ASSUME IInv, NEW p \in Operators, ~At(p, "idle"), Exit(p),
           UNCHANGED <<jobs, pods, healthy, created, unchecked, runs, stuck>>
    PROVE  IInv'
  <1> USE DEF IInv, Exit
  <1>1. TypeOK'
    BY DEF TypeOK, Steps, Idle
  <1>2. PodInv' /\ IdleInv'
    BY DEF PodInv, IdleInv, At, TypeOK, Idle
  <1>3. FreshInv'
    BY DEF FreshInv, Fresh, TypeOK, Idle
  <1>4. AloneInv' /\ (Undisturbed' => Undisturbed)
    <2>1. AloneAt(p)'
      BY DEF AloneAt, At, TypeOK, Idle
    <2>2. \A q \in Operators \ {p} : script'[q] = script[q]
      BY DEF TypeOK
    <2>3. stuck' >= stuck
      BY DEF TypeOK
    <2> QED
      BY <2>1, <2>2, <2>3, AloneStays
  <1>5. OneBatchPod'
    BY <1>4 DEF OneBatchPod, BatchPods
  <1> QED
    BY <1>1, <1>2, <1>3, <1>4, <1>5

LEMMA GoOnKeeps ==
    ASSUME IInv, NEW p \in Operators, At(p, "poll_batch"), jobs["batch"].status = "succeeded",
           Goto(p, "delete_gate"),
           UNCHANGED <<jobs, pods, healthy, created, unchecked, runs, stuck>>
    PROVE  IInv'
  <1> USE DEF IInv
  <1>1. /\ script' \in [Operators -> [step : Steps, gate : BOOLEAN, since : 0..created]]
        /\ script'[p].step = "delete_gate"
        /\ \A q \in Operators \ {p} : script'[q] = script[q]
    BY DEF TypeOK, Steps, Goto
  <1>2. TypeOK' /\ PodInv'
    BY <1>1 DEF TypeOK, PodInv
  <1>3. IdleInv'
    BY <1>1 DEF IdleInv, At
  <1>4. FreshInv'
    BY <1>1 DEF FreshInv, Fresh
  <1>5. Undisturbed => AloneAt(p)'
    BY <1>1 DEF AloneInv, AloneAt, At, BatchPods
  <1>6. AloneInv' /\ (Undisturbed' => Undisturbed)
    <2>1. ~At(p, "idle") /\ stuck' >= stuck
      BY DEF At, TypeOK
    <2> QED
      BY <1>1, <1>5, <2>1, AloneStays
  <1>7. OneBatchPod'
    BY <1>6 DEF OneBatchPod, BatchPods
  <1> QED
    BY <1>2, <1>3, <1>4, <1>6, <1>7

LEMMA PollBatchKeeps == ASSUME IInv, NEW p \in Operators, PollBatch(p) PROVE IInv'
  <1>1. CASE Exit(p)
    BY <1>1, ExitKeeps DEF PollBatch, At
  <1>2. CASE ~Exit(p)
    BY <1>2, GoOnKeeps DEF PollBatch
  <1> QED
    BY <1>1, <1>2

(* kubectl apply: what it does to Job n, and that it does nothing to others. *)
LEMMA ApplyFacts ==
    ASSUME TypeOK, PodInv, NEW n \in Names, Apply(n)
    PROVE  /\ created' \in Nat /\ created' >= created
           /\ jobs' \in [Names -> [id : 0..created', status : Outcomes \cup {"none", "active"}]]
           /\ pods' \subseteq Pods /\ PodInv'
           /\ \A m \in Names \ {n} : jobs'[m] = jobs[m]
           /\ jobs[n] # NoJob => UNCHANGED <<jobs, pods, created>>
           /\ jobs[n] = NoJob =>
                 /\ jobs'[n] = [id |-> created + 1, status |-> "active"]
                 /\ pods' = pods \cup {[job |-> n, id |-> created + 1, seen |-> "nothing"]}
  <1>1. CASE jobs[n] = NoJob
    <2>1. /\ created' = created + 1
          /\ jobs' = [jobs EXCEPT ![n] = [id |-> created + 1, status |-> "active"]]
          /\ pods' = pods \cup {[job |-> n, id |-> created + 1, seen |-> "nothing"]}
      BY <1>1 DEF Apply
    <2>2. created' \in Nat /\ created' >= created
      BY <2>1 DEF TypeOK
    <2>3. jobs' \in [Names -> [id : 0..created', status : Outcomes \cup {"none", "active"}]]
      BY <2>1, <2>2 DEF TypeOK
    <2>4. pods' \subseteq Pods
      BY <2>1 DEF TypeOK, Pods
    <2>5. PodInv'
      BY <2>1 DEF TypeOK, PodInv, Pods
    <2> QED
      BY <1>1, <2>1, <2>2, <2>3, <2>4, <2>5 DEF TypeOK
  <1>2. CASE jobs[n] # NoJob
    BY <1>2 DEF Apply, TypeOK, PodInv
  <1> QED
    BY <1>1, <1>2

LEMMA UncheckedIsBoolean ==
    ASSUME TypeOK, NEW n \in Names, Apply(n), UNCHANGED healthy
    PROVE  {healthy, unchecked}' \subseteq BOOLEAN
  <1>1. unchecked' = FALSE \/ unchecked' = unchecked
    BY DEF Apply
  <1> QED
    BY <1>1 DEF TypeOK

LEMMA ApplyBatchKeeps ==
    ASSUME IInv, NEW p \in Operators, At(p, "apply_batch"), Apply("batch"), Goto(p, "poll_batch"),
           UNCHANGED <<healthy, runs, stuck>>
    PROVE  IInv'
  <1> USE DEF IInv
  <1>0. /\ At(p, "apply_batch") /\ Apply("batch") /\ "batch" \in Names
        /\ script' = [script EXCEPT ![p].step = "poll_batch"]
        /\ UNCHANGED <<healthy, runs, stuck>>
    BY DEF Goto, Names
  <1>1. TypeOK'
    BY <1>0, ApplyFacts, UncheckedIsBoolean DEF TypeOK, Steps
  <1>2. PodInv' /\ IdleInv'
    BY <1>0, ApplyFacts DEF IdleInv, At, TypeOK
  <1>3. FreshInv'
    BY <1>0, ApplyFacts DEF FreshInv, Fresh, At, TypeOK, Names
  <1>4. ASSUME Undisturbed
        PROVE  BatchPods' = {[job |-> "batch", id |-> created + 1, seen |-> "nothing"]}
               /\ jobs'["batch"] = [id |-> created + 1, status |-> "active"]
    BY <1>0, <1>4, ApplyFacts DEF AloneInv, AloneAt, BatchPods
  <1>5. Undisturbed => AloneAt(p)'
    BY <1>0, <1>4 DEF AloneAt, At, TypeOK
  <1>6. AloneInv' /\ (Undisturbed' => Undisturbed)
    <2>1. ~At(p, "idle") /\ stuck' >= stuck
      BY <1>0 DEF At, TypeOK
    <2>2. \A q \in Operators \ {p} : script'[q] = script[q]
      BY <1>0 DEF TypeOK
    <2> QED
      BY <1>0, <1>5, <2>1, <2>2, AloneStays
  <1>7. OneBatchPod'
    BY <1>4, <1>6 DEF OneBatchPod
  <1> QED
    BY <1>1, <1>2, <1>3, <1>6, <1>7

LEMMA ApplyGateKeeps ==
    ASSUME IInv, NEW p \in Operators, At(p, "apply_gate"), Apply("gate"), Goto(p, "poll_gate"),
           UNCHANGED <<healthy, runs, stuck>>
    PROVE  IInv'
  <1> USE DEF IInv
  <1>0. /\ At(p, "apply_gate") /\ Apply("gate") /\ "gate" \in Names
        /\ script' = [script EXCEPT ![p].step = "poll_gate"]
        /\ UNCHANGED <<healthy, runs, stuck>>
    BY DEF Goto, Names
  <1>1. TypeOK'
    BY <1>0, ApplyFacts, UncheckedIsBoolean DEF TypeOK, Steps
  <1>2. PodInv' /\ IdleInv'
    BY <1>0, ApplyFacts DEF IdleInv, At, TypeOK
  <1>3. FreshInv'
    BY <1>0, ApplyFacts DEF FreshInv, Fresh, At, TypeOK, Names
  <1>4. BatchPods' = BatchPods
    BY <1>0, ApplyFacts DEF BatchPods
  <1>5. Undisturbed => GateSpeaks'
    BY <1>0, ApplyFacts DEF AloneInv, AloneAt, GateSpeaks, PodInv, TypeOK, Pods
  <1>6. Undisturbed => AloneAt(p)'
    BY <1>0, <1>4, <1>5 DEF AloneInv, AloneAt, At, TypeOK
  <1>7. AloneInv' /\ (Undisturbed' => Undisturbed)
    <2>1. ~At(p, "idle") /\ stuck' >= stuck
      BY <1>0 DEF At, TypeOK
    <2>2. \A q \in Operators \ {p} : script'[q] = script[q]
      BY <1>0 DEF TypeOK
    <2> QED
      BY <1>0, <1>6, <2>1, <2>2, AloneStays
  <1>8. OneBatchPod'
    BY <1>4, <1>7 DEF OneBatchPod
  <1> QED
    BY <1>1, <1>2, <1>3, <1>7, <1>8

----------------------------------------------------------------------------
(* The steps of the pods and of Kubernetes. *)

LEMMA WriteKeeps == ASSUME IInv, NEW x \in pods, WriteTables(x) PROVE IInv'
  <1> USE DEF IInv
  <1>0. /\ x \in BatchPods /\ healthy' \in BOOLEAN
        /\ UNCHANGED <<jobs, pods, script, created, unchecked, runs, stuck>>
    BY DEF WriteTables, BatchPods
  <1>1. TypeOK'
    BY <1>0 DEF TypeOK
  <1>2. PodInv' /\ FreshInv' /\ IdleInv'
    BY <1>0 DEF PodInv, FreshInv, Fresh, IdleInv, At
  <1>3. ASSUME Undisturbed, NEW p \in Operators PROVE AloneAt(p)'
    <2>1. AloneAt(p)
      BY <1>3 DEF AloneInv
    <2> QED
      BY <1>0, <2>1 DEF AloneAt, At, BatchPods
  <1>4. AloneInv' /\ (Undisturbed' => Undisturbed)
    BY <1>0, <1>3, AloneStaysToo
  <1>5. OneBatchPod'
    BY <1>0, <1>4 DEF OneBatchPod, BatchPods
  <1> QED
    BY <1>1, <1>2, <1>4, <1>5

LEMMA EvaluateKeeps == ASSUME IInv, NEW x \in pods, EvaluateGate(x) PROVE IInv'
  <1> USE DEF IInv
  <1> DEFINE read == [job |-> x.job, id |-> x.id, seen |-> IF healthy THEN "good" ELSE "bad"]
  <1>0. /\ x.job = "gate" /\ x \in Pods
        /\ pods' = (pods \ {x}) \cup {read}
        /\ UNCHANGED <<jobs, healthy, script, created, unchecked, runs, stuck>>
    BY DEF EvaluateGate, TypeOK, Pods
  <1>1. read \in Pods /\ (read.seen = "good" => healthy)
    BY <1>0 DEF Pods, TypeOK
  <1>2. TypeOK'
    BY <1>0, <1>1 DEF TypeOK
  <1>3. PodInv'
    BY <1>0 DEF PodInv
  <1>4. FreshInv' /\ IdleInv'
    BY <1>0 DEF FreshInv, Fresh, IdleInv, At
  <1>5. BatchPods' = BatchPods
    BY <1>0 DEF BatchPods
  <1>6. GateSpeaks => GateSpeaks'
    BY <1>0, <1>1 DEF GateSpeaks
  <1>7. ASSUME Undisturbed, NEW p \in Operators PROVE AloneAt(p)'
    <2>1. AloneAt(p)
      BY <1>7 DEF AloneInv
    <2> QED
      BY <1>0, <1>5, <1>6, <2>1 DEF AloneAt, At
  <1>8. AloneInv' /\ (Undisturbed' => Undisturbed)
    BY <1>0, <1>7, AloneStaysToo
  <1>9. OneBatchPod'
    BY <1>5, <1>8 DEF OneBatchPod
  <1> QED
    BY <1>2, <1>3, <1>4, <1>8, <1>9

LEMMA EndKeeps == ASSUME IInv, NEW x \in pods, EndPod(x) PROVE IInv'
  <1> USE DEF IInv
  <1>0. PICK outcome \in IF x.job = "batch" \/ x.seen = "good" THEN Outcomes ELSE {"failed"} :
          LET own == jobs[x.job].id = x.id
          IN  /\ jobs' = IF own THEN [jobs EXCEPT ![x.job].status = outcome] ELSE jobs
              /\ unchecked' = (unchecked \/ (own /\ x.job = "batch" /\ outcome = "succeeded"))
    BY DEF EndPod
  <1>1. /\ pods' = pods \ {x} /\ x \in Pods /\ x.job \in Names /\ outcome \in Outcomes
        /\ UNCHANGED <<healthy, script, created, runs, stuck>>
        /\ x.job = "gate" /\ outcome = "succeeded" => x.seen = "good"
    BY <1>0 DEF EndPod, TypeOK, Pods, Outcomes
  <1>2. /\ jobs' \in [Names -> [id : 0..created, status : Outcomes \cup {"none", "active"}]]
        /\ \A n \in Names : jobs'[n].id = jobs[n].id
        /\ \A n \in Names : n # x.job \/ jobs[n].id # x.id => jobs'[n] = jobs[n]
        /\ jobs[x.job].id = x.id => jobs'[x.job].status = outcome
    BY <1>0, <1>1 DEF TypeOK
  <1>3. TypeOK'
    <2>1. unchecked' \in BOOLEAN
      BY <1>0
    <2>2. {healthy, unchecked}' \subseteq BOOLEAN
      BY <1>1, <2>1 DEF TypeOK
    <2> QED
      BY <1>1, <1>2, <2>2 DEF TypeOK
  <1>4. PodInv' /\ IdleInv'
    BY <1>1 DEF PodInv, IdleInv, At
  <1>5. FreshInv'
    <2>1. ASSUME NEW p \in Operators, NEW n \in Names, Fresh(p, n) PROVE Fresh(p, n)'
      <3>1. CASE jobs[n] = NoJob
        <4>1. jobs[n].id # x.id
          BY <1>1, <3>1 DEF PodInv, NoJob
        <4> QED
          BY <1>2, <3>1, <4>1 DEF Fresh
      <3>2. CASE jobs[n].id > script[p].since
        BY <1>1, <1>2, <3>2 DEF Fresh
      <3> QED
        BY <2>1, <3>1, <3>2 DEF Fresh
    <2> QED
      BY <1>1, <2>1 DEF FreshInv, Names
  <1>6. BatchPods' = BatchPods \ {x}
    BY <1>1 DEF BatchPods
  <1>7. ASSUME NEW n \in Names, jobs[n] = NoJob PROVE jobs'[n] = NoJob
    <2>1. jobs[n].id # x.id
      BY <1>1, <1>7 DEF PodInv, NoJob
    <2> QED
      BY <1>2, <1>7, <2>1
  <1>8. GateSpeaks => GateSpeaks'
    BY <1>1, <1>2 DEF GateSpeaks, Names
  <1>9. ASSUME Undisturbed, NEW p \in Operators PROVE AloneAt(p)'
    <2>0. AloneAt(p)
      BY <1>9 DEF AloneInv
    <2>1. At(p, "wait")' => jobs'["batch"] = NoJob
      BY <1>1, <1>7, <2>0 DEF AloneAt, At, Names
    <2>2. At(p, "apply_batch")' => jobs'["batch"] = NoJob /\ BatchPods' = {}
      BY <1>1, <1>6, <1>7, <2>0 DEF AloneAt, At, Names
    <2>3. ASSUME At(p, "poll_batch")', NEW y \in BatchPods'
          PROVE  y.id = jobs'["batch"].id /\ jobs'["batch"].status = "active"
      <3>1. y \in BatchPods /\ y # x /\ y.id = jobs["batch"].id /\ jobs["batch"].status = "active"
        BY <1>1, <1>6, <2>0, <2>3 DEF AloneAt, At
      <3>2. x.job = "batch" => x.id # jobs["batch"].id
        BY <3>1 DEF PodInv, BatchPods
      <3>3. jobs'["batch"] = jobs["batch"]
        BY <1>2, <3>2 DEF Names
      <3> QED
        BY <3>1, <3>3
    <2>4. script'[p].step \in {"delete_gate", "apply_gate", "poll_gate"} /\ script'[p].gate =>
             BatchPods' = {}
      BY <1>1, <1>6, <2>0 DEF AloneAt
    <2>5. At(p, "apply_gate")' => jobs'["gate"] = NoJob
      BY <1>1, <1>7, <2>0 DEF AloneAt, At, Names
    <2>6. At(p, "poll_gate")' /\ script'[p].gate => GateSpeaks'
      BY <1>1, <1>8, <2>0 DEF AloneAt, At
    <2> QED
      BY <2>1, <2>2, <2>3, <2>4, <2>5, <2>6 DEF AloneAt
  <1>a. AloneInv' /\ (Undisturbed' => Undisturbed)
    BY <1>1, <1>9, AloneStaysToo
  <1>b. OneBatchPod'
    BY <1>6, <1>a DEF OneBatchPod
  <1> QED
    BY <1>3, <1>4, <1>5, <1>a, <1>b

LEMMA ExpireKeeps == ASSUME IInv, NEW n \in Names, Expire(n) PROVE IInv'
  <1> USE DEF IInv
  <1>0. /\ jobs' = [jobs EXCEPT ![n] = NoJob]
        /\ \A p \in Operators : script[p].step \notin {"poll_batch", "poll_gate"}
        /\ UNCHANGED <<pods, healthy, script, created, unchecked, runs, stuck>>
    BY DEF Expire
  <1>1. TypeOK'
    BY <1>0 DEF TypeOK, NoJob
  <1>2. PodInv' /\ IdleInv'
    BY <1>0 DEF PodInv, IdleInv, At
  <1>3. FreshInv'
    BY <1>0 DEF FreshInv, Fresh, TypeOK, Names
  <1>4. ASSUME Undisturbed, NEW p \in Operators PROVE AloneAt(p)'
    <2>1. AloneAt(p)
      BY <1>4 DEF AloneInv
    <2> QED
      BY <1>0, <2>1 DEF AloneAt, At, BatchPods, TypeOK, Names
  <1>5. AloneInv' /\ (Undisturbed' => Undisturbed)
    BY <1>0, <1>4, AloneStaysToo
  <1>6. OneBatchPod'
    BY <1>0, <1>5 DEF OneBatchPod, BatchPods
  <1> QED
    BY <1>1, <1>2, <1>3, <1>5, <1>6

----------------------------------------------------------------------------
(* The theorems. *)

LEMMA StutterKeeps == ASSUME IInv, UNCHANGED vars PROVE IInv'
  <1> USE DEF IInv, vars
  <1>1. TypeOK' /\ PodInv' /\ FreshInv' /\ IdleInv'
    BY DEF TypeOK, PodInv, FreshInv, Fresh, IdleInv, At
  <1>2. AloneInv' /\ OneBatchPod'
    BY DEF AloneInv, AloneAt, At, GateSpeaks, OneBatchPod, BatchPods, Undisturbed
  <1> QED
    BY <1>1, <1>2

LEMMA NextKeeps == IInv /\ [Next]_vars => IInv'
  <1> SUFFICES ASSUME IInv, [Next]_vars PROVE IInv'
    OBVIOUS
  <1>1. ASSUME NEW p \in Operators, RunBatch(p) PROVE IInv'
    <2>1. PICK gate \in GateChoices : Launch(p, "delete_batch", gate)
      BY <1>1 DEF RunBatch
    <2>2. gate \in BOOLEAN
      BY RunsAssumption DEF RunsAssumption
    <2> QED
      BY <1>1, <2>1, <2>2, LaunchKeeps DEF RunBatch
  <1>2. ASSUME NEW p \in Operators, RunGate(p) PROVE IInv'
    BY <1>2, LaunchKeeps DEF RunGate
  <1>3. ASSUME NEW p \in Operators, DeleteBatch(p) PROVE IInv'
    BY <1>3, DeleteKeeps DEF DeleteBatch, Names
  <1>4. ASSUME NEW p \in Operators, DeleteGate(p) PROVE IInv'
    BY <1>4, DeleteKeeps DEF DeleteGate, Names
  <1>5. ASSUME NEW p \in Operators, PollGate(p) \/ Timeout(p) PROVE IInv'
    <2>1. ~At(p, "idle") /\ Exit(p)
      BY <1>5 DEF PollGate, Timeout, At, PollingSteps
    <2> QED
      BY <1>5, <2>1, ExitKeeps DEF PollGate, Timeout
  <1>6. ASSUME NEW p \in Operators, ApplyBatch(p) PROVE IInv'
    <2>1. ASSUME ApplyRefused(p, "batch") PROVE IInv'
      BY <1>6, <2>1, ExitKeeps DEF ApplyBatch, ApplyRefused, At
    <2>2. ASSUME Apply("batch"), Goto(p, "poll_batch") PROVE IInv'
      BY <1>6, <2>2, ApplyBatchKeeps DEF ApplyBatch
    <2> QED
      BY <1>6, <2>1, <2>2 DEF ApplyBatch
  <1>7. ASSUME NEW p \in Operators, ApplyGate(p) PROVE IInv'
    <2>1. ASSUME ApplyRefused(p, "gate") PROVE IInv'
      BY <1>7, <2>1, ExitKeeps DEF ApplyGate, ApplyRefused, At
    <2>2. ASSUME Apply("gate"), Goto(p, "poll_gate") PROVE IInv'
      BY <1>7, <2>2, ApplyGateKeeps DEF ApplyGate
    <2> QED
      BY <1>7, <2>1, <2>2 DEF ApplyGate
  <1>8. ASSUME NEW x \in pods, WriteTables(x) \/ EvaluateGate(x) \/ EndPod(x) PROVE IInv'
    BY <1>8, WriteKeeps, EvaluateKeeps, EndKeeps
  <1> QED
    BY <1>1, <1>2, <1>3, <1>4, <1>5, <1>6, <1>7, <1>8, WaitKeeps, PollBatchKeeps, ExpireKeeps, StutterKeeps DEF Next, ScriptStep, PodEnds

LEMMA AlwaysIInv == Spec => []IInv
  BY InitKeeps, NextKeeps, PTL DEF Spec

(***************************************************************************)
(* Every variable of the scripts and their Jobs holds what the code may    *)
(* put in it, and every Job number in use was given out.                   *)
(***************************************************************************)
THEOREM RunsTypeCorrect == Spec => []TypeOK
  <1>1. IInv => TypeOK
    BY DEF IInv
  <1> QED
    BY <1>1, AlwaysIInv, PTL

(***************************************************************************)
(* The outcome that run-batch.sh or run-quality-gate.sh polls by the name  *)
(* of a Job is never that of a Job from before its own delete, whoever     *)
(* else deletes, creates and waits at the same time.                       *)
(***************************************************************************)
THEOREM FreshCorrect == Spec => []VerdictIsFresh
  <1>1. IInv => VerdictIsFresh
    BY DEF IInv, FreshInv, Fresh, VerdictIsFresh, Believes, At, Names, NoJob, Outcomes
  <1> QED
    BY <1>1, AlwaysIInv, PTL

(***************************************************************************)
(* However often one person runs the scripts, and wherever a run timed     *)
(* out, two batch pods never write the tables at once unless a wait for an *)
(* old pod has given up.                                                   *)
(***************************************************************************)
THEOREM OnePodCorrect == Spec => []OneBatchPod
  <1>1. IInv => OneBatchPod
    BY DEF IInv
  <1> QED
    BY <1>1, AlwaysIInv, PTL

(***************************************************************************)
(* When somebody alone runs run-batch.sh and it reports a green gate, the  *)
(* tables are those the gate has read.                                     *)
(***************************************************************************)
THEOREM HealthyCorrect == Spec => []GreenMeansHealthy
  <1>1. IInv => GreenMeansHealthy
    BY DEF IInv, AloneInv, AloneAt, GateSpeaks, GreenMeansHealthy
  <1> QED
    BY <1>1, AlwaysIInv, PTL
=============================================================================
