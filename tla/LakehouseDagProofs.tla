-------------------------- MODULE LakehouseDagProofs ---------------------------
(***************************************************************************)
(* Proofs about the gate and the DAG, for any set of gates and of edges    *)
(* and any number of writes and faults.                                    *)
(***************************************************************************)
EXTENDS LakehouseDag, TLAPS

(***************************************************************************)
(* The inductive invariant.  A runner has passed so far exactly if every   *)
(* layer that it has read is a success, and while the tables are as they   *)
(* were when it started, none of these layers is bad.  A gate pod of the   *)
(* DAG only runs inside its task, and what comes after it has seen it end  *)
(* well.                                                                   *)
(***************************************************************************)
ReadBefore(step) ==
    CASE step \in {"idle", "bronze"} -> {}
      [] step = "silver" -> {"bronze"}
      [] step = "gold" -> {"bronze", "silver"}
      [] OTHER -> Layers

RunnerInv(g) ==
    LET r == runner[g]
    IN  /\ r.passed <=> \A l \in ReadBefore(r.step) : r.stats[l].success
        /\ r.step # "idle" /\ r.passed /\ r.quiet => bad \cap ReadBefore(r.step) = {}

DagInv ==
    /\ ~At("dag", "idle") => task = "gate" /\ status["dag"] = "active"
    /\ task \in {"lineage", "success"} => status["dag"] = "succeeded"
    /\ task = "success" => marquez = Events

IInv ==
    /\ TypeOK
    /\ \A g \in Gates : RunnerInv(g)
    /\ MetricsAgree
    /\ GreenMeansGood
    /\ DagInv
    /\ NoEndWithoutStart

USE GateAssumption, DagAssumption

LEMMA InitKeeps == Init => IInv
  BY DEF Init, GateInit, IInv, TypeOK, GateTypeOK, Runners, Stats, Stat, Idle, NoStats, NotRun,
         RunnerInv, ReadBefore, MetricsAgree, GreenMeansGood, DagInv, NoEndWithoutStart, At, Over,
         After

----------------------------------------------------------------------------
(* The steps of a gate, in whatever pod it runs. *)

LEMMA StartKeeps ==
    ASSUME IInv, NEW g \in Gates, StartGate(g), UNCHANGED <<task, marquez>>,
           g = "dag" => task = "gate"
    PROVE  IInv'
  <1> USE DEF IInv, StartGate, At
  <1>1. TypeOK'
    BY DEF TypeOK, GateTypeOK, Runners, Stats, Idle, NoStats, NotRun, Stat, After
  <1>2. \A h \in Gates : RunnerInv(h)'
    BY DEF TypeOK, GateTypeOK, RunnerInv, ReadBefore, Idle
  <1>3. MetricsAgree' /\ NoEndWithoutStart'
    BY DEF MetricsAgree, NoEndWithoutStart
  <1>4. GreenMeansGood'
    BY DEF GreenMeansGood, TypeOK, GateTypeOK
  <1>5. DagInv'
    BY DEF DagInv, TypeOK, GateTypeOK
  <1> QED
    BY <1>1, <1>2, <1>3, <1>4, <1>5

LEMMA ResultFacts ==
    /\ {NotRun, Passed, Failed, Errored} \subseteq Stat
    /\ Passed.success /\ Passed.success \in BOOLEAN
    /\ ~Failed.success /\ Failed.success \in BOOLEAN
    /\ ~Errored.success /\ Errored.success \in BOOLEAN
  BY DEF Passed, Failed, Errored, NotRun, Stat

LEMMA CheckpointKeeps ==
    ASSUME IInv, NEW g \in Gates, RunCheckpoint(g), UNCHANGED <<task, marquez>>
    PROVE  IInv'
  <1> USE DEF IInv
  <1> DEFINE layer == runner[g].step
  <1>1. PICK result \in {Passed, Failed, Errored} :
          /\ layer \in Layers
          /\ result = Passed => layer \notin bad
          /\ runner' = [runner EXCEPT ![g].step = After[layer], ![g].stats[layer] = result,
                                      ![g].passed = runner[g].passed /\ result.success]
          /\ Fault \/ UNCHANGED faults
          /\ UNCHANGED <<bad, status, pushed, writes, task, marquez>>
    BY DEF RunCheckpoint, StillPassed
  <1> DEFINE r == runner[g]
             stats == [r.stats EXCEPT ![layer] = result]
  <1>r. /\ r \in Runners /\ r.stats \in Stats /\ r.passed \in BOOLEAN
        /\ result \in Stat /\ result.success \in BOOLEAN
        /\ result.success => result = Passed
    <2>1. r \in Runners
      BY DEF TypeOK, GateTypeOK
    <2>2. r.stats \in Stats /\ r.passed \in BOOLEAN
      BY <2>1 DEF Runners
    <2>3. result.success \in BOOLEAN /\ (result.success => result = Passed)
      BY ResultFacts
    <2> QED
      BY <2>1, <2>2, <2>3, ResultFacts
  <1>s. /\ stats \in Stats
        /\ stats[layer] = result
        /\ \A l \in Layers \ {layer} : stats[l] = r.stats[l]
    BY <1>1, <1>r DEF Stats
  <1>t. /\ runner'[g].step = After[layer] /\ runner'[g].stats = stats
        /\ runner'[g].passed = (r.passed /\ result.success)
        /\ runner'[g].quiet = r.quiet
        /\ \A h \in Gates \ {g} : runner'[h] = runner[h]
        /\ runner' \in [Gates -> Runners]
    <2>1. After[layer] \in DOMAIN After \cup {"idle", "exit"}
      BY <1>1 DEF After, Layers
    <2>2. [r EXCEPT !.step = After[layer], !.stats[layer] = result,
                    !.passed = r.passed /\ result.success] \in Runners
      BY <2>1, <1>r, <1>s DEF Runners
    <2> QED
      BY <2>2, <1>1, <1>r, <1>s DEF TypeOK, GateTypeOK, Runners
  <1>2. TypeOK'
    BY <1>1, <1>t DEF TypeOK, GateTypeOK, Fault
  <1>3. \A h \in Gates : RunnerInv(h)'
    <2>1. RunnerInv(g)'
      <3>1. /\ ReadBefore(runner'[g].step) = ReadBefore(layer) \cup {layer}
            /\ layer \notin ReadBefore(layer) /\ ReadBefore(layer) \subseteq Layers
            /\ layer # "idle"
        BY <1>1, <1>t DEF ReadBefore, After, Layers
      <3>2. RunnerInv(g)
        OBVIOUS
      <3>3. runner'[g].passed <=> \A l \in ReadBefore(runner'[g].step) : runner'[g].stats[l].success
        <4>1. r.passed <=> \A l \in ReadBefore(layer) : r.stats[l].success
          BY <3>2 DEF RunnerInv
        <4>2. \A l \in ReadBefore(layer) : stats[l] = r.stats[l]
          BY <3>1, <1>s
        <4>3. stats[layer] = result
          BY <1>s
        <4>4. (r.passed /\ result.success)
              <=> \A l \in ReadBefore(layer) \cup {layer} : stats[l].success
          <5> HIDE DEF stats, layer, r
          <5> QED BY <4>1, <4>2, <4>3
        <4> QED
          <5> HIDE DEF stats, layer, r
          <5> QED BY <4>4, <3>1, <1>t
      <3>4. runner'[g].passed /\ runner'[g].quiet => bad \cap ReadBefore(runner'[g].step) = {}
        BY <3>1, <3>2, <1>t, <1>r, <1>1 DEF RunnerInv
      <3> QED
        BY <3>3, <3>4, <1>1 DEF RunnerInv
    <2>2. ASSUME NEW h \in Gates \ {g} PROVE RunnerInv(h)'
      BY <1>1, <1>t, RunnerInv(h) DEF RunnerInv
    <2> QED
      BY <2>1, <2>2
  <1>4. MetricsAgree' /\ NoEndWithoutStart'
    BY <1>1 DEF MetricsAgree, NoEndWithoutStart
  <1>5. GreenMeansGood'
    BY <1>1 DEF GreenMeansGood, TypeOK, GateTypeOK
  <1>6. DagInv'
    BY <1>1 DEF DagInv, TypeOK, GateTypeOK, At, Layers
  <1> QED
    BY <1>2, <1>3, <1>4, <1>5, <1>6

LEMMA ChurnKeeps ==
    ASSUME IInv, NEW g \in Gates, CheckChurn(g), UNCHANGED <<task, marquez>>
    PROVE  IInv'
  <1> USE DEF IInv
  <1> DEFINE r == runner[g]
  <1>1. PICK consistent \in BOOLEAN :
          /\ runner' = [runner EXCEPT ![g].step = "push",
                                      ![g].passed = r.passed /\ consistent,
                                      ![g].stats = GoldStats(g, consistent)]
          /\ r.step = "churn" /\ (UNCHANGED faults \/ Fault)
          /\ UNCHANGED <<bad, status, pushed, writes, task, marquez>>
    BY DEF CheckChurn, After, At
  <1>r. r \in Runners /\ r.stats \in Stats /\ r.passed \in BOOLEAN
    BY DEF TypeOK, GateTypeOK, Runners
  <1> DEFINE stats == GoldStats(g, consistent)
  <1>s. /\ stats \in Stats
        /\ consistent => stats = r.stats
        /\ ~consistent => ~stats["gold"].success
    <2>1. CASE consistent
      BY <2>1, <1>r DEF GoldStats
    <2>2. CASE ~consistent
      <3>1. r.stats["gold"] \in Stat
        BY <1>r DEF Stats, Layers
      <3>2. LET x == [r.stats["gold"] EXCEPT !.success = FALSE]
            IN  x \in Stat /\ ~x.success
        BY <3>1 DEF Stat
      <3> QED
        BY <2>2, <3>2, <1>r DEF GoldStats, Stats, Layers
    <2> QED
      BY <2>1, <2>2
  <1>t. /\ runner'[g].step = "push" /\ runner'[g].stats = stats
        /\ runner'[g].passed = (r.passed /\ consistent)
        /\ runner'[g].quiet = r.quiet
        /\ \A h \in Gates \ {g} : runner'[h] = runner[h]
        /\ runner' \in [Gates -> Runners]
    BY <1>1, <1>r, <1>s DEF TypeOK, GateTypeOK, Runners, After
  <1>2. TypeOK'
    BY <1>1, <1>t DEF TypeOK, GateTypeOK, Fault
  <1>3. \A h \in Gates : RunnerInv(h)'
    <2>1. RunnerInv(g)'
      <3>1. ReadBefore(runner'[g].step) = Layers /\ ReadBefore(r.step) = Layers /\ "gold" \in Layers
        BY <1>1, <1>t DEF ReadBefore, Layers
      <3>2. RunnerInv(g)
        OBVIOUS
      <3>3. (r.passed /\ consistent) <=> \A l \in Layers : stats[l].success
        BY <3>1, <3>2, <1>s, <1>r DEF RunnerInv
      <3> QED
        BY <3>1, <3>2, <3>3, <1>t, <1>r, <1>1 DEF RunnerInv
    <2>2. ASSUME NEW h \in Gates \ {g} PROVE RunnerInv(h)'
      BY <1>1, <1>t, RunnerInv(h) DEF RunnerInv
    <2> QED
      BY <2>1, <2>2
  <1>4. MetricsAgree' /\ NoEndWithoutStart'
    BY <1>1 DEF MetricsAgree, NoEndWithoutStart
  <1>5. GreenMeansGood'
    BY <1>1 DEF GreenMeansGood, TypeOK, GateTypeOK
  <1>6. DagInv'
    BY <1>1 DEF DagInv, TypeOK, GateTypeOK, At
  <1> QED
    BY <1>2, <1>3, <1>4, <1>5, <1>6

LEMMA PushKeeps ==
    ASSUME IInv, NEW g \in Gates, PushMetrics(g), UNCHANGED <<task, marquez>>
    PROVE  IInv'
  <1> USE DEF IInv
  <1> DEFINE r == runner[g]
  <1>1. /\ runner' = [runner EXCEPT ![g].step = "exit"]
        /\ r.step = "push" /\ (UNCHANGED faults \/ Fault)
        /\ UNCHANGED <<bad, status, writes, task, marquez>>
        /\ UNCHANGED pushed \/ pushed' = [passed |-> r.passed, stats |-> r.stats]
    BY DEF PushMetrics, Metrics, After, At
  <1>r. r \in Runners /\ r.stats \in Stats /\ r.passed \in BOOLEAN
    BY DEF TypeOK, GateTypeOK, Runners
  <1>t. /\ runner'[g] = [r EXCEPT !.step = "exit"]
        /\ \A h \in Gates \ {g} : runner'[h] = runner[h]
        /\ runner' \in [Gates -> Runners]
    BY <1>1, <1>r DEF TypeOK, GateTypeOK, Runners, After
  <1>2. TypeOK'
    BY <1>1, <1>t, <1>r DEF TypeOK, GateTypeOK, Fault
  <1>3. \A h \in Gates : RunnerInv(h)'
    <2>1. RunnerInv(g)'
      BY <1>1, <1>t, <1>r, RunnerInv(g) DEF RunnerInv, ReadBefore, Runners
    <2>2. ASSUME NEW h \in Gates \ {g} PROVE RunnerInv(h)'
      BY <1>1, <1>t, RunnerInv(h) DEF RunnerInv
    <2> QED
      BY <2>1, <2>2
  <1>4. MetricsAgree'
    <2>1. r.passed <=> \A l \in Layers : r.stats[l].success
      BY <1>1, RunnerInv(g) DEF RunnerInv, ReadBefore
    <2> QED
      BY <2>1, <1>1 DEF MetricsAgree
  <1>5. GreenMeansGood' /\ NoEndWithoutStart'
    BY <1>1 DEF GreenMeansGood, NoEndWithoutStart, TypeOK, GateTypeOK
  <1>6. DagInv'
    BY <1>1 DEF DagInv, TypeOK, GateTypeOK, At
  <1> QED
    BY <1>2, <1>3, <1>4, <1>5, <1>6

(* A pod that ends well has read all layers, and passed. *)
LEMMA EndKeeps ==
    ASSUME IInv, NEW g \in Gates, NEW outcome \in {"succeeded", "failed"},
           Ended(g, outcome), ~At(g, "idle"), UNCHANGED <<task, marquez>>,
           UNCHANGED faults \/ Fault,
           outcome = "succeeded" => At(g, "exit") /\ runner[g].passed
    PROVE  IInv'
  <1> USE DEF IInv, Ended
  <1> DEFINE r == runner[g]
  <1>r. r \in Runners /\ r.quiet \in BOOLEAN
    BY DEF TypeOK, GateTypeOK, Runners
  <1>t. /\ runner'[g] = [Idle EXCEPT !.quiet = r.quiet]
        /\ runner'[g].quiet = r.quiet /\ runner'[g].step = "idle"
        /\ \A h \in Gates \ {g} : runner'[h] = runner[h] /\ status'[h] = status[h]
        /\ runner' \in [Gates -> Runners]
        /\ status'[g] = outcome
    BY <1>r DEF TypeOK, GateTypeOK, Runners, Idle, NoStats, NotRun, Stat, Stats
  <1>1. TypeOK'
    BY <1>t DEF TypeOK, GateTypeOK, Fault
  <1>2. \A h \in Gates : RunnerInv(h)'
    <2>1. RunnerInv(g)'
      BY <1>t DEF RunnerInv, ReadBefore, Idle
    <2>2. ASSUME NEW h \in Gates \ {g} PROVE RunnerInv(h)'
      BY <1>t, RunnerInv(h) DEF RunnerInv
    <2> QED
      BY <2>1, <2>2
  <1>3. MetricsAgree' /\ NoEndWithoutStart'
    BY DEF MetricsAgree, NoEndWithoutStart
  <1>4. GreenMeansGood'
    <2>1. CASE outcome = "succeeded"
      <3>1. r.quiet => bad \cap Layers = {}
        BY <2>1, RunnerInv(g) DEF RunnerInv, ReadBefore, At
      <3> QED
        BY <3>1, <1>t DEF GreenMeansGood, TypeOK, GateTypeOK, Checks
    <2>2. CASE outcome = "failed"
      BY <2>2, <1>t DEF GreenMeansGood
    <2> QED
      BY <2>1, <2>2
  <1>5. DagInv'
    BY <1>t DEF DagInv, At
  <1> QED
    BY <1>1, <1>2, <1>3, <1>4, <1>5

LEMMA GateStepKeeps ==
    ASSUME IInv, NEW g \in Gates, GateStep(g), UNCHANGED <<task, marquez>>
    PROVE  IInv'
  <1>1. CASE RunCheckpoint(g)
    BY <1>1, CheckpointKeeps
  <1>2. CASE CheckChurn(g)
    BY <1>2, ChurnKeeps
  <1>3. CASE PushMetrics(g)
    BY <1>3, PushKeeps
  <1>4. CASE Exit(g)
    BY <1>4, EndKeeps DEF Exit, At
  <1>5. CASE Abort(g)
    BY <1>5, EndKeeps DEF Abort
  <1> QED
    BY <1>1, <1>2, <1>3, <1>4, <1>5 DEF GateStep

----------------------------------------------------------------------------
(* The world around, and the DAG. *)

LEMMA WriteKeeps ==
    ASSUME IInv, WriteTables, UNCHANGED <<task, marquez>>
    PROVE  IInv'
  <1> USE DEF IInv, WriteTables
  <1>1. \A g \in Gates : /\ runner'[g] = [runner[g] EXCEPT !.quiet = FALSE]
                         /\ runner[g] \in Runners /\ runner'[g] \in Runners
    BY DEF TypeOK, GateTypeOK, Runners
  <1>2. \A g \in Gates : /\ ~runner'[g].quiet
                         /\ runner'[g].step = runner[g].step
                         /\ runner'[g].stats = runner[g].stats
                         /\ runner'[g].passed = runner[g].passed
    BY <1>1 DEF Runners
  <1>3. TypeOK'
    BY <1>1 DEF TypeOK, GateTypeOK
  <1>4. \A g \in Gates : RunnerInv(g)'
    BY <1>2 DEF RunnerInv
  <1>5. MetricsAgree' /\ NoEndWithoutStart' /\ GreenMeansGood'
    BY <1>2 DEF MetricsAgree, NoEndWithoutStart, GreenMeansGood
  <1>6. DagInv'
    BY <1>2 DEF DagInv, At
  <1> QED
    BY <1>3, <1>4, <1>5, <1>6

LEMMA ExpireKeeps ==
    ASSUME IInv, ExpireJob, UNCHANGED <<task, marquez>>
    PROVE  IInv'
  BY DEF IInv, ExpireJob, TypeOK, GateTypeOK, RunnerInv, MetricsAgree, GreenMeansGood,
         DagInv, NoEndWithoutStart, At

LEMMA PostKeeps ==
    ASSUME IInv, PostEvent
    PROVE  IInv'
  <1> USE DEF IInv
  <1>1. PICK e \in Events : /\ IsNext(e)
                            /\ marquez' \in {marquez, marquez \cup {e}}
                            /\ UNCHANGED task \/ task' = "failed"
                            /\ UNCHANGED faults \/ Fault
                            /\ task = "lineage"
                            /\ UNCHANGED <<bad, runner, status, pushed, writes>>
    BY DEF PostEvent, AfterError
  <1>2. TypeOK'
    BY <1>1 DEF TypeOK, GateTypeOK, Over, Fault
  <1>3. NoEndWithoutStart'
    <2>1. e.type = "COMPLETE" => [e EXCEPT !.type = "START"] \in marquez
      <3>1. [e EXCEPT !.type = "START"] \in Events
        BY DEF Events
      <3>2. e.type = "COMPLETE" => Before([e EXCEPT !.type = "START"], e)
        BY DEF Before, Events
      <3> QED
        BY <3>1, <3>2, <1>1 DEF IsNext
    <2> QED
      BY <2>1, <1>1 DEF NoEndWithoutStart
  <1>4. MetricsAgree' /\ GreenMeansGood' /\ DagInv' /\ \A g \in Gates : RunnerInv(g)'
    BY <1>1 DEF MetricsAgree, GreenMeansGood, DagInv, RunnerInv, At
  <1> QED
    BY <1>2, <1>3, <1>4

LEMMA DagStepKeeps ==
    ASSUME IInv, DagStep
    PROVE  IInv'
  <1> USE DEF IInv
  <1> DEFINE GateParts == /\ \A g \in Gates : RunnerInv(g)
                          /\ MetricsAgree
                          /\ GreenMeansGood
  <1>1. CASE ScheduleRun
    <2>1. TypeOK' /\ NoEndWithoutStart' /\ DagInv'
      BY <1>1 DEF ScheduleRun, TypeOK, GateTypeOK, NoEndWithoutStart, DagInv, Over, AfterTask, At
    <2>2. GateParts'
      BY <1>1 DEF ScheduleRun, RunnerInv, MetricsAgree, GreenMeansGood, TypeOK, GateTypeOK
    <2> QED
      BY <2>1, <2>2
  <1>2. CASE TaskEnds
    <2>1. TypeOK' /\ NoEndWithoutStart' /\ DagInv'
      BY <1>2 DEF TaskEnds, vars, TypeOK, GateTypeOK, NoEndWithoutStart, DagInv, AfterTask, At
    <2>2. GateParts'
      BY <1>2 DEF TaskEnds, vars, RunnerInv, MetricsAgree, GreenMeansGood
    <2> QED
      BY <2>1, <2>2
  <1>3. CASE TaskFails
    <2>1. TypeOK' /\ NoEndWithoutStart' /\ DagInv'
      BY <1>3 DEF TaskFails, Fault, TypeOK, GateTypeOK, NoEndWithoutStart, DagInv, AfterTask, Over, At
    <2>2. GateParts'
      BY <1>3 DEF TaskFails, RunnerInv, MetricsAgree, GreenMeansGood
    <2> QED
      BY <2>1, <2>2
  <1>4. CASE GatePod
    BY <1>4, StartKeeps DEF GatePod
  <1>5. CASE GateEnds
    <2>1. TypeOK' /\ NoEndWithoutStart' /\ DagInv'
      BY <1>5 DEF GateEnds, AfterGate, vars, TypeOK, GateTypeOK, NoEndWithoutStart, DagInv,
                  AfterTask, Over, At
    <2>2. GateParts'
      BY <1>5 DEF GateEnds, vars, RunnerInv, MetricsAgree, GreenMeansGood
    <2> QED
      BY <2>1, <2>2
  <1>6. CASE PostEvent
    BY <1>6, PostKeeps
  <1>7. CASE LineageEnds
    <2>1. TypeOK' /\ NoEndWithoutStart' /\ DagInv'
      BY <1>7 DEF LineageEnds, vars, TypeOK, GateTypeOK, NoEndWithoutStart, DagInv, AfterTask,
                  Over, At
    <2>2. GateParts'
      BY <1>7 DEF LineageEnds, vars, RunnerInv, MetricsAgree, GreenMeansGood
    <2> QED
      BY <2>1, <2>2
  <1> QED
    BY <1>1, <1>2, <1>3, <1>4, <1>5, <1>6, <1>7 DEF DagStep

LEMMA NextKeeps == IInv /\ [Next]_allVars => IInv'
  <1> SUFFICES ASSUME IInv, [Next]_allVars
               PROVE  IInv'
    OBVIOUS
  <1>1. CASE DagStep
    BY <1>1, DagStepKeeps
  <1>2. CASE Others /\ UNCHANGED <<task, marquez>>
    <2>1. CASE StartGate("job")
      BY <2>1, <1>2, StartKeeps
    <2>2. CASE ExpireJob
      BY <2>2, <1>2, ExpireKeeps
    <2>3. CASE WriteTables
      BY <2>3, <1>2, WriteKeeps
    <2>4. CASE \E g \in Gates : GateStep(g)
      BY <2>4, <1>2, GateStepKeeps
    <2> QED
      BY <1>2, <2>1, <2>2, <2>3, <2>4 DEF Others
  <1>3. CASE UNCHANGED allVars
    BY <1>3 DEF allVars, IInv, TypeOK, GateTypeOK, RunnerInv, MetricsAgree, GreenMeansGood,
                DagInv, NoEndWithoutStart, At
  <1> QED
    BY <1>1, <1>2, <1>3 DEF Next

LEMMA InvariantHolds == Spec => []IInv
  BY InitKeeps, NextKeeps, PTL DEF Spec

----------------------------------------------------------------------------
(* Every reachable state is well typed, for any gates, edges and bounds. *)
THEOREM DagTypeCorrect == Spec => []TypeOK
  <1>1. IInv => TypeOK
    BY DEF IInv
  <1> QED
    BY <1>1, InvariantHolds, PTL

(***************************************************************************)
(* runner.py: exit 0 without a table written meanwhile means that the      *)
(* expectations of all layers hold, in whatever pods gates run and         *)
(* whichever queries, pushes and pods fail.                                *)
(***************************************************************************)
THEOREM GreenCorrect == Spec => []GreenMeansGood
  <1>1. IInv => GreenMeansGood
    BY DEF IInv
  <1> QED
    BY <1>1, InvariantHolds, PTL

(* push_metrics: what the Pushgateway holds never contradicts itself. *)
THEOREM MetricsCorrect == Spec => []MetricsAgree
  <1>1. IInv => MetricsAgree
    BY DEF IInv
  <1> QED
    BY <1>1, InvariantHolds, PTL

(***************************************************************************)
(* The chain of tasks: a green run of the DAG passed its gate and has all  *)
(* its lineage in Marquez.                                                 *)
(***************************************************************************)
THEOREM GreenRunCorrect == Spec => []GreenRunIsEarned
  <1>1. IInv => GreenRunIsEarned
    BY DEF IInv, DagInv, GreenMeansGood, GreenRunIsEarned
  <1> QED
    BY <1>1, InvariantHolds, PTL

(* register_lineage.py: no completion in Marquez without its start. *)
THEOREM LineageCorrect == Spec => []NoEndWithoutStart
  <1>1. IInv => NoEndWithoutStart
    BY DEF IInv
  <1> QED
    BY <1>1, InvariantHolds, PTL
=============================================================================
