---------------------------- MODULE RawEventsProofs ----------------------------
(***************************************************************************)
(* Proofs about the events lane, for any currencies, any number of drivers *)
(* and any bounds.                                                         *)
(***************************************************************************)
EXTENDS RawEvents, TLAPS

USE LaneAssumption

(***************************************************************************)
(* The inductive invariant.  Once every row was handed to the producer,    *)
(* each is waiting, acknowledged or given up, and none waits when the      *)
(* loader has ended well; what is acknowledged is in the topic.  A batch   *)
(* has counted only positions that the topic had.                          *)
(***************************************************************************)
HandedOver ==
    loader.step \in {"flushing", "ok"} \/ (loader.step = "closing" /\ ~loader.raised)

LoaderInv ==
    /\ HandedOver => loader.events \subseteq loader.buffer \cup loader.acked \cup loader.failed
    /\ loader.step = "ok" => loader.buffer = {}
    /\ loader.acked \subseteq InTopic(loader.run)

SeenInv == \A d \in Drivers : batch[d].seen \subseteq DOMAIN log

IInv == TypeOK /\ LoaderInv /\ SeenInv /\ BatchLandsTheTopic

LEMMA InitKeeps == Init => IInv
  <1> SUFFICES ASSUME Init PROVE IInv
    OBVIOUS
  <1>1. log \in Seq([run : Nat, currency : Currencies]) /\ Len(log) = 0
    BY DEF Init
  <1>2. TypeOK
    BY <1>1 DEF Init, TypeOK, NoBatch, Over, Bounds, Once, EndedRun, NewRun, Runs, Running, Ended
  <1>3. LoaderInv
    BY DEF Init, LoaderInv, HandedOver, EndedRun, NewRun
  <1>4. SeenInv /\ BatchLandsTheTopic
    BY DEF Init, SeenInv, BatchLandsTheTopic, NoBatch
  <1> QED
    BY <1>2, <1>3, <1>4 DEF IInv

LEMMA OnceKeepsType ==
    ASSUME TypeOK, NEW e \in DOMAIN Bounds, Once(e)
    PROVE  done' \in [DOMAIN Bounds -> Nat]
  BY DEF TypeOK, Once

LEMMA BoundNames == DOMAIN Bounds = {"load", "expiry", "fault"}
  BY DEF Bounds

(* The lane beside the loader keeps its part when only the loader moves. *)
LEMMA LaneStays ==
    ASSUME IInv, UNCHANGED <<log, start, landed, batch>>
    PROVE  SeenInv' /\ BatchLandsTheTopic'
  BY DEF IInv, SeenInv, BatchLandsTheTopic, Retained

----------------------------------------------------------------------------
(* The loader. *)

LEMMA LoadKeeps == ASSUME IInv, Load PROVE IInv'
  <1> USE DEF IInv
  <1>1. PICK events \in SUBSET Currencies, step \in {"error", "dry_run", "sending"} :
          \/ loader' = EndedRun(loader.run + 1, step) /\ step # "sending"
          \/ loader' = NewRun(loader.run + 1, events, step) /\ step = "sending"
    <2>1. PICK events \in SUBSET Currencies, dry_run \in BOOLEAN :
            loader' = CASE events = {} -> EndedRun(loader.run + 1, "error")
                        [] events # {} /\ dry_run -> EndedRun(loader.run + 1, "dry_run")
                        [] OTHER -> NewRun(loader.run + 1, events, "sending")
      BY DEF Load, Fetches
    <2> QED
      BY <2>1
  <1>2. loader.run + 1 \in Nat
    BY DEF TypeOK, Runs
  <1>3. TypeOK'
    <2>1. ASSUME loader' = EndedRun(loader.run + 1, step) PROVE loader' \in Runs
      BY <2>1, <1>2 DEF EndedRun, NewRun, Runs, Running, Ended
    <2>2. ASSUME loader' = NewRun(loader.run + 1, events, step) PROVE loader' \in Runs
      BY <2>2, <1>2 DEF NewRun, Runs, Running, Ended
    <2>3. loader' \in Runs
      BY <1>1, <2>1, <2>2
    <2>4. done' \in [DOMAIN Bounds -> Nat]
      BY BoundNames, OnceKeepsType DEF Load
    <2> QED
      BY <2>3, <2>4 DEF Load, batchVars, TypeOK
  <1>4. LoaderInv'
    BY <1>1 DEF LoaderInv, HandedOver, EndedRun, NewRun
  <1> QED
    BY <1>3, <1>4, LaneStays DEF Load, batchVars

LEMMA SendKeeps == ASSUME IInv, Send PROVE IInv'
  <1> USE DEF IInv
  <1>1. PICK k \in Currencies \cup {0} :
          LET sent == {c \in loader.events : c <= k}
              raised == sent # loader.events
          IN  loader' = [loader EXCEPT !.buffer = sent, !.raised = raised,
                                       !.step = IF raised THEN "closing" ELSE "flushing"]
    BY DEF Send
  <1>2. TypeOK'
    BY <1>1 DEF Send, batchVars, TypeOK, Runs, Running, Ended
  <1>3. LoaderInv'
    <2>1. /\ UNCHANGED <<loader.run, loader.events, loader.acked, loader.failed>>
          /\ loader'.step \in {"closing", "flushing"}
          /\ loader'.step = "closing" => loader'.raised
          /\ loader'.step = "flushing" => loader'.buffer = loader.events
      BY <1>1 DEF TypeOK, Runs
    <2>2. InTopic(loader.run)' = InTopic(loader.run)
      BY <2>1 DEF Send, InTopic
    <2> QED
      BY <2>1, <2>2 DEF LoaderInv, HandedOver
  <1> QED
    BY <1>2, <1>3, LaneStays DEF Send, batchVars

LEMMA FlushKeeps == ASSUME IInv, Flush PROVE IInv'
  <1> USE DEF IInv
  <1>1. TypeOK'
    BY DEF Flush, batchVars, TypeOK, Runs, Running, Ended
  <1>2. LoaderInv'
    BY DEF Flush, LoaderInv, HandedOver, TypeOK, Runs, InTopic
  <1> QED
    BY <1>1, <1>2, LaneStays DEF Flush, batchVars

LEMMA CloseKeeps == ASSUME IInv, Close PROVE IInv'
  <1> USE DEF IInv
  <1>1. TypeOK'
    BY DEF Close, batchVars, TypeOK, EndedRun, NewRun, Runs, Running, Ended
  <1>2. LoaderInv'
    BY DEF Close, Drained, LoaderInv, HandedOver, TypeOK, EndedRun, NewRun, Runs, InTopic
  <1> QED
    BY <1>1, <1>2, LaneStays DEF Close, batchVars

LEMMA KillKeeps == ASSUME IInv, Kill PROVE IInv'
  <1> USE DEF IInv
  <1>1. TypeOK'
    BY BoundNames, OnceKeepsType
       DEF Kill, batchVars, TypeOK, EndedRun, NewRun, Runs, Running, Ended
  <1>2. LoaderInv'
    BY DEF Kill, LoaderInv, HandedOver, EndedRun, NewRun
  <1> QED
    BY <1>1, <1>2, LaneStays DEF Kill, batchVars
----------------------------------------------------------------------------
(* The broker. *)

(* What is in the topic stays there, at its position, when a record is added. *)
LEMMA WriteAdds ==
    ASSUME TypeOK, NEW c \in Currencies, Write(c)
    PROVE  /\ log' \in Seq([run : Nat, currency : Currencies])
           /\ Len(log') = Len(log) + 1
           /\ \A run : InTopic(run) \subseteq InTopic(run)'
  <1>1. [run |-> loader.run, currency |-> c] \in [run : Nat, currency : Currencies]
    BY DEF TypeOK, Runs
  <1>2. log' = Append(log, [run |-> loader.run, currency |-> c])
    BY DEF Write
  <1>3. /\ log' \in Seq([run : Nat, currency : Currencies])
        /\ Len(log') = Len(log) + 1
        /\ \A i \in DOMAIN log : i \in DOMAIN log' /\ log'[i] = log[i]
    BY <1>1, <1>2 DEF TypeOK
  <1> QED
    BY <1>3 DEF InTopic

LEMMA WriteKeeps ==
    ASSUME IInv, NEW c \in Currencies, Write(c), done' \in [DOMAIN Bounds -> Nat]
    PROVE  IInv'
  <1> USE DEF IInv
  <1>1. TypeOK'
    <2>1. UNCHANGED <<loader, start, landed, batch>>
      BY DEF Write, batchVars
    <2>2. start' <= Len(log') /\ landed' \subseteq 1..Len(log')
      BY <2>1, WriteAdds DEF TypeOK
    <2> QED
      BY <2>1, <2>2, WriteAdds DEF TypeOK
  <1>2. LoaderInv'
    BY WriteAdds DEF Write, LoaderInv, HandedOver
  <1>3. SeenInv'
    BY WriteAdds DEF Write, batchVars, SeenInv, TypeOK
  <1>4. BatchLandsTheTopic'
    BY WriteAdds, <1>1 DEF Write, batchVars, SeenInv, TypeOK, BatchLandsTheTopic, Retained
  <1> QED
    BY <1>1, <1>2, <1>3, <1>4

LEMMA StoreKeeps == ASSUME IInv, NEW c \in Currencies, Store(c) PROVE IInv'
  BY WriteKeeps DEF IInv, TypeOK, Store

LEMMA ResendKeeps == ASSUME IInv, NEW c \in Currencies, Resend(c) PROVE IInv'
  BY WriteKeeps, OnceKeepsType, BoundNames DEF IInv, Resend

LEMMA AcknowledgeKeeps == ASSUME IInv, NEW c \in Currencies, Acknowledge(c) PROVE IInv'
  <1> USE DEF IInv
  <1>1. TypeOK'
    BY DEF Acknowledge, batchVars, TypeOK, Runs
  <1>2. LoaderInv'
    <2>1. /\ UNCHANGED <<loader.step, loader.run, loader.events, loader.raised, loader.failed>>
          /\ loader'.acked = loader.acked \cup {c}
          /\ loader'.buffer = loader.buffer \ {c}
          /\ c \in loader.buffer /\ c \in InTopic(loader.run)
      BY DEF Acknowledge, TypeOK, Runs
    <2>2. InTopic(loader.run)' = InTopic(loader.run)
      BY <2>1 DEF Acknowledge, InTopic
    <2> QED
      BY <2>1, <2>2 DEF LoaderInv, HandedOver
  <1> QED
    BY <1>1, <1>2, LaneStays DEF Acknowledge, batchVars

LEMMA FailSendKeeps == ASSUME IInv, NEW c \in Currencies, FailSend(c) PROVE IInv'
  <1> USE DEF IInv
  <1>1. TypeOK'
    BY OnceKeepsType, BoundNames DEF FailSend, batchVars, TypeOK, Runs
  <1>2. LoaderInv'
    <2>1. /\ UNCHANGED <<loader.step, loader.run, loader.events, loader.raised, loader.acked>>
          /\ loader'.failed = loader.failed \cup {c}
          /\ loader'.buffer = loader.buffer \ {c}
          /\ c \in loader.buffer
      BY DEF FailSend, TypeOK, Runs
    <2>2. InTopic(loader.run)' = InTopic(loader.run)
      BY <2>1 DEF FailSend, InTopic
    <2> QED
      BY <2>1, <2>2 DEF LoaderInv, HandedOver
  <1> QED
    BY <1>1, <1>2, LaneStays DEF FailSend, batchVars

LEMMA ExpireKeeps == ASSUME IInv, Expire PROVE IInv'
  <1> USE DEF IInv
  <1>1. /\ start' \in Nat /\ start' <= Len(log)
        /\ Retained' \subseteq Retained
    BY DEF Expire, Retained, TypeOK
  <1>2. TypeOK'
    BY <1>1, OnceKeepsType, BoundNames DEF Expire, batchVars, TypeOK
  <1>3. LoaderInv'
    BY DEF Expire, LoaderInv, HandedOver, InTopic
  <1>4. SeenInv' /\ BatchLandsTheTopic'
    BY <1>1 DEF Expire, batchVars, SeenInv, BatchLandsTheTopic
  <1> QED
    BY <1>2, <1>3, <1>4

----------------------------------------------------------------------------
(* The batches. *)

(* The loader and the topic keep their part when only a batch moves. *)
LEMMA LoaderStays ==
    ASSUME IInv, UNCHANGED <<loader, log>>
    PROVE  LoaderInv'
  BY DEF IInv, LoaderInv, HandedOver, InTopic

(* What the log holds at a position that is retained is in its domain. *)
LEMMA RetainedIsInTheLog ==
    ASSUME TypeOK
    PROVE  Retained \subseteq 1..Len(log) /\ DOMAIN log = 1..Len(log) /\ Retained \subseteq Nat
  BY DEF TypeOK, Retained

LEMMA StartBatchKeeps == ASSUME IInv, NEW d \in Drivers, StartBatch(d) PROVE IInv'
  <1> USE DEF IInv
  <1>1. TypeOK'
    BY DEF StartBatch, Step, TypeOK
  <1>2. SeenInv' /\ BatchLandsTheTopic'
    BY DEF StartBatch, Step, SeenInv, BatchLandsTheTopic, TypeOK, Retained
  <1> QED
    BY <1>1, <1>2, LoaderStays DEF StartBatch

LEMMA CountEventsKeeps == ASSUME IInv, NEW d \in Drivers, CountEvents(d) PROVE IInv'
  <1> USE DEF IInv
  <1>1. PICK step \in {"gate", "append"} :
          /\ batch' = [batch EXCEPT ![d] = [step |-> step, seen |-> Retained]]
          /\ step = "gate" => Retained = {}
    BY DEF CountEvents
  <1>2. TypeOK'
    BY <1>1, RetainedIsInTheLog DEF CountEvents, TypeOK
  <1>3. SeenInv'
    BY <1>1, RetainedIsInTheLog DEF CountEvents, SeenInv, TypeOK
  <1>4. Retained' = Retained
    BY DEF CountEvents, Retained
  <1>5. BatchLandsTheTopic'
    BY <1>1, <1>4 DEF CountEvents, BatchLandsTheTopic, TypeOK
  <1> QED
    BY <1>2, <1>3, <1>5, LoaderStays DEF CountEvents

LEMMA AppendEventsKeeps == ASSUME IInv, NEW d \in Drivers, AppendEvents(d) PROVE IInv'
  <1> USE DEF IInv
  <1>1. TypeOK'
    BY RetainedIsInTheLog DEF AppendEvents, EarliestToLatest, Step, TypeOK, Over
  <1>2. SeenInv'
    BY DEF AppendEvents, Step, SeenInv, TypeOK
  <1>3. Retained' = Retained /\ Retained \subseteq landed' /\ landed \subseteq landed'
    BY DEF AppendEvents, EarliestToLatest, Retained
  <1>4. BatchLandsTheTopic'
    BY <1>3 DEF AppendEvents, Step, BatchLandsTheTopic, TypeOK
  <1> QED
    BY <1>1, <1>2, <1>4, LoaderStays DEF AppendEvents

LEMMA CheckLaneKeeps == ASSUME IInv, NEW d \in Drivers, CheckLane(d) PROVE IInv'
  <1> USE DEF IInv
  <1>1. PICK step \in {"red", "green"} : batch' = [batch EXCEPT ![d] = [step |-> step, seen |-> {}]]
    BY DEF CheckLane
  <1>2. TypeOK'
    BY <1>1 DEF CheckLane, TypeOK, Over
  <1>3. SeenInv' /\ BatchLandsTheTopic'
    BY <1>1 DEF CheckLane, SeenInv, BatchLandsTheTopic, TypeOK, Retained
  <1> QED
    BY <1>2, <1>3, LoaderStays DEF CheckLane

LEMMA CrashKeeps == ASSUME IInv, NEW d \in Drivers, Crash(d) PROVE IInv'
  <1> USE DEF IInv
  <1>1. TypeOK'
    BY OnceKeepsType, BoundNames DEF Crash, NoBatch, TypeOK, Over
  <1>2. SeenInv' /\ BatchLandsTheTopic'
    BY DEF Crash, NoBatch, SeenInv, BatchLandsTheTopic, TypeOK, Retained
  <1> QED
    BY <1>1, <1>2, LoaderStays DEF Crash

----------------------------------------------------------------------------

LEMMA NextKeeps == ASSUME IInv, [Next]_vars PROVE IInv'
  <1>1. CASE UNCHANGED vars
    BY <1>1 DEF vars, batchVars, IInv, TypeOK, LoaderInv, HandedOver, InTopic, SeenInv,
                BatchLandsTheTopic, Retained
  <1>2. CASE Load \/ Send \/ Flush \/ Close \/ Kill \/ Expire
    BY <1>2, LoadKeeps, SendKeeps, FlushKeeps, CloseKeeps, KillKeeps, ExpireKeeps
  <1>3. CASE \E c \in Currencies : Store(c) \/ Resend(c) \/ Resolve(c)
    BY <1>3, StoreKeeps, ResendKeeps, AcknowledgeKeeps, FailSendKeeps DEF Resolve
  <1>4. CASE \E d \in Drivers : BatchStep(d) \/ Crash(d)
    BY <1>4, StartBatchKeeps, CountEventsKeeps, AppendEventsKeeps, CheckLaneKeeps, CrashKeeps
       DEF BatchStep
  <1> QED
    BY <1>1, <1>2, <1>3, <1>4 DEF Next

(* The inductive invariant holds in every state the lane can reach. *)
THEOREM LaneInvariant == Spec => []IInv
  <1> QED
    BY InitKeeps, NextKeeps, PTL DEF Spec

(* The loader, the topic and the batches keep to their types. *)
THEOREM LaneTypeCorrect == Spec => []TypeOK
  BY LaneInvariant, PTL DEF IInv

(***************************************************************************)
(* A loader that exits 0, of whose rows the producer gave up none, has all *)
(* of them in the topic, however its sends, the timeouts and its deaths    *)
(* fall: flush or close has seen the buffer empty.                         *)
(***************************************************************************)
THEOREM ExitZeroCorrect == Spec => []ExitZeroDelivers
  <1>1. IInv => ExitZeroDelivers
    BY DEF IInv, LoaderInv, HandedOver, ExitZeroDelivers
  <1> QED
    BY <1>1, LaneInvariant, PTL

(***************************************************************************)
(* A Bronze pass that is over has landed what it counted and retention has *)
(* not removed, for any number of loaders and drivers at once.             *)
(***************************************************************************)
THEOREM LandingCorrect == Spec => []BatchLandsTheTopic
  BY LaneInvariant, PTL DEF IInv
=============================================================================
