--------------------------- MODULE PromotionProofs ---------------------------
(***************************************************************************)
(* Proofs about the release chain, for any number of clones, commits, runs *)
(* of promote.sh and interruptions.                                        *)
(***************************************************************************)
EXTENDS Promotion, TLAPS

(* What main gives an environment, and what ArgoCD applies and runs, was
   released to it.                                                      *)
Seen(e) == {main.tag[e], app[e].target, app[e].live} \subseteq released[e]

Chain ==
    /\ released["prod"] \subseteq released["staging"]
    /\ released["staging"] \subseteq released["dev"]
    /\ \A e \in Envs : Seen(e)

(* A clone has, or has committed itself, tag t of environment e. *)
Has(c, e, t) == t \in released[e] \/ [env |-> e, tag |-> t] \in c.mine

CloneChain(c) ==
    /\ \A e \in Envs : Has(c, e, c.head[e])
    /\ \A x \in c.mine : Has(c, SourceOf[x.env], x.tag)

(* The files of a clone are those of its last commit, except while the
   script has edited one of them.                                       *)
RunChain(r, c) ==
    /\ r.step \in {"idle", "edit", "push", "patch", "poll"} => c.tree = c.head
    /\ r.step \in {"edit", "revert", "commit"} => r.tag = c.head[SourceOf[r.env]]
    /\ r.step \in {"revert", "commit"} => c.tree = [c.head EXCEPT ![r.env] = r.tag]

ChainInv ==
    interrupts = 0 => /\ Chain
                      /\ \A p \in Operators : CloneChain(clone[p]) /\ RunChain(run[p], clone[p])

(* A clone knows the main it is based on, and what it differs in is its own. *)
CloneIsOwn(c) ==
    /\ c.base <= main.rev
    /\ c.base = main.rev => c.origin = main.tag
    /\ \A e \in Envs : c.head[e] # c.origin[e] => [env |-> e, tag |-> c.head[e]] \in c.mine

CloneInv == \A p \in Operators : CloneIsOwn(clone[p])

(* An opening of the gate is left for the change that a sync may still make. *)
GateInv ==
    LET a == app["prod"]
    IN  /\ ProdWaitsForGate
        /\ a.phase = "Running" => a.operation
        /\ a.operation /\ (a.phase = "Running" => a.live # a.target) => gate.used < gate.opened

IInv == TypeOK /\ ChainInv /\ CloneInv /\ GateInv

USE PromotionAssumption

LEMMA Environments ==
    /\ Targets = {"staging", "prod"} /\ Targets \subseteq Envs
    /\ SourceOf["staging"] = "dev" /\ SourceOf["prod"] = "staging"
    /\ Commits \subseteq Tags /\ 0 \in Tags
    /\ \A e \in Targets : SourceOf[e] \in Envs
  BY DEF Targets, SourceOf, Envs, Commits, Tags

(* A fresh clone, the first state, and a push, are of the right type. *)
LEMMA FetchedType == TypeOK => Fetched \in CloneType
  BY DEF TypeOK, Fetched, CloneType

LEMMA TypeInitially == Init => TypeOK
  <1> SUFFICES ASSUME Init PROVE TypeOK
    OBVIOUS
  <1>1. main \in [rev : Nat, tag : TagFiles]
    BY Environments DEF Init, NoTags, TagFiles
  <1>2. Fetched \in CloneType
    BY <1>1 DEF Fetched, CloneType
  <1>3. Idle \in RunType
    BY Environments DEF Idle, RunType
  <1>4. app \in [Envs -> AppType]
    BY Environments DEF Init, AppType
  <1> QED
    BY <1>1, <1>2, <1>3, <1>4, Environments DEF Init, TypeOK

LEMMA AdvanceType ==
    ASSUME TypeOK, NEW tags \in TagFiles, NEW new \in SUBSET [env : Envs, tag : Tags],
           Advance(tags, new)
    PROVE  main' \in [rev : Nat, tag : TagFiles] /\ released' \in [Envs -> SUBSET Tags]
  BY DEF Advance, TypeOK

(* A clone and the run of its owner, and what steps make of them. *)
LEMMA RunFacts ==
    ASSUME TypeOK, NEW p \in Operators
    PROVE  /\ clone[p] \in CloneType /\ run[p] \in RunType /\ Idle \in RunType
           /\ run[p].env \in Targets /\ run[p].env \in Envs /\ run[p].tag \in Tags
           /\ clone[p].head \in TagFiles /\ clone[p].head[run[p].env] \in Tags
           /\ \A r \in RunType : AfterPromotion(r) \in RunType
           /\ \A step \in {"revert", "commit", "push", "poll"} :
                 [run[p] EXCEPT !.step = step] \in RunType
  <1>1. clone[p] \in CloneType /\ run[p] \in RunType
    BY DEF TypeOK
  <1>2. /\ run[p].env \in Targets /\ run[p].env \in Envs /\ run[p].tag \in Tags
        /\ clone[p].head \in TagFiles /\ clone[p].head[run[p].env] \in Tags
    BY <1>1, Environments DEF RunType, CloneType, TagFiles
  <1>3. Idle \in RunType
    BY Environments DEF Idle, RunType
  <1>4. \A r \in RunType : AfterPromotion(r) \in RunType
    BY <1>3 DEF AfterPromotion, RunType
  <1>5. \A step \in {"revert", "commit", "push", "poll"} : [run[p] EXCEPT !.step = step] \in RunType
    BY <1>1 DEF RunType
  <1> QED
    BY <1>1, <1>2, <1>3, <1>4, <1>5

LEMMA TypeKept == TypeOK /\ [Next]_vars => TypeOK'
  <1> SUFFICES ASSUME TypeOK, [Next]_vars PROVE TypeOK'
    OBVIOUS
  <1>1. CASE CommitCode
    <2>1. main' \in [rev : Nat, tag : TagFiles] /\ released' \in [Envs -> SUBSET Tags]
      BY <1>1, AdvanceType DEF CommitCode, TypeOK
    <2> QED
      BY <1>1, <2>1 DEF CommitCode, TypeOK
  <1>2. ASSUME NEW b \in Commits, EndCI(b) PROVE TypeOK'
    BY <1>2 DEF EndCI, TypeOK
  <1>3. ASSUME NEW b \in Commits, CheckoutMain(b) PROVE TypeOK'
    BY <1>3 DEF CheckoutMain, TypeOK
  <1>4. ASSUME NEW b \in Commits, PushTag(b) PROVE TypeOK'
    <2>1. /\ [main.tag EXCEPT !["dev"] = b] \in TagFiles
          /\ {[env |-> "dev", tag |-> b]} \in SUBSET [env : Envs, tag : Tags]
      BY Environments DEF TypeOK, TagFiles, Envs
    <2>2. main' \in [rev : Nat, tag : TagFiles] /\ released' \in [Envs -> SUBSET Tags]
      BY <1>4, <2>1, AdvanceType DEF PushTag, TypeOK
    <2>3. cd' \in [Commits -> [step : {"idle", "push", "done", "failed"}, base : Nat]]
      BY <1>4 DEF PushTag, TypeOK
    <2> QED
      BY <1>4, <2>2, <2>3 DEF PushTag, TypeOK
  <1>5. ASSUME NEW p \in Operators, NEW env \in Targets, NEW sync \in BOOLEAN,
               NEW dry \in BOOLEAN, Launch(p, env, sync, dry)
        PROVE  TypeOK'
    <2> DEFINE r == [step |-> "edit", env |-> env, tag |-> clone[p].tree[SourceOf[env]],
                     sync |-> sync, dry |-> dry]
    <2>1. clone[p].tree \in TagFiles
      BY DEF TypeOK, CloneType
    <2>2. r \in RunType /\ [r EXCEPT !.step = "patch"] \in RunType /\ Idle \in RunType
      BY <2>1, Environments DEF RunType, Idle, TagFiles
    <2>3. run' \in [Operators -> RunType]
      BY <1>5, <2>2 DEF Launch, TypeOK, AfterPromotion
    <2> QED
      BY <1>5, <2>3 DEF Launch, TypeOK
  <1>6. ASSUME NEW p \in Operators, Edit(p) PROVE TypeOK'
    <2>1. [clone[p] EXCEPT !.tree[run[p].env] = run[p].tag] \in CloneType
      BY RunFacts DEF CloneType, TagFiles
    <2>2. clone' \in [Operators -> CloneType]
      BY <1>6, <2>1 DEF Edit, TypeOK
    <2>3. run' \in [Operators -> RunType]
      BY <1>6, RunFacts DEF Edit, TypeOK
    <2> QED
      BY <1>6, <2>2, <2>3 DEF Edit, TypeOK
  <1>7. ASSUME NEW p \in Operators, Revert(p) PROVE TypeOK'
    <2>1. [clone[p] EXCEPT !.tree[run[p].env] = clone[p].head[run[p].env]] \in CloneType
      BY RunFacts DEF CloneType, TagFiles
    <2>2. clone' \in [Operators -> CloneType]
      BY <1>7, <2>1 DEF Revert, TypeOK
    <2>3. run' \in [Operators -> RunType]
      BY <1>7, RunFacts DEF Revert, TypeOK
    <2> QED
      BY <1>7, <2>2, <2>3 DEF Revert, TypeOK
  <1>8. ASSUME NEW p \in Operators, Commit(p) PROVE TypeOK'
    <2> DEFINE head == [clone[p].head EXCEPT ![run[p].env] = run[p].tag]
               mine == clone[p].mine \cup {[env |-> run[p].env, tag |-> run[p].tag]}
               new == [clone[p] EXCEPT !.head = head, !.mine = mine]
    <2>a. run[p].env \in Targets /\ run[p].env \in Envs /\ run[p].tag \in Tags
      BY RunFacts
    <2>b. clone[p].head \in TagFiles /\ clone[p].mine \in SUBSET [env : Targets, tag : Tags]
      BY RunFacts DEF CloneType
    <2>c. head \in TagFiles
      BY <2>a, <2>b DEF TagFiles
    <2>0. head \in TagFiles /\ mine \in SUBSET [env : Targets, tag : Tags]
      BY <2>a, <2>b, <2>c
    <2>1. new \in CloneType
      <3> HIDE DEF head, mine
      <3> QED
        BY <2>0, RunFacts DEF CloneType
    <2>2. Committed(clone[p], run[p]) \in CloneType
      BY <2>1 DEF Committed
    <2>3. clone' \in [Operators -> CloneType]
      BY <1>8, <2>2 DEF Commit, TypeOK
    <2>4. run' \in [Operators -> RunType]
      <3> DEFINE pushed == [run[p] EXCEPT !.step = "push"]
      <3>1. pushed \in RunType /\ Idle \in RunType
        BY RunFacts
      <3>2. run \in [Operators -> RunType]
        BY DEF TypeOK
      <3>3. run' = [run EXCEPT ![p] = Idle] \/ run' = [run EXCEPT ![p] = pushed]
        BY <1>8 DEF Commit
      <3> HIDE DEF pushed, head, mine, new
      <3> QED
        BY <3>1, <3>2, <3>3
    <2> QED
      BY <1>8, <2>3, <2>4 DEF Commit, TypeOK
  <1>9. ASSUME NEW p \in Operators, CommitRefused(p) PROVE TypeOK'
    <2>1. [clone[p] EXCEPT !.staged = ~NothingToCommit(p)] \in CloneType
      BY RunFacts DEF CloneType, NothingToCommit
    <2>2. clone' \in [Operators -> CloneType]
      BY <1>9, <2>1 DEF CommitRefused, TypeOK
    <2>3. run' \in [Operators -> RunType]
      BY <1>9, RunFacts DEF CommitRefused, TypeOK
    <2> QED
      BY <1>9, <2>2, <2>3 DEF CommitRefused, TypeOK
  <1>10. ASSUME NEW p \in Operators, Push(p) PROVE TypeOK'
    <2>1. CASE FastForward(p)
      <3> DEFINE new == [clone[p] EXCEPT !.base = main.rev + 1, !.mine = {},
                                         !.origin = clone[p].head]
      <3>1. /\ clone[p].head \in TagFiles
            /\ clone[p].mine \in SUBSET [env : Envs, tag : Tags]
        BY RunFacts, Environments DEF CloneType
      <3>2. main' \in [rev : Nat, tag : TagFiles] /\ released' \in [Envs -> SUBSET Tags]
        BY <1>10, <2>1, <3>1, AdvanceType DEF Push
      <3>a. main.rev + 1 \in Nat
        BY DEF TypeOK
      <3>3. new \in CloneType
        BY <3>a, RunFacts DEF CloneType
      <3>4. clone' = [clone EXCEPT ![p] = new]
        BY <1>10, <2>1 DEF Push
      <3>5. clone' \in [Operators -> CloneType]
        BY <3>3, <3>4 DEF TypeOK
      <3>b. AfterPromotion(run[p]) \in RunType
        BY RunFacts
      <3>6. run' \in [Operators -> RunType]
        BY <1>10, <2>1, <3>b DEF Push, TypeOK
      <3> QED
        BY <1>10, <3>2, <3>5, <3>6 DEF Push, TypeOK
    <2>2. CASE ~FastForward(p)
      <3>1. run' \in [Operators -> RunType]
        BY <1>10, <2>2, RunFacts DEF Push, TypeOK
      <3> QED
        BY <1>10, <2>2, <3>1 DEF Push, TypeOK
    <2> QED
      BY <2>1, <2>2
  <1>11. ASSUME NEW p \in Operators, PatchOperation(p) PROVE TypeOK'
    <2>1. [app["prod"] EXCEPT !.operation = TRUE] \in AppType
      BY DEF AppType, TypeOK, Envs
    <2>2. app' \in [Envs -> AppType]
      BY <1>11, <2>1 DEF PatchOperation, TypeOK
    <2>3. [run[p] EXCEPT !.step = "poll"] \in RunType
      BY RunFacts
    <2>4. run' \in [Operators -> RunType] /\ gate' \in [opened : Nat, used : Nat]
      BY <1>11, <2>3 DEF PatchOperation, TypeOK
    <2> QED
      BY <1>11, <2>2, <2>4 DEF PatchOperation, TypeOK
  <1>12. ASSUME NEW p \in Operators, PollPhase(p) PROVE TypeOK'
    BY <1>12, Environments DEF PollPhase, TypeOK, RunType, Idle
  <1>13. ASSUME NEW p \in Operators, Interrupt(p) PROVE TypeOK'
    BY <1>13, Environments DEF Interrupt, TypeOK, RunType, Idle
  <1>14. ASSUME NEW p \in Operators, ResetClone(p) PROVE TypeOK'
    BY <1>14, FetchedType DEF ResetClone, TypeOK
  <1>15. ASSUME NEW p \in Operators, Rebase(p) PROVE TypeOK'
    <2> DEFINE edited == {c.env : c \in clone[p].mine}
               head == [e \in Envs |-> IF e \in edited THEN clone[p].head[e] ELSE main.tag[e]]
               new == [Fetched EXCEPT !.head = head, !.tree = head, !.mine = clone[p].mine]
    <2>1. head \in TagFiles /\ clone[p].mine \in SUBSET [env : Targets, tag : Tags]
      BY RunFacts DEF CloneType, TagFiles, TypeOK
    <2>2. new \in CloneType
      <3> HIDE DEF head
      <3> QED
        BY <2>1, FetchedType DEF CloneType
    <2>3. clone' = [clone EXCEPT ![p] = new]
      BY <1>15 DEF Rebase
    <2>4. clone' \in [Operators -> CloneType]
      BY <2>2, <2>3 DEF TypeOK
    <2> QED
      BY <1>15, <2>4 DEF Rebase, TypeOK
  <1>16. ASSUME NEW e \in Envs, FailSync(e) PROVE TypeOK'
    <2>1. app' = [app EXCEPT ![e] = [app[e] EXCEPT !.phase = "Failed", !.operation = FALSE]]
      BY <1>16 DEF FailSync
    <2>2. [app[e] EXCEPT !.phase = "Failed", !.operation = FALSE] \in AppType
      BY PromotionAssumption DEF TypeOK, AppType
    <2>3. app' \in [Envs -> AppType]
      BY <2>1, <2>2 DEF TypeOK
    <2> QED
      BY <1>16, <2>3 DEF FailSync, TypeOK
  <1>17. ASSUME NEW e \in Envs, AutoSync(e) PROVE TypeOK'
    BY <1>17 DEF AutoSync, TypeOK, AppType, TagFiles
  <1>18. ASSUME NEW e \in Envs, StartSync(e) PROVE TypeOK'
    <2> DEFINE target == IF e \in Automated THEN app[e].target ELSE main.tag[e]
               new == [app[e] EXCEPT !.phase = "Running", !.target = target]
    <2>1. app' = [app EXCEPT ![e] = new]
      BY <1>18 DEF StartSync
    <2>2. target \in Tags
      BY DEF TypeOK, AppType, TagFiles
    <2> HIDE DEF target
    <2>3. new \in AppType
      BY <2>2 DEF TypeOK, AppType
    <2> HIDE DEF new
    <2>4. app' \in [Envs -> AppType]
      BY <2>1, <2>3 DEF TypeOK
    <2> QED
      BY <1>18, <2>4 DEF StartSync, TypeOK
  <1>19. ASSUME NEW e \in Envs, ApplyManifests(e) PROVE TypeOK'
    BY <1>19 DEF ApplyManifests, TypeOK, AppType
  <1>20. ASSUME NEW e \in Envs, EndSync(e) PROVE TypeOK'
    <2>1. PICK outcome \in Phases :
             app' = [app EXCEPT ![e] = [@ EXCEPT !.phase = outcome, !.operation = FALSE]]
      BY <1>20, PromotionAssumption DEF EndSync
    <2>2. app[e] \in AppType
      BY DEF TypeOK
    <2>a. [app[e] EXCEPT !.phase = outcome, !.operation = FALSE] \in AppType
      BY <2>2 DEF AppType
    <2>3. app' \in [Envs -> AppType]
      BY <2>1, <2>a DEF TypeOK
    <2> QED
      BY <1>20, <2>3 DEF EndSync, TypeOK
  <1>21. CASE UNCHANGED vars
    BY <1>21 DEF vars, TypeOK
  <1> QED
    BY <1>1, <1>2, <1>3, <1>4, <1>5, <1>6, <1>7, <1>8, <1>9, <1>10, <1>11, <1>12, <1>13, <1>14,
       <1>15, <1>16, <1>17, <1>18, <1>19, <1>20, <1>21
       DEF Next, WorkflowStep, OperatorStep, ArgoStep

----------------------------------------------------------------------------
(* The gate of prod. *)

LEMMA GateInitially == Init => GateInv
  BY DEF Init, GateInv, ProdWaitsForGate, Envs

(* ArgoCD's steps on an application leave the others alone. *)
LEMMA OneApp ==
    ASSUME TypeOK, NEW e \in Envs, ArgoStep(e)
    PROVE  /\ \A d \in Envs \ {e} : app'[d] = app[d]
           /\ e # "prod" => gate' = gate
           /\ e = "prod" => ~AutoSync(e)
  <1>1. CASE AutoSync(e) \/ FailSync(e)
    BY <1>1 DEF AutoSync, FailSync, Automated, TypeOK
  <1>2. CASE StartSync(e)
    BY <1>2 DEF StartSync, AutoSync, Automated, TypeOK
  <1>3. CASE ApplyManifests(e)
    BY <1>3 DEF ApplyManifests, AutoSync, Automated, TypeOK
  <1>4. CASE EndSync(e)
    BY <1>4 DEF EndSync, AutoSync, Automated, TypeOK
  <1> QED
    BY <1>1, <1>2, <1>3, <1>4 DEF ArgoStep

LEMMA GateKept == TypeOK /\ GateInv /\ [Next]_vars => GateInv'
  <1> SUFFICES ASSUME TypeOK, GateInv, [Next]_vars PROVE GateInv'
    OBVIOUS
  <1> USE DEF GateInv, ProdWaitsForGate
  <1>1. ASSUME UNCHANGED <<app, gate>> PROVE GateInv'
    BY <1>1
  <1>2. ASSUME NEW p \in Operators, PatchOperation(p) PROVE GateInv'
    BY <1>2 DEF PatchOperation, TypeOK, Envs, AppType
  <1>3. ASSUME NEW e \in Envs \ {"prod"}, ArgoStep(e) PROVE GateInv'
    BY <1>3, OneApp DEF Envs
  <1>4. ASSUME ArgoStep("prod") PROVE GateInv'
    <2>1. "prod" \in Envs /\ app["prod"] \in AppType /\ app \in [Envs -> AppType]
      BY DEF Envs, TypeOK
    <2>2. CASE FailSync("prod")
      <3>1. app'["prod"].operation = FALSE /\ app'["prod"].phase = "Failed"
        BY <2>1, <2>2 DEF FailSync, AppType
      <3> QED
        BY <2>2, <3>1 DEF FailSync
    <2>3. CASE StartSync("prod")
      <3>1. app'["prod"] = [app["prod"] EXCEPT !.phase = "Running", !.target = main.tag["prod"]]
        BY <2>1, <2>3 DEF StartSync, Automated
      <3> QED
        BY <2>1, <2>3, <3>1 DEF StartSync, AppType
    <2>4. CASE ApplyManifests("prod")
      <3>1. gate.used < gate.opened /\ gate' = [gate EXCEPT !.used = @ + 1]
        BY <2>4 DEF ApplyManifests
      <3> QED
        BY <2>1, <2>4, <3>1 DEF ApplyManifests, AppType, TypeOK
    <2>5. CASE EndSync("prod")
      <3>1. PICK outcome \in Phases :
             app' = [app EXCEPT !["prod"] = [@ EXCEPT !.phase = outcome, !.operation = FALSE]]
        BY <2>5, PromotionAssumption DEF EndSync
      <3>2. app'["prod"].operation = FALSE /\ app'["prod"].phase = outcome
        BY <2>1, <3>1 DEF AppType
      <3> QED
        BY <2>5, <3>1, <3>2, PromotionAssumption DEF EndSync
    <2> QED
      BY <1>4, <2>1, <2>2, <2>3, <2>4, <2>5, OneApp DEF ArgoStep
  <1>5. CASE WorkflowStep
    BY <1>1, <1>5 DEF WorkflowStep, CommitCode, EndCI, CheckoutMain, PushTag
  <1>6. ASSUME NEW p \in Operators, OperatorStep(p), ~PatchOperation(p) PROVE GateInv'
    BY <1>1, <1>6 DEF OperatorStep, Launch, Edit, Revert, Commit, CommitRefused, Push, PollPhase,
                      Interrupt, ResetClone, Rebase
  <1> QED
    BY <1>1, <1>2, <1>3, <1>4, <1>5, <1>6 DEF Next, vars

----------------------------------------------------------------------------
(* What a clone knows of main. *)

LEMMA CloneInitially == Init => CloneInv
  <1> SUFFICES ASSUME Init PROVE CloneInv
    OBVIOUS
  <1>1. /\ Fetched.base = main.rev /\ Fetched.origin = main.tag /\ Fetched.head = main.tag
        /\ main.rev = 0
    BY DEF Init, Fetched
  <1>2. CloneIsOwn(Fetched)
    BY <1>1 DEF CloneIsOwn
  <1> QED
    BY <1>2 DEF Init, CloneInv

LEMMA CloneReplaced ==
    ASSUME TypeOK, CloneInv, NEW p \in Operators, NEW c,
           clone' = [clone EXCEPT ![p] = c], UNCHANGED main, CloneIsOwn(c)
    PROVE  CloneInv'
  <1>1. \A q \in Operators : clone'[q] = IF q = p THEN c ELSE clone[q]
    BY DEF TypeOK
  <1> QED
    BY <1>1 DEF CloneInv, CloneIsOwn

LEMMA MainAdvances ==
    ASSUME TypeOK, CloneInv, UNCHANGED clone, NEW tags, NEW new, Advance(tags, new)
    PROVE  CloneInv'
  BY DEF CloneInv, CloneIsOwn, Advance, TypeOK, CloneType

LEMMA FetchedIsOwn == TypeOK => CloneIsOwn(Fetched)
  BY DEF TypeOK, CloneIsOwn, Fetched

LEMMA CommittedIsOwn ==
    ASSUME NEW c \in CloneType, NEW r \in RunType, CloneIsOwn(c)
    PROVE  CloneIsOwn(Committed(c, r))
  <1> DEFINE head == [c.head EXCEPT ![r.env] = r.tag]
             mine == c.mine \cup {[env |-> r.env, tag |-> r.tag]}
  <1>1. /\ Committed(c, r).base = c.base /\ Committed(c, r).origin = c.origin
        /\ Committed(c, r).head = head /\ Committed(c, r).mine = mine
    BY DEF Committed, CloneType
  <1>2. \A e \in Envs : head[e] = IF e = r.env THEN r.tag ELSE c.head[e]
    BY DEF CloneType, TagFiles
  <1> QED
    BY <1>1, <1>2 DEF CloneIsOwn

LEMMA RebasedIsOwn ==
    ASSUME TypeOK, CloneInv, NEW p \in Operators, Rebase(p)
    PROVE  CloneInv'
  <1> DEFINE edited == {c.env : c \in clone[p].mine}
             head == [e \in Envs |-> IF e \in edited THEN clone[p].head[e] ELSE main.tag[e]]
             new == [Fetched EXCEPT !.head = head, !.tree = head, !.mine = clone[p].mine]
  <1>1. /\ clone' = [clone EXCEPT ![p] = new] /\ UNCHANGED main
        /\ \A e \in edited : main.tag[e] = clone[p].origin[e]
    BY DEF Rebase
  <1>2. /\ new.base = main.rev /\ new.origin = main.tag /\ new.head = head
        /\ new.mine = clone[p].mine
    BY DEF Fetched
  <1>3. CloneIsOwn(clone[p]) /\ main.rev \in Nat
    BY DEF CloneInv, TypeOK
  <1>4. CloneIsOwn(new)
    <2> SUFFICES ASSUME NEW e \in Envs, head[e] # main.tag[e]
                 PROVE  [env |-> e, tag |-> head[e]] \in clone[p].mine
      BY <1>2, <1>3 DEF CloneIsOwn
    <2>1. e \in edited /\ head[e] = clone[p].head[e]
      OBVIOUS
    <2> QED
      BY <1>1, <1>3, <2>1 DEF CloneIsOwn
  <1> QED
    BY <1>1, <1>4, CloneReplaced

LEMMA CloneKept == TypeOK /\ CloneInv /\ [Next]_vars => CloneInv'
  <1> SUFFICES ASSUME TypeOK, CloneInv, [Next]_vars PROVE CloneInv'
    OBVIOUS
  <1>1. ASSUME UNCHANGED <<main, clone>> PROVE CloneInv'
    BY <1>1 DEF CloneInv, CloneIsOwn
  <1>2. CASE WorkflowStep
    BY <1>1, <1>2, MainAdvances DEF WorkflowStep, CommitCode, EndCI, CheckoutMain, PushTag
  <1>3. ASSUME NEW p \in Operators, Edit(p) \/ Revert(p) \/ CommitRefused(p) PROVE CloneInv'
    <2>1. clone[p] \in CloneType /\ CloneIsOwn(clone[p])
      BY DEF TypeOK, CloneInv
    <2>2. PICK c : /\ clone' = [clone EXCEPT ![p] = c] /\ c.base = clone[p].base
                   /\ c.origin = clone[p].origin /\ c.head = clone[p].head
                   /\ c.mine = clone[p].mine
      <3>1. CASE Edit(p)
        <4> DEFINE new == [clone[p] EXCEPT !.tree[run[p].env] = run[p].tag]
        <4>1. clone' = [clone EXCEPT ![p] = new]
          BY <3>1 DEF Edit
        <4>2. /\ new.base = clone[p].base /\ new.origin = clone[p].origin
              /\ new.head = clone[p].head /\ new.mine = clone[p].mine
          BY <2>1 DEF CloneType
        <4> HIDE DEF new
        <4> QED
          BY <4>1, <4>2
      <3>2. CASE Revert(p)
        <4> DEFINE new == [clone[p] EXCEPT !.tree[run[p].env] = clone[p].head[run[p].env]]
        <4>1. clone' = [clone EXCEPT ![p] = new]
          BY <3>2 DEF Revert
        <4>2. /\ new.base = clone[p].base /\ new.origin = clone[p].origin
              /\ new.head = clone[p].head /\ new.mine = clone[p].mine
          BY <2>1 DEF CloneType
        <4> HIDE DEF new
        <4> QED
          BY <4>1, <4>2
      <3>3. CASE CommitRefused(p)
        <4> DEFINE new == [clone[p] EXCEPT !.staged = ~NothingToCommit(p)]
        <4>1. clone' = [clone EXCEPT ![p] = new]
          BY <3>3 DEF CommitRefused
        <4>2. /\ new.base = clone[p].base /\ new.origin = clone[p].origin
              /\ new.head = clone[p].head /\ new.mine = clone[p].mine
          BY <2>1 DEF CloneType
        <4> HIDE DEF new
        <4> QED
          BY <4>1, <4>2
      <3> QED
        BY <1>3, <3>1, <3>2, <3>3
    <2>3. UNCHANGED main
      BY <1>3 DEF Edit, Revert, CommitRefused
    <2>4. CloneIsOwn(c)
      BY <2>1, <2>2 DEF CloneIsOwn
    <2> QED
      BY <2>2, <2>3, <2>4, CloneReplaced
  <1>4. ASSUME NEW p \in Operators, Commit(p) PROVE CloneInv'
    <2>1. CloneIsOwn(Committed(clone[p], run[p]))
      BY CommittedIsOwn DEF CloneInv, TypeOK
    <2>2. CASE NothingToCommit(p)
      BY <1>1, <1>4, <2>2 DEF Commit
    <2>3. CASE ~NothingToCommit(p)
      BY <1>4, <2>1, <2>3, CloneReplaced DEF Commit
    <2> QED
      BY <2>2, <2>3
  <1>5. ASSUME NEW p \in Operators, Push(p) PROVE CloneInv'
    <2>1. CASE FastForward(p)
      <3> DEFINE new == [clone[p] EXCEPT !.base = main.rev + 1, !.mine = {},
                                         !.origin = clone[p].head]
      <3>1. /\ main'.rev = main.rev + 1 /\ main'.tag = clone[p].head
            /\ clone' = [clone EXCEPT ![p] = new]
        BY <1>5, <2>1 DEF Push, Advance
      <3>2. new.base = main.rev + 1 /\ new.origin = clone[p].head /\ new.head = clone[p].head
        BY DEF TypeOK, CloneType
      <3>3. main.rev \in Nat /\ \A q \in Operators : clone[q].base \in Nat
        BY DEF TypeOK, CloneType
      <3>4. \A q \in Operators : clone'[q] = IF q = p THEN new ELSE clone[q]
        BY <3>1 DEF TypeOK
      <3>5. CloneIsOwn(clone[p])'
        <4> HIDE DEF new
        <4>0. clone'[p] = new
          BY <3>4
        <4>a. main'.rev \in Nat
          BY <3>1, <3>3
        <4>b. clone'[p].base = main'.rev
          BY <3>1, <3>2, <4>0
        <4>1. clone'[p].base = main'.rev /\ main'.rev \in Nat
          BY <4>a, <4>b
        <4>2. clone'[p].origin = main'.tag /\ clone'[p].head = clone'[p].origin
          BY <3>1, <3>2, <3>4
        <4> QED
          BY <4>1, <4>2 DEF CloneIsOwn
      <3>6. ASSUME NEW q \in Operators, q # p PROVE CloneIsOwn(clone[q])'
        BY <3>1, <3>3, <3>4, <3>6 DEF CloneIsOwn, CloneInv
      <3> QED
        BY <3>5, <3>6 DEF CloneInv
    <2>2. CASE ~FastForward(p)
      BY <1>1, <1>5, <2>2 DEF Push
    <2> QED
      BY <2>1, <2>2
  <1>6. ASSUME NEW p \in Operators, ResetClone(p) PROVE CloneInv'
    BY <1>6, FetchedIsOwn, CloneReplaced DEF ResetClone
  <1>7. ASSUME NEW e \in Envs, ArgoStep(e) PROVE CloneInv'
    BY <1>1, <1>7 DEF ArgoStep, AutoSync, StartSync, ApplyManifests, EndSync, FailSync
  <1>8. ASSUME NEW p \in Operators,
               \/ \E env \in Targets, sync, dry \in BOOLEAN : Launch(p, env, sync, dry)
               \/ PatchOperation(p) \/ PollPhase(p) \/ Interrupt(p)
        PROVE  CloneInv'
    BY <1>1, <1>8 DEF Launch, PatchOperation, PollPhase, Interrupt
  <1> QED
    BY <1>1, <1>2, <1>3, <1>4, <1>5, <1>6, <1>7, <1>8, RebasedIsOwn DEF Next, OperatorStep, vars

(* A step that moves a tag of main is a push of somebody who set that tag. *)
PushesAreOwn ==
    \A e \in Envs : main'.tag[e] # main.tag[e] =>
        \/ \E p \in Operators : /\ run[p].step = "push"
                                /\ [env |-> e, tag |-> main'.tag[e]] \in clone[p].mine
        \/ e = "dev" /\ \E b \in Commits : cd[b].step = "push" /\ main'.tag[e] = b

LEMMA PushIsOwn == TypeOK /\ CloneInv /\ [Next]_vars => PushesAreOwn
  <1> SUFFICES ASSUME TypeOK, CloneInv, [Next]_vars PROVE PushesAreOwn
    OBVIOUS
  <1>1. ASSUME main'.tag = main.tag PROVE PushesAreOwn
    BY <1>1 DEF PushesAreOwn
  <1>2. CASE CommitCode
    BY <1>1, <1>2 DEF CommitCode, Advance
  <1>3. ASSUME NEW b \in Commits, PushTag(b) PROVE PushesAreOwn
    <2>1. CASE cd[b].base = main.rev
      <3>1. main'.tag = [main.tag EXCEPT !["dev"] = b] /\ cd[b].step = "push"
        BY <1>3, <2>1 DEF PushTag, Advance
      <3>2. \A e \in Envs : main'.tag[e] = IF e = "dev" THEN b ELSE main.tag[e]
        BY <3>1 DEF TypeOK, TagFiles
      <3> QED
        BY <3>1, <3>2 DEF PushesAreOwn
    <2> QED
      BY <1>1, <1>3, <2>1 DEF PushTag
  <1>4. ASSUME NEW p \in Operators, Push(p) PROVE PushesAreOwn
    <2>1. CASE FastForward(p)
      <3>1. main'.tag = clone[p].head /\ run[p].step = "push" /\ clone[p].origin = main.tag
        BY <1>4, <2>1 DEF Push, Advance, FastForward, CloneInv, CloneIsOwn
      <3> QED
        BY <3>1 DEF PushesAreOwn, CloneInv, CloneIsOwn
    <2> QED
      BY <1>1, <1>4, <2>1 DEF Push
  <1>5. ASSUME NEW p \in Operators, OperatorStep(p), ~Push(p) PROVE PushesAreOwn
    BY <1>1, <1>5 DEF OperatorStep, Launch, Edit, Revert, Commit, CommitRefused, PollPhase,
                      PatchOperation, Interrupt, ResetClone, Rebase
  <1>6. ASSUME NEW e \in Envs, ArgoStep(e) PROVE PushesAreOwn
    BY <1>1, <1>6 DEF ArgoStep, AutoSync, StartSync, ApplyManifests, EndSync, FailSync
  <1> QED
    BY <1>1, <1>2, <1>3, <1>4, <1>5, <1>6 DEF Next, WorkflowStep, EndCI, CheckoutMain, vars

----------------------------------------------------------------------------
(* The chain of releases. *)

LEMMA ChainInitially == Init => ChainInv
  <1> SUFFICES ASSUME Init PROVE ChainInv
    OBVIOUS
  <1>1. Chain
    BY DEF Init, Chain, Seen, NoTags, Envs
  <1>2. Fetched.head = NoTags /\ Fetched.tree = NoTags /\ Fetched.mine = {}
    BY DEF Init, Fetched
  <1>3. CloneChain(Fetched)
    BY <1>2 DEF Init, CloneChain, Has, NoTags
  <1>4. RunChain(Idle, Fetched)
    BY <1>2 DEF RunChain, Idle
  <1> QED
    BY <1>1, <1>3, <1>4 DEF Init, ChainInv

(* Nothing that was released is ever taken back. *)
LEMMA ReleasedGrows ==
    ASSUME TypeOK, NEW tags, NEW new, Advance(tags, new)
    PROVE  /\ \A e \in Envs : released[e] \subseteq released'[e]
           /\ \A x \in new : x.env \in Envs => x.tag \in released'[x.env]
           /\ \A e \in Envs : \A t \in released'[e] :
                 t \in released[e] \/ \E x \in new : x.env = e /\ x.tag = t
           /\ main'.tag = tags
  BY DEF Advance

LEMMA CloneChainStays ==
    ASSUME NEW c \in CloneType, CloneChain(c), \A e \in Envs : released[e] \subseteq released'[e]
    PROVE  CloneChain(c)'
  BY Environments DEF CloneChain, Has, CloneType

(* A push keeps the chain when what it sets was released, or comes with it. *)
LEMMA ChainAdvances ==
    ASSUME TypeOK, Chain, UNCHANGED app, NEW tags, NEW new, Advance(tags, new),
           \A e \in Envs : tags[e] \in released'[e],
           \A x \in new : x.env \in Targets => x.tag \in released'[SourceOf[x.env]]
    PROVE  Chain'
  <1>1. \A e \in Envs : Seen(e)'
    BY ReleasedGrows DEF Chain, Seen
  <1>2. released'["prod"] \subseteq released'["staging"]
    BY ReleasedGrows, Environments DEF Chain, Envs
  <1>3. released'["staging"] \subseteq released'["dev"]
    BY ReleasedGrows, Environments DEF Chain, Envs
  <1> QED
    BY <1>1, <1>2, <1>3 DEF Chain

(* So does a step of the workflows, which leaves the clones alone. *)
LEMMA MainMoves ==
    ASSUME TypeOK, ChainInv, UNCHANGED <<app, clone, run, interrupts>>,
           \A e \in Envs : released[e] \subseteq released'[e], interrupts = 0 => Chain'
    PROVE  ChainInv'
  <1> SUFFICES ASSUME interrupts = 0 PROVE (\A p \in Operators : CloneChain(clone[p]) /\ RunChain(run[p], clone[p]))'
    BY DEF ChainInv
  <1> TAKE p \in Operators
  <1>1. RunChain(run[p], clone[p])'
    BY DEF ChainInv, RunChain
  <1>2. clone[p] \in CloneType /\ CloneChain(clone[p])
    BY DEF ChainInv, TypeOK
  <1>3. CloneChain(clone[p])'
    BY <1>2, Environments DEF CloneChain, Has, CloneType
  <1> QED
    BY <1>1, <1>3

(* And a step of one clone that moves neither main nor ArgoCD's tags. *)
LEMMA OwnerMoves ==
    ASSUME TypeOK, ChainInv, NEW p \in Operators, NEW c, NEW r, UNCHANGED <<main, released>>,
           \A e \in Envs : app'[e].live = app[e].live /\ app'[e].target = app[e].target,
           clone' = [clone EXCEPT ![p] = c], run' = [run EXCEPT ![p] = r],
           interrupts' >= interrupts,
           interrupts = 0 => CloneChain(c) /\ RunChain(r, c)
    PROVE  ChainInv'
  <1> SUFFICES ASSUME interrupts' = 0 PROVE (Chain /\ \A q \in Operators : CloneChain(clone[q]) /\ RunChain(run[q], clone[q]))'
    BY DEF ChainInv
  <1>1. interrupts = 0
    BY DEF TypeOK
  <1>2. Chain'
    BY <1>1 DEF ChainInv, Chain, Seen
  <1>3. ASSUME NEW q \in Operators
        PROVE  clone'[q] = (IF q = p THEN c ELSE clone[q]) /\ run'[q] = (IF q = p THEN r ELSE run[q])
    BY DEF TypeOK
  <1>4. ASSUME NEW q \in Operators PROVE (CloneChain(clone[q]) /\ RunChain(run[q], clone[q]))'
    BY <1>1, <1>3 DEF ChainInv, CloneChain, Has, RunChain
  <1> QED
    BY <1>2, <1>4

LEMMA LaunchChain ==
    ASSUME TypeOK, ChainInv, NEW p \in Operators, NEW env \in Targets, NEW sync \in BOOLEAN,
           NEW dry \in BOOLEAN, Launch(p, env, sync, dry)
    PROVE  ChainInv'
  <1> DEFINE start == [step |-> "edit", env |-> env, tag |-> clone[p].tree[SourceOf[env]],
                       sync |-> sync, dry |-> dry]
             r == IF clone[p].tree[env] = start.tag THEN AfterPromotion(start)
                  ELSE IF clone[p].staged THEN Idle ELSE start
  <1>1. /\ run[p].step = "idle" /\ run' = [run EXCEPT ![p] = r]
        /\ UNCHANGED <<main, released, app, clone, interrupts>>
    BY DEF Launch
  <1>2. clone' = [clone EXCEPT ![p] = clone[p]]
    BY <1>1 DEF TypeOK
  <1>3. ASSUME interrupts = 0 PROVE CloneChain(clone[p]) /\ RunChain(r, clone[p])
    <2>1. CloneChain(clone[p]) /\ clone[p].tree = clone[p].head
      BY <1>1, <1>3 DEF ChainInv, RunChain
    <2>2. RunChain(start, clone[p]) /\ RunChain(AfterPromotion(start), clone[p]) /\ RunChain(Idle, clone[p])
      BY <2>1 DEF RunChain, AfterPromotion, Idle
    <2> QED
      BY <2>1, <2>2
  <1> HIDE DEF r
  <1>4. interrupts' >= interrupts
    BY <1>1 DEF TypeOK
  <1> QED
    BY <1>1, <1>2, <1>3, <1>4, OwnerMoves

LEMMA EditChain == ASSUME TypeOK, ChainInv, NEW p \in Operators, Edit(p) PROVE ChainInv'
  <1> DEFINE c == [clone[p] EXCEPT !.tree[run[p].env] = run[p].tag]
             r == [run[p] EXCEPT !.step = IF run[p].dry THEN "revert" ELSE "commit"]
  <1>1. /\ run[p].step = "edit" /\ clone' = [clone EXCEPT ![p] = c]
        /\ run' = [run EXCEPT ![p] = r] /\ UNCHANGED <<main, released, app, interrupts>>
    BY DEF Edit
  <1>2. clone[p] \in CloneType /\ run[p] \in RunType /\ interrupts' >= interrupts
    BY <1>1 DEF TypeOK
  <1>3. ASSUME interrupts = 0 PROVE CloneChain(c) /\ RunChain(r, c)
    <2>1. CloneChain(clone[p]) /\ RunChain(run[p], clone[p])
      BY <1>3 DEF ChainInv
    <2>2. /\ c.head = clone[p].head /\ c.mine = clone[p].mine
          /\ c.tree = [clone[p].tree EXCEPT ![run[p].env] = run[p].tag]
          /\ r.step \in {"revert", "commit"} /\ r.env = run[p].env /\ r.tag = run[p].tag
      BY <1>2 DEF CloneType, RunType
    <2> HIDE DEF c, r
    <2>3. CloneChain(c)
      BY <2>1, <2>2 DEF CloneChain, Has
    <2>4. RunChain(r, c)
      BY <1>1, <2>1, <2>2 DEF RunChain
    <2> QED
      BY <2>3, <2>4
  <1> HIDE DEF c, r
  <1> QED
    BY <1>1, <1>2, <1>3, OwnerMoves

LEMMA RevertChain == ASSUME TypeOK, ChainInv, NEW p \in Operators, Revert(p) PROVE ChainInv'
  <1> DEFINE c == [clone[p] EXCEPT !.tree[run[p].env] = clone[p].head[run[p].env]]
  <1>1. /\ run[p].step = "revert" /\ clone' = [clone EXCEPT ![p] = c]
        /\ run' = [run EXCEPT ![p] = Idle] /\ UNCHANGED <<main, released, app, interrupts>>
    BY DEF Revert
  <1>2. clone[p] \in CloneType /\ run[p] \in RunType /\ interrupts' >= interrupts
    BY <1>1 DEF TypeOK
  <1>3. ASSUME interrupts = 0 PROVE CloneChain(c) /\ RunChain(Idle, c)
    <2>1. CloneChain(clone[p]) /\ clone[p].tree = [clone[p].head EXCEPT ![run[p].env] = run[p].tag]
      BY <1>1, <1>3 DEF ChainInv, RunChain
    <2>2. /\ c.head = clone[p].head /\ c.mine = clone[p].mine
          /\ c.tree = [clone[p].tree EXCEPT ![run[p].env] = clone[p].head[run[p].env]]
      BY <1>2 DEF CloneType
    <2>3. clone[p].head \in [Envs -> Tags]
      BY <1>2 DEF CloneType, TagFiles
    <2>4. c.tree = c.head
      BY <2>1, <2>2, <2>3
    <2> HIDE DEF c
    <2>5. CloneChain(c)
      BY <2>1, <2>2 DEF CloneChain, Has
    <2>6. RunChain(Idle, c)
      BY <2>4 DEF RunChain, Idle
    <2> QED
      BY <2>5, <2>6
  <1> HIDE DEF c
  <1> QED
    BY <1>1, <1>2, <1>3, OwnerMoves

(* With nothing to commit, the files are those of HEAD already. *)
LEMMA NoCommitChain ==
    ASSUME TypeOK, ChainInv, NEW p \in Operators, Commit(p), NothingToCommit(p)
    PROVE  ChainInv'
  <1>1. /\ run[p].step = "commit" /\ clone' = [clone EXCEPT ![p] = clone[p]]
        /\ run' = [run EXCEPT ![p] = Idle] /\ UNCHANGED <<main, released, app, interrupts>>
    BY DEF Commit, TypeOK
  <1>2. clone[p].head \in [Envs -> Tags] /\ interrupts' >= interrupts
    BY <1>1 DEF TypeOK, CloneType, TagFiles
  <1>3. ASSUME interrupts = 0 PROVE CloneChain(clone[p]) /\ RunChain(Idle, clone[p])
    <2>1. CloneChain(clone[p]) /\ clone[p].tree = [clone[p].head EXCEPT ![run[p].env] = run[p].tag]
      BY <1>1, <1>3 DEF ChainInv, RunChain
    <2>2. clone[p].tree = clone[p].head
      BY <1>2, <2>1 DEF NothingToCommit
    <2> QED
      BY <2>1, <2>2 DEF RunChain, Idle
  <1> QED
    BY <1>1, <1>2, <1>3, OwnerMoves

LEMMA CommitChain ==
    ASSUME TypeOK, ChainInv, NEW p \in Operators, Commit(p), ~NothingToCommit(p)
    PROVE  ChainInv'
  <1> DEFINE c == Committed(clone[p], run[p])
             r == [run[p] EXCEPT !.step = "push"]
             change == [env |-> run[p].env, tag |-> run[p].tag]
  <1>1. /\ run[p].step = "commit" /\ clone' = [clone EXCEPT ![p] = c]
        /\ run' = [run EXCEPT ![p] = r] /\ UNCHANGED <<main, released, app, interrupts>>
    BY DEF Commit
  <1>2. clone[p] \in CloneType /\ run[p] \in RunType /\ interrupts' >= interrupts
    BY <1>1 DEF TypeOK
  <1>3. /\ c.head = [clone[p].head EXCEPT ![run[p].env] = run[p].tag]
        /\ c.mine = clone[p].mine \cup {change} /\ c.tree = clone[p].tree
        /\ r.step = "push"
    BY <1>2 DEF Committed, CloneType, RunType
  <1>4. ASSUME interrupts = 0 PROVE CloneChain(c) /\ RunChain(r, c)
    <2>1. /\ CloneChain(clone[p]) /\ run[p].tag = clone[p].head[SourceOf[run[p].env]]
          /\ clone[p].tree = [clone[p].head EXCEPT ![run[p].env] = run[p].tag]
      BY <1>1, <1>4 DEF ChainInv, RunChain
    <2>2. RunChain(r, c)
      BY <1>3, <2>1 DEF RunChain
    <2>3. /\ clone[p].head \in [Envs -> Tags] /\ run[p].env \in Envs
          /\ SourceOf[run[p].env] \in Envs
      BY <1>2, Environments DEF CloneType, RunType, TagFiles
    <2>4. \A e \in Envs, t \in Tags : Has(clone[p], e, t) => Has(c, e, t)
      BY <1>3 DEF Has
    <2>5. \A e \in Envs : Has(c, e, c.head[e])
      BY <1>3, <2>1, <2>3, <2>4 DEF CloneChain, Has
    <2>6. Has(c, SourceOf[run[p].env], run[p].tag)
      BY <2>1, <2>3, <2>4 DEF CloneChain
    <2>7. \A x \in clone[p].mine : Has(c, SourceOf[x.env], x.tag)
      BY <1>2, <2>1, <2>4, Environments DEF CloneChain, CloneType
    <2>8. \A x \in c.mine : Has(c, SourceOf[x.env], x.tag)
      BY <1>3, <2>6, <2>7
    <2> QED
      BY <2>2, <2>5, <2>8 DEF CloneChain
  <1> HIDE DEF c, r
  <1> QED
    BY <1>1, <1>2, <1>4, OwnerMoves

LEMMA ResetChain == ASSUME TypeOK, ChainInv, NEW p \in Operators, ResetClone(p) PROVE ChainInv'
  <1>1. /\ run[p].step = "idle" /\ clone' = [clone EXCEPT ![p] = Fetched]
        /\ UNCHANGED <<main, released, app, interrupts, run>>
    BY DEF ResetClone
  <1>2. run' = [run EXCEPT ![p] = run[p]] /\ interrupts' >= interrupts
    BY <1>1 DEF TypeOK
  <1>3. Fetched.head = main.tag /\ Fetched.tree = main.tag /\ Fetched.mine = {}
    BY DEF Fetched
  <1>4. interrupts = 0 => CloneChain(Fetched)
    BY <1>3 DEF ChainInv, Chain, Seen, CloneChain, Has
  <1>5. RunChain(run[p], Fetched)
    BY <1>1, <1>3 DEF RunChain
  <1> QED
    BY <1>1, <1>2, <1>4, <1>5, OwnerMoves

LEMMA RebaseChain == ASSUME TypeOK, ChainInv, NEW p \in Operators, Rebase(p) PROVE ChainInv'
  <1> DEFINE edited == {c.env : c \in clone[p].mine}
             head == [e \in Envs |-> IF e \in edited THEN clone[p].head[e] ELSE main.tag[e]]
             new == [Fetched EXCEPT !.head = head, !.tree = head, !.mine = clone[p].mine]
  <1>1. /\ run[p].step = "idle" /\ clone' = [clone EXCEPT ![p] = new]
        /\ UNCHANGED <<main, released, app, interrupts, run>>
    BY DEF Rebase
  <1>2. run' = [run EXCEPT ![p] = run[p]] /\ interrupts' >= interrupts
    BY <1>1 DEF TypeOK
  <1>3. new.head = head /\ new.tree = head /\ new.mine = clone[p].mine
    BY DEF Fetched
  <1>4. ASSUME interrupts = 0 PROVE CloneChain(new)
    <2>1. Chain /\ CloneChain(clone[p]) /\ clone[p] \in CloneType
      BY <1>4 DEF ChainInv, TypeOK
    <2>2. \A e \in Envs : Has(new, e, new.head[e])
      BY <1>3, <2>1 DEF Chain, Seen, CloneChain, Has
    <2>3. \A x \in new.mine : Has(new, SourceOf[x.env], x.tag)
      BY <1>3, <2>1 DEF CloneChain, Has
    <2> QED
      BY <2>2, <2>3 DEF CloneChain
  <1>5. RunChain(run[p], new)
    BY <1>1, <1>3 DEF RunChain
  <1> HIDE DEF new
  <1> QED
    BY <1>1, <1>2, <1>4, <1>5, OwnerMoves

(* PatchOperation and PollPhase end what Push or Launch began. *)
LEMMA GateChain ==
    ASSUME TypeOK, ChainInv, NEW p \in Operators, PatchOperation(p) \/ PollPhase(p)
    PROVE  ChainInv'
  <1>1. PICK r : /\ run' = [run EXCEPT ![p] = r] /\ r.step \in {"poll", "idle"}
                 /\ run[p].step \in {"patch", "poll"}
    <2>1. [run[p] EXCEPT !.step = "poll"].step = "poll" /\ Idle.step = "idle"
      BY DEF TypeOK, RunType, Idle
    <2> QED
      BY <2>1 DEF PatchOperation, PollPhase
  <1>2. UNCHANGED <<main, released, clone, interrupts>>
    BY DEF PatchOperation, PollPhase
  <1>3. \A e \in Envs : app'[e].live = app[e].live /\ app'[e].target = app[e].target
    <2>1. CASE PatchOperation(p)
      <3>1. app["prod"] \in AppType /\ "prod" \in Envs
        BY DEF TypeOK, Envs
      <3>2. app' = [app EXCEPT !["prod"] = [app["prod"] EXCEPT !.operation = TRUE]]
        BY <2>1 DEF PatchOperation
      <3> QED
        BY <3>1, <3>2 DEF TypeOK, AppType
    <2>2. CASE PollPhase(p)
      BY <2>2 DEF PollPhase
    <2> QED
      BY <2>1, <2>2
  <1>4. clone' = [clone EXCEPT ![p] = clone[p]] /\ interrupts' >= interrupts
    BY <1>2 DEF TypeOK
  <1>5. interrupts = 0 => CloneChain(clone[p]) /\ RunChain(r, clone[p])
    BY <1>1 DEF ChainInv, RunChain
  <1> QED
    BY <1>1, <1>2, <1>3, <1>4, <1>5, OwnerMoves

LEMMA PushChain == ASSUME TypeOK, ChainInv, NEW p \in Operators, Push(p) PROVE ChainInv'
  <1>1. clone[p] \in CloneType /\ run[p] \in RunType /\ run[p].step = "push"
    BY DEF TypeOK, Push
  <1>2. CASE ~FastForward(p)
    <2>1. /\ run' = [run EXCEPT ![p] = Idle]
          /\ UNCHANGED <<main, released, clone, app, interrupts>>
      BY <1>2 DEF Push
    <2>2. clone' = [clone EXCEPT ![p] = clone[p]] /\ interrupts' >= interrupts
      BY <2>1 DEF TypeOK
    <2>3. interrupts = 0 => CloneChain(clone[p]) /\ RunChain(Idle, clone[p])
      BY <1>1 DEF ChainInv, RunChain, Idle
    <2> QED
      BY <2>1, <2>2, <2>3, OwnerMoves
  <1>3. CASE FastForward(p)
    <2> DEFINE c == [clone[p] EXCEPT !.base = main.rev + 1, !.mine = {}, !.origin = clone[p].head]
               r == AfterPromotion(run[p])
    <2>1. /\ Advance(clone[p].head, clone[p].mine) /\ UNCHANGED <<app, interrupts>>
          /\ clone' = [clone EXCEPT ![p] = c] /\ run' = [run EXCEPT ![p] = r]
      BY <1>3 DEF Push
    <2>2. c.head = clone[p].head /\ c.tree = clone[p].tree /\ c.mine = {} /\ r.step \in {"idle", "patch"}
      BY <1>1 DEF CloneType, RunType, AfterPromotion, Idle
    <2> HIDE DEF c, r
    <2> SUFFICES ASSUME interrupts = 0
                 PROVE  (Chain /\ \A q \in Operators : CloneChain(clone[q]) /\ RunChain(run[q], clone[q]))'
      BY <2>1 DEF ChainInv
    <2>3. /\ Chain /\ \A q \in Operators : CloneChain(clone[q]) /\ RunChain(run[q], clone[q])
          /\ clone[p].tree = clone[p].head
      BY <1>1 DEF ChainInv, RunChain
    <2>4. \A e \in Envs, t \in Tags : Has(clone[p], e, t) => t \in released'[e]
      <3> SUFFICES ASSUME NEW e \in Envs, NEW t \in Tags, Has(clone[p], e, t)
                   PROVE  t \in released'[e]
        OBVIOUS
      <3>1. [env |-> e, tag |-> t] \in clone[p].mine => t \in released'[e]
        BY <2>1, ReleasedGrows
      <3> QED
        BY <2>1, <3>1, ReleasedGrows DEF Has
    <2>5. \A e \in Envs : clone[p].head[e] \in released'[e]
      BY <1>1, <2>3, <2>4 DEF CloneChain, CloneType, TagFiles
    <2>6. \A x \in clone[p].mine : x.tag \in released'[SourceOf[x.env]]
      BY <1>1, <2>3, <2>4, Environments DEF CloneChain, CloneType
    <2>7. Chain'
      BY <2>1, <2>3, <2>5, <2>6, ChainAdvances
    <2>8. ASSUME NEW q \in Operators, q # p PROVE (CloneChain(clone[q]) /\ RunChain(run[q], clone[q]))'
      <3>1. clone'[q] = clone[q] /\ run'[q] = run[q] /\ clone[q] \in CloneType
        BY <2>1, <2>8 DEF TypeOK
      <3>2. \A e \in Envs : released[e] \subseteq released'[e]
        BY <2>1, ReleasedGrows
      <3>3. CloneChain(clone[q])'
        BY <2>3, <3>1, <3>2, Environments DEF CloneChain, Has, CloneType
      <3>4. RunChain(run[q], clone[q])'
        BY <2>3, <3>1 DEF RunChain
      <3> QED
        BY <3>3, <3>4
    <2>9. (CloneChain(clone[p]) /\ RunChain(run[p], clone[p]))'
      <3>1. clone'[p] = c /\ run'[p] = r
        BY <2>1 DEF TypeOK
      <3> QED
        BY <2>2, <2>3, <2>5, <3>1 DEF CloneChain, Has, RunChain
    <2> QED
      BY <2>7, <2>8, <2>9
  <1> QED
    BY <1>2, <1>3

LEMMA WorkflowChain == ASSUME TypeOK, ChainInv, WorkflowStep PROVE ChainInv'
  <1>1. UNCHANGED <<app, clone, run, interrupts>>
    BY DEF WorkflowStep, CommitCode, EndCI, CheckoutMain, PushTag
  <1>2. ASSUME UNCHANGED <<main, released>> PROVE ChainInv'
    BY <1>1, <1>2, MainMoves DEF ChainInv, Chain, Seen
  <1>3. CASE CommitCode
    <2>1. Advance(main.tag, {})
      BY <1>3 DEF CommitCode
    <2>2. \A e \in Envs : released[e] \subseteq released'[e]
      BY <2>1, ReleasedGrows
    <2>3. ASSUME interrupts = 0 PROVE Chain'
      <3>1. Chain /\ \A e \in Envs : main.tag[e] \in released'[e]
        BY <2>2, <2>3 DEF ChainInv, Chain, Seen
      <3> QED
        BY <1>1, <2>1, <3>1, ChainAdvances
    <2> QED
      BY <1>1, <2>2, <2>3, MainMoves
  <1>4. ASSUME NEW b \in Commits, PushTag(b) PROVE ChainInv'
    <2>1. CASE cd[b].base = main.rev
      <3> DEFINE tags == [main.tag EXCEPT !["dev"] = b]
                 new == {[env |-> "dev", tag |-> b]}
      <3>1. Advance(tags, new)
        BY <1>4, <2>1 DEF PushTag
      <3>2. \A e \in Envs : tags[e] = IF e = "dev" THEN b ELSE main.tag[e]
        BY DEF TypeOK, TagFiles
      <3>3. "dev" \in Envs /\ "dev" \notin Targets
        BY Environments DEF Envs
      <3>a. \E x \in new : x.env = "dev" /\ x.tag = b
        OBVIOUS
      <3>b. /\ \A e \in Envs : released[e] \subseteq released'[e]
            /\ \A x \in new : x.env \in Envs => x.tag \in released'[x.env]
        <4> HIDE DEF tags, new
        <4> QED
          BY <3>1, ReleasedGrows
      <3>4. /\ \A e \in Envs : released[e] \subseteq released'[e]
            /\ b \in released'["dev"]
        BY <3>3, <3>a, <3>b
      <3>5. \A x \in new : x.env \notin Targets
        BY <3>3
      <3> HIDE DEF tags, new
      <3>6. ASSUME interrupts = 0 PROVE Chain'
        <4>1. Chain /\ \A e \in Envs : tags[e] \in released'[e]
          BY <3>2, <3>4, <3>6 DEF ChainInv, Chain, Seen
        <4> QED
          BY <1>1, <3>1, <3>5, <4>1, ChainAdvances
      <3> QED
        BY <1>1, <3>4, <3>6, MainMoves
    <2>2. CASE cd[b].base # main.rev
      BY <1>2, <1>4, <2>2 DEF PushTag
    <2> QED
      BY <2>1, <2>2
  <1> QED
    BY <1>2, <1>3, <1>4 DEF WorkflowStep, EndCI, CheckoutMain

LEMMA ArgoChain == ASSUME TypeOK, ChainInv, NEW e \in Envs, ArgoStep(e) PROVE ChainInv'
  <1>1. UNCHANGED <<main, released, clone, run, interrupts>>
    BY DEF ArgoStep, AutoSync, StartSync, ApplyManifests, EndSync, FailSync
  <1>2. /\ app[e] \in AppType /\ app \in [Envs -> AppType]
        /\ \A d \in Envs \ {e} : app'[d] = app[d]
    BY OneApp DEF TypeOK
  <1>3. {app'[e].target, app'[e].live} \subseteq {main.tag[e], app[e].target, app[e].live}
    <2>1. CASE AutoSync(e)
      <3>1. app'[e] = [app[e] EXCEPT !.operation = TRUE, !.target = main.tag[e],
                                     !.rev = main.rev]
        BY <1>2, <2>1 DEF AutoSync
      <3> QED
        BY <1>2, <3>1 DEF AppType
    <2>2. CASE StartSync(e)
      <3> DEFINE target == IF e \in Automated THEN app[e].target ELSE main.tag[e]
      <3>1. app'[e] = [app[e] EXCEPT !.phase = "Running", !.target = target]
        BY <1>2, <2>2 DEF StartSync
      <3> QED
        BY <1>2, <3>1 DEF AppType
    <2>5. CASE FailSync(e)
      BY <1>2, <2>5 DEF FailSync, AppType
    <2>3. CASE ApplyManifests(e)
      BY <1>2, <2>3 DEF ApplyManifests, AppType
    <2>4. CASE EndSync(e)
      <3>1. PICK outcome \in Phases :
             app' = [app EXCEPT ![e] = [@ EXCEPT !.phase = outcome, !.operation = FALSE]]
        BY <2>4, PromotionAssumption DEF EndSync
      <3>2. app'[e] = [app[e] EXCEPT !.phase = outcome, !.operation = FALSE]
        BY <1>2, <3>1
      <3> QED
        BY <1>2, <3>2 DEF AppType
    <2> QED
      BY <2>1, <2>2, <2>3, <2>4, <2>5 DEF ArgoStep
  <1>4. Chain => Chain'
    BY <1>1, <1>2, <1>3 DEF Chain, Seen
  <1>5. ASSUME NEW p \in Operators
        PROVE  CloneChain(clone[p]) /\ RunChain(run[p], clone[p]) =>
                  (CloneChain(clone[p]) /\ RunChain(run[p], clone[p]))'
    BY <1>1 DEF CloneChain, Has, RunChain
  <1> QED
    BY <1>1, <1>4, <1>5 DEF ChainInv

LEMMA ChainKept == TypeOK /\ ChainInv /\ [Next]_vars => ChainInv'
  <1> SUFFICES ASSUME TypeOK, ChainInv, [Next]_vars PROVE ChainInv'
    OBVIOUS
  <1>1. ASSUME NEW p \in Operators, CommitRefused(p) \/ Interrupt(p) PROVE ChainInv'
    BY <1>1 DEF CommitRefused, Interrupt, ChainInv, TypeOK
  <1>2. CASE UNCHANGED vars
    BY <1>2 DEF vars, ChainInv, Chain, Seen, CloneChain, Has, RunChain
  <1> QED
    BY <1>1, <1>2, WorkflowChain, ArgoChain, LaunchChain, EditChain, RevertChain, CommitChain,
       NoCommitChain, PushChain, GateChain, ResetChain, RebaseChain DEF Next, OperatorStep

----------------------------------------------------------------------------
(* The theorems. *)

LEMMA AlwaysIInv == Spec => []IInv
  <1>1. Init => IInv
    BY TypeInitially, ChainInitially, CloneInitially, GateInitially DEF IInv
  <1>2. IInv /\ [Next]_vars => IInv'
    BY TypeKept, ChainKept, CloneKept, GateKept DEF IInv
  <1> QED
    BY <1>1, <1>2, PTL DEF Spec

(***************************************************************************)
(* Main, the workflows, the clones, the runs of promote.sh and the ArgoCD  *)
(* applications always hold what the code may put in them.                 *)
(***************************************************************************)
THEOREM PromotionTypeCorrect == Spec => []TypeOK
  <1>1. IInv => TypeOK
    BY DEF IInv
  <1> QED
    BY <1>1, AlwaysIInv, PTL

(***************************************************************************)
(* Until a run of promote.sh stops half way, no commit gives staging or    *)
(* prod a tag that a commit did not give the environment before it, however*)
(* many clones are stale, refused, reset and rebased (promote.sh reads the *)
(* source's tag in the working tree, not in main).                         *)
(***************************************************************************)
THEOREM ChainCorrect == Spec => [](interrupts = 0 => NoUnstagedRelease)
  <1>1. IInv => (interrupts = 0 => NoUnstagedRelease)
    BY DEF IInv, ChainInv, Chain, Seen, NoUnstagedRelease
  <1> QED
    BY <1>1, AlwaysIInv, PTL

(***************************************************************************)
(* No push, of CD or of promote.sh, moves a tag that its author did not    *)
(* commit: promotions never undo each other, interrupted or not.           *)
(***************************************************************************)
THEOREM PushesCorrect == Spec => PushesUndoNothing
  <1>1. IInv /\ [Next]_vars => PushesAreOwn
    BY PushIsOwn DEF IInv
  <1>2. IInv /\ [Next]_vars => [PushesAreOwn]_vars
    BY <1>1
  <1> QED
    BY <1>2, AlwaysIInv, PTL DEF Spec, PushesUndoNothing, PushesAreOwn

(***************************************************************************)
(* Prod never changes more often than promote.sh opened its gate, whatever *)
(* ArgoCD polls, syncs or fails to sync, and whoever polls or gives up.    *)
(***************************************************************************)
THEOREM GateCorrect == Spec => []ProdWaitsForGate
  <1>1. IInv => ProdWaitsForGate
    BY DEF IInv, GateInv
  <1> QED
    BY <1>1, AlwaysIInv, PTL
=============================================================================
