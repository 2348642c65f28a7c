------------------------------ MODULE Promotion ------------------------------
(***************************************************************************)
(* The release chain dev -> staging -> prod (ADR-0012): CI builds a commit *)
(* of main, the CD workflow writes its tag into the bases (dev), and       *)
(* scripts/promote.sh, run from somebody's clone, copies a tag one         *)
(* environment forward as a commit.  ArgoCD polls main and applies it; for *)
(* prod only when the script opens the gate.                               *)
(*                                                                         *)
(* A tag is the number of the commit it was built from.  Of a tree, only   *)
(* the image tag of each environment's kustomization is kept; main counts  *)
(* its commits, so that a push can tell whether it would be a fast-forward.*)
(***************************************************************************)
EXTENDS Naturals

CONSTANTS
    Operators,      \* the clones promote.sh is run from
    Phases,         \* outcomes of a sync that has PostSync smoke checks
    MaxCommits,     \* bound: code commits on main
    MaxRuns,        \* bound: runs of promote.sh
    MaxInterrupts   \* bound: runs that stop half way

ASSUME PromotionAssumption ==
    /\ Phases = {"Succeeded", "Failed"}
    /\ {MaxCommits, MaxRuns, MaxInterrupts} \subseteq Nat

Envs == {"dev", "staging", "prod"}

(* Mutation of Automated: syncMode left at automated for prod. *)
EveryEnv == Envs

Automated == {"dev", "staging"}     \* syncMode: automated

(* Mutation of SourceOf: both promotions copy dev's tag. *)
AlwaysDev == [staging |-> "dev", prod |-> "dev"]

SourceOf == [staging |-> "dev", prod |-> "staging"]
Targets == DOMAIN SourceOf

Commits == 1..MaxCommits
Tags == 0..MaxCommits               \* tag 0 is what every environment starts with
TagFiles == [Envs -> Tags]

VARIABLES
    main,       \* [rev, tag]: the number of commits and the tags of main
    commits,    \* code commits so far
    ci,         \* [Commits -> state of the CI run]
    cd,         \* [Commits -> [step, base]]: the CD run of a commit
    clone,      \* [Operators -> [base, origin, head, mine, tree, staged]]: the
                \* commit of main it has, its own commits on top, its files
    run,        \* [Operators -> [step, env, tag, sync, dry]]: promote.sh
    app,        \* [Envs -> [live, target, rev, operation, phase]]: ArgoCD
    runs, interrupts,
    released,   \* [Envs -> set of tags that commits of main have given it]
    gate        \* [opened, used]: syncs of prod requested, changes of prod

vars == <<main, commits, ci, cd, clone, run, app, runs, interrupts, released, gate>>

Idle == [step |-> "idle", env |-> "staging", tag |-> 0, sync |-> FALSE, dry |-> FALSE]

(* Mutation of NoTags: prod's kustomization has no images: entry. *)
MissingEntry == [e \in Automated |-> 0]

NoTags == [e \in Envs |-> 0]

(* A clone that has just been fetched. *)
Fetched == [base |-> main.rev, origin |-> main.tag, head |-> main.tag,
            mine |-> {}, tree |-> main.tag, staged |-> FALSE]

Init ==
    /\ main = [rev |-> 0, tag |-> NoTags]
    /\ commits = 0
    /\ ci = [b \in Commits |-> "none"]
    /\ cd = [b \in Commits |-> [step |-> "idle", base |-> 0]]
    /\ clone = [p \in Operators |-> Fetched]
    /\ run = [p \in Operators |-> Idle]
    /\ app = [e \in Envs |-> [live |-> 0, target |-> 0, rev |-> 0,
                              operation |-> FALSE, phase |-> "Succeeded"]]
    /\ runs = 0
    /\ interrupts = 0
    /\ released = [e \in Envs |-> {0}]
    /\ gate = [opened |-> 0, used |-> 0]

(* A push that main accepts: the tags it now has and the commits that set them. *)
Advance(tags, new) ==
    /\ main' = [rev |-> main.rev + 1, tag |-> tags]
    /\ released' = [e \in Envs |-> released[e] \cup {c.tag : c \in {x \in new : x.env = e}}]

----------------------------------------------------------------------------
(* .github/workflows: CI and CD. *)

(* A code commit reaches main; CI cancels the run that is in progress. *)
CommitCode ==
    /\ commits < MaxCommits
    /\ commits' = commits + 1
    /\ ci' = [b \in Commits |-> IF b = commits + 1 THEN "building"
                                ELSE IF ci[b] = "building" THEN "cancelled" ELSE ci[b]]
    /\ Advance(main.tag, {})
    /\ UNCHANGED <<cd, clone, run, app, runs, interrupts, gate>>

EndCI(b) ==
    /\ ci[b] = "building"
    /\ \E end \in {"built", "failed"} : ci' = [ci EXCEPT ![b] = end]
    /\ UNCHANGED <<main, commits, cd, clone, run, app, runs, interrupts, released, gate>>

(* CD: check out main, whatever commit it is at by now ... *)
CheckoutMain(b) ==
    /\ ci[b] = "built" /\ cd[b].step = "idle"
    /\ cd' = [cd EXCEPT ![b] = [step |-> "push", base |-> main.rev]]
    /\ UNCHANGED <<main, commits, ci, clone, run, app, runs, interrupts, released, gate>>

(* ... and push the tag of the commit CI built, unless main has moved. *)
PushTag(b) ==
    /\ cd[b].step = "push"
    /\ IF cd[b].base = main.rev
       THEN /\ Advance([main.tag EXCEPT !["dev"] = b], {[env |-> "dev", tag |-> b]})
            /\ cd' = [cd EXCEPT ![b].step = "done"]
       ELSE /\ cd' = [cd EXCEPT ![b].step = "failed"]
            /\ UNCHANGED <<main, released>>
    /\ UNCHANGED <<commits, ci, clone, run, app, runs, interrupts, gate>>

----------------------------------------------------------------------------
(* scripts/promote.sh. *)

(* What follows the commit, or the discovery that there is none to make:
   the prod gate, when it was asked for.                                  *)
AfterPromotion(r) == IF r.env = "prod" /\ r.sync THEN [r EXCEPT !.step = "patch"] ELSE Idle

(* Read both tags from the working tree and compare them. *)
Launch(p, env, sync, dry) ==
    LET new == clone[p].tree[SourceOf[env]]
        r == [step |-> "edit", env |-> env, tag |-> new, sync |-> sync, dry |-> dry]
    IN  /\ run[p].step = "idle" /\ runs < MaxRuns
        /\ runs' = runs + 1
        /\ run' = [run EXCEPT ![p] = IF clone[p].tree[env] = new THEN AfterPromotion(r)
                                     ELSE IF clone[p].staged THEN Idle ELSE r]
        /\ UNCHANGED <<main, commits, ci, cd, clone, app, interrupts, released, gate>>

(* kustomize edit set image. *)
Edit(p) ==
    /\ run[p].step = "edit"
    /\ clone' = [clone EXCEPT ![p].tree[run[p].env] = run[p].tag]
    /\ run' = [run EXCEPT ![p].step = IF run[p].dry THEN "revert" ELSE "commit"]
    /\ UNCHANGED <<main, commits, ci, cd, app, runs, interrupts, released, gate>>

(* --dry-run: git checkout -- the file. *)
Revert(p) ==
    /\ run[p].step = "revert"
    /\ clone' = [clone EXCEPT ![p].tree[run[p].env] = clone[p].head[run[p].env]]
    /\ run' = [run EXCEPT ![p] = Idle]
    /\ UNCHANGED <<main, commits, ci, cd, app, runs, interrupts, released, gate>>

(* git add, git commit.  When the edit has brought the file back to what
   HEAD has, there is nothing to commit, and set -e ends the script.      *)
NothingToCommit(p) == clone[p].head[run[p].env] = run[p].tag

Committed(c, r) == [c EXCEPT !.head = [@ EXCEPT ![r.env] = r.tag],
                             !.mine = @ \cup {[env |-> r.env, tag |-> r.tag]}]

Commit(p) ==
    /\ run[p].step = "commit"
    /\ IF NothingToCommit(p)
       THEN run' = [run EXCEPT ![p] = Idle] /\ clone' = clone
       ELSE /\ clone' = [clone EXCEPT ![p] = Committed(@, run[p])]
            /\ run' = [run EXCEPT ![p].step = "push"]
    /\ UNCHANGED <<main, commits, ci, cd, app, runs, interrupts, released, gate>>

(* A commit hook refuses: the change stays in the index, the script ends. *)
CommitRefused(p) ==
    /\ run[p].step = "commit" /\ interrupts < MaxInterrupts
    /\ interrupts' = interrupts + 1
    /\ clone' = [clone EXCEPT ![p].staged = ~NothingToCommit(p)]
    /\ run' = [run EXCEPT ![p] = Idle]
    /\ UNCHANGED <<main, commits, ci, cd, app, runs, released, gate>>

(* Mutation of FastForward: git push --force. *)
ForcePush(p) == TRUE

FastForward(p) == clone[p].base = main.rev

(* git push; set -e ends the script when main refuses, and the commit stays. *)
Push(p) ==
    /\ run[p].step = "push"
    /\ IF FastForward(p)
       THEN /\ Advance(clone[p].head, clone[p].mine)
            /\ clone' = [clone EXCEPT ![p] = [@ EXCEPT !.base = main.rev + 1, !.mine = {},
                                                      !.origin = clone[p].head]]
            /\ run' = [run EXCEPT ![p] = AfterPromotion(@)]
       ELSE /\ run' = [run EXCEPT ![p] = Idle]
            /\ UNCHANGED <<main, released, clone>>
    /\ UNCHANGED <<commits, ci, cd, app, runs, interrupts, gate>>

(* The wait for OutOfSync gives up after two minutes, so the operation is
   requested whatever the application's status is.                        *)
PatchOperation(p) ==
    /\ run[p].step = "patch"
    /\ app' = [app EXCEPT !["prod"].operation = TRUE]
    /\ run' = [run EXCEPT ![p].step = "poll"]
    /\ gate' = [gate EXCEPT !.opened = @ + 1]
    /\ UNCHANGED <<main, commits, ci, cd, clone, runs, interrupts, released>>

(* Poll operationState.phase until it is an outcome; report it. *)
PollPhase(p) ==
    /\ run[p].step = "poll"
    /\ app["prod"].phase \in Phases
    /\ run' = [run EXCEPT ![p] = Idle]
    /\ UNCHANGED <<main, commits, ci, cd, clone, app, runs, interrupts, released, gate>>

(* The script is interrupted, or its last poll still finds no outcome. *)
Interrupt(p) ==
    /\ run[p].step # "idle" /\ interrupts < MaxInterrupts
    /\ interrupts' = interrupts + 1
    /\ run' = [run EXCEPT ![p] = Idle]
    /\ UNCHANGED <<main, commits, ci, cd, clone, app, runs, released, gate>>

(* External: git fetch and reset --hard, or a fresh checkout. *)
ResetClone(p) ==
    /\ run[p].step = "idle" /\ clone[p] # Fetched
    /\ clone' = [clone EXCEPT ![p] = Fetched]
    /\ UNCHANGED <<main, commits, ci, cd, run, app, runs, interrupts, released, gate>>

(* External: git pull --rebase of a clean tree.  It keeps the commits that
   were not pushed, and stops on a file that both sides changed.          *)
Rebase(p) ==
    LET edited == {c.env : c \in clone[p].mine}
        head == [e \in Envs |-> IF e \in edited THEN clone[p].head[e] ELSE main.tag[e]]
    IN  /\ run[p].step = "idle" /\ clone[p].base # main.rev
        /\ clone[p].tree = clone[p].head /\ edited # {}
        /\ \A e \in edited : main.tag[e] = clone[p].origin[e]
        /\ clone' = [clone EXCEPT ![p] = [Fetched EXCEPT !.head = head, !.tree = head,
                                                      !.mine = clone[p].mine]]
        /\ UNCHANGED <<main, commits, ci, cd, run, app, runs, interrupts, released, gate>>

----------------------------------------------------------------------------
(* ArgoCD. *)

(* Mutation of AlreadyFailed: after a failed sync there is no other. *)
AnyFailure(e) == app[e].phase = "Failed"

(* The last sync of the application was of the revision main is at, and failed. *)
AlreadyFailed(e) == app[e].phase = "Failed" /\ app[e].rev = main.rev

(* External: a poll of main (every three minutes, or annotated).  An automated
   application that is OutOfSync requests a sync of the revision it finds,
   unless a sync of this very revision has failed.                           *)
AutoSync(e) ==
    /\ e \in Automated
    /\ app[e].live # main.tag[e] /\ ~app[e].operation /\ ~AlreadyFailed(e)
    /\ app' = [app EXCEPT ![e] = [@ EXCEPT !.operation = TRUE, !.target = main.tag[e],
                                           !.rev = main.rev]]
    /\ UNCHANGED <<main, commits, ci, cd, clone, run, runs, interrupts, released, gate>>

(* External: the controller picks the operation up.  One that names no
   revision, the patch of promote.sh, takes the one main is at.          *)
StartSync(e) ==
    /\ app[e].operation /\ app[e].phase # "Running"
    /\ app' = [app EXCEPT ![e] = [@ EXCEPT !.phase = "Running",
                 !.target = IF e \in Automated THEN app[e].target ELSE main.tag[e]]]
    /\ UNCHANGED <<main, commits, ci, cd, clone, run, runs, interrupts, released, gate>>

(* External: the manifests are applied ... *)
ApplyManifests(e) ==
    /\ app[e].phase = "Running" /\ app[e].live # app[e].target
    /\ app' = [app EXCEPT ![e].live = app[e].target]
    /\ gate' = IF e = "prod" THEN [gate EXCEPT !.used = @ + 1] ELSE gate
    /\ UNCHANGED <<main, commits, ci, cd, clone, run, runs, interrupts, released>>

(* ... and then the PostSync smoke Job says how the sync ended. *)
EndSync(e) ==
    /\ app[e].phase = "Running" /\ app[e].live = app[e].target
    /\ \E outcome \in IF e = "dev" THEN {"Succeeded"} ELSE Phases :
          app' = [app EXCEPT ![e] = [@ EXCEPT !.phase = outcome, !.operation = FALSE]]
    /\ UNCHANGED <<main, commits, ci, cd, clone, run, runs, interrupts, released, gate>>

(* External: the manifests cannot be applied, and could not at any of the
   retries either (retry limit 3), during which the phase stays Running. *)
FailSync(e) ==
    /\ app[e].phase = "Running" /\ app[e].live # app[e].target
    /\ app' = [app EXCEPT ![e] = [@ EXCEPT !.phase = "Failed", !.operation = FALSE]]
    /\ UNCHANGED <<main, commits, ci, cd, clone, run, runs, interrupts, released, gate>>

ArgoStep(e) ==
    AutoSync(e) \/ StartSync(e) \/ ApplyManifests(e) \/ EndSync(e) \/ FailSync(e)

WorkflowStep ==
    \/ CommitCode
    \/ \E b \in Commits : EndCI(b) \/ CheckoutMain(b) \/ PushTag(b)

OperatorStep(p) ==
    \/ \E env \in Targets, sync, dry \in BOOLEAN : Launch(p, env, sync, dry)
    \/ Edit(p) \/ Revert(p) \/ Commit(p) \/ CommitRefused(p) \/ Push(p)
    \/ PatchOperation(p) \/ PollPhase(p) \/ Interrupt(p)
    \/ ResetClone(p) \/ Rebase(p)

Next ==
    \/ WorkflowStep
    \/ \E p \in Operators : OperatorStep(p)
    \/ \E e \in Envs : ArgoStep(e)

(* ArgoCD keeps reconciling; nobody has to commit, build or promote. *)
Spec == Init /\ [][Next]_vars /\ \A e \in Envs : WF_vars(ArgoStep(e))

----------------------------------------------------------------------------
(* Properties. *)

CloneType == [base : Nat, origin : TagFiles, head : TagFiles, tree : TagFiles,
              mine : SUBSET [env : Targets, tag : Tags], staged : BOOLEAN]
RunType == [step : {"idle", "edit", "revert", "commit", "push", "patch", "poll"},
            env : Targets, tag : Tags, sync : BOOLEAN, dry : BOOLEAN]
AppType == [live : Tags, target : Tags, rev : Nat, operation : BOOLEAN,
            phase : Phases \cup {"Running"}]

(* Every variable holds what the code may put in it. *)
TypeOK ==
    /\ main \in [rev : Nat, tag : TagFiles]
    /\ commits \in Nat /\ runs \in Nat /\ interrupts \in Nat
    /\ ci \in [Commits -> {"none", "building", "built", "failed", "cancelled"}]
    /\ cd \in [Commits -> [step : {"idle", "push", "done", "failed"}, base : Nat]]
    /\ clone \in [Operators -> CloneType]
    /\ run \in [Operators -> RunType]
    /\ app \in [Envs -> AppType]
    /\ released \in [Envs -> SUBSET Tags]
    /\ gate \in [opened : Nat, used : Nat]

(***************************************************************************)
(* ADR-0012: the chain is strict, prod never receives an unstaged release: *)
(* a commit of main only gives an environment a tag that a commit of main  *)
(* gave to the environment before it, whatever clones are stale, whichever *)
(* pushes are refused and rebased.                                         *)
(***************************************************************************)
NoUnstagedRelease ==
    /\ released["prod"] \subseteq released["staging"]
    /\ released["staging"] \subseteq released["dev"]
    /\ \A e \in Envs : {main.tag[e], app[e].live} \subseteq released[e]

(***************************************************************************)
(* A push moves an environment's tag only if the pusher committed a change *)
(* to that environment's file: promotions from several clones and CD runs  *)
(* never undo each other (promote.sh: git push; cd.yml: git push).         *)
(***************************************************************************)
PushesUndoNothing ==
    [][\A e \in Envs : main'.tag[e] # main.tag[e] =>
          \/ \E p \in Operators : /\ run[p].step = "push"
                                  /\ [env |-> e, tag |-> main'.tag[e]] \in clone[p].mine
          \/ e = "dev" /\ \E b \in Commits : cd[b].step = "push" /\ main'.tag[e] = b]_vars

(***************************************************************************)
(* envs/prod.yaml: nothing reaches prod until promote.sh prod --sync opens *)
(* the gate, and an opening lets one change through: however commits,      *)
(* polls and syncs interleave, prod has not changed more often than        *)
(* the script asked for.                                                   *)
(***************************************************************************)
ProdWaitsForGate == gate.used <= gate.opened

(***************************************************************************)
(* A promotion to staging lands: once commits stop, staging runs, and      *)
(* keeps running, the tag main gives it, whatever its smoke Job says, and  *)
(* whichever earlier syncs failed, unless the manifests of the revision    *)
(* main has stopped at could not be applied (applicationset.yaml: syncMode *)
(* automated; ArgoCD tries no revision again that it failed to sync).      *)
(***************************************************************************)
Unappliable(e) ==
    /\ app[e].phase = "Failed" /\ ~app[e].operation
    /\ app[e].rev = main.rev /\ app[e].target = main.tag[e]

StagingLands ==
    <>[](app["staging"].live = main.tag["staging"] \/ Unappliable("staging"))

----------------------------------------------------------------------------
(* What the documentation says and the code does not do. *)

(***************************************************************************)
(* promote.sh: "prod only ever receives the tag staging currently runs".   *)
(***************************************************************************)
ProdReceivesWhatStagingRuns ==
    [][main'.tag["prod"] # main.tag["prod"] =>
          main'.tag["prod"] = app["staging"].live]_vars

(***************************************************************************)
(* promote.sh: "prod promotion complete" (the phase polled is Succeeded)   *)
(* means that prod runs the tag that was promoted.                         *)
(***************************************************************************)
CompleteMeansPromoted ==
    [][\A p \in Operators :
          PollPhase(p) /\ app["prod"].phase = "Succeeded" =>
              app["prod"].live = run[p].tag]_vars

(***************************************************************************)
(* promote.sh: "staging already runs <tag>, nothing to promote" is said of *)
(* a tag that staging was given.                                           *)
(***************************************************************************)
NothingToPromoteMeansPromoted ==
    [][\A p \in Operators, sync, dry \in BOOLEAN :
          Launch(p, "staging", sync, dry)
          /\ clone[p].tree["dev"] = clone[p].tree["staging"] =>
              clone[p].tree["staging"] \in released["staging"]]_vars

(***************************************************************************)
(* promote.sh: --dry-run "show the change, revert it": it opens no gate.   *)
(***************************************************************************)
DryRunOpensNoGate ==
    [][\A p \in Operators : PatchOperation(p) => ~run[p].dry]_vars

(***************************************************************************)
(* envs/dev.yaml: "dev always runs the latest release": when no CI, CD or  *)
(* sync is left to run, dev runs the last commit that CI built.            *)
(***************************************************************************)
DevRunsLatestRelease ==
    (/\ \A b \in Commits : ci[b] # "building" /\ cd[b].step # "push"
                           /\ (ci[b] = "built" => cd[b].step # "idle")
     /\ app["dev"].live = main.tag["dev"] /\ ~app["dev"].operation)
    => \A b \in Commits : ci[b] = "built" => b <= app["dev"].live
=============================================================================
