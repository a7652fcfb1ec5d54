------------------------------ MODULE Workspace1 ------------------------------
(***************************************************************************)
(* The Workspace/1 control plane of a manager (tools/workspace1_manager.py)*)
(* in .workspace1/: binding.json, policy.json, one SQLite row that holds   *)
(* everything decided, state.json that mirrors it and three view files     *)
(* that show it.                                                           *)
(*                                                                         *)
(* One command runs at a time, under the manager's lock.  Between any two  *)
(* of its steps it may fail or die, registry.json may change by a writer   *)
(* that takes no lock and policy.json may be replaced: that is what the    *)
(* frontiers the commands read again and again are for.  The kernel that   *)
(* keeps frames and evaluates lenses is a pinned checkout outside the      *)
(* repository; what it may answer is taken from how it is called.          *)
(***************************************************************************)
EXTENDS Naturals

CONSTANTS Jobs, Operations,
          Checkouts,  \* directories that hold the pinned protocol
          Policies,   \* what policy.json may say
          Asked,      \* the policies init is asked for
          FormsOf,    \* FormsOf[j]: the forms job j may be observed in
          Strategies, \* the plans run is asked for
          Resolved,   \* registry contents in which every pointer has its identity
          Views,      \* the projection files
          All,        \* no focus: every job is shown
          Focuses,    \* what materialize is asked for: All, or a job to focus on
          None,
          MaxFrames,  \* the root budget: how often something may be framed
          MaxEdits, MaxFaults \* bounds on what the surroundings do

Fixtures == {"file-octets", "directory-metadata-fixture"}
Forms == Fixtures \cup {"supplied-octets", "registry-metadata"}
Plans == {"identity", "adaptive", "strict-field"}

-----------------------------------------------------------------------------
Job == [form : Forms,
        adoptable : BOOLEAN, migration : [registry : Nat, resolved : BOOLEAN] \cup {None},
        plan : Plans \cup {None}, complete : BOOLEAN,
        outcome : {"captured", "candidate", "refused", "stopped", "staged", "adopted"}]

StageRecord == [job : Jobs, protocol : Nat, manager : Nat, status : {"staged", "adopted"}]

\* The views as far as they show captured values.
Shown == [focus : Jobs \cup {All}, entries : SUBSET Operations]

\* What the SQLite row holds.
Controlled ==
    [policy : Policies, seed : Nat, sequence : Nat, stop : BOOLEAN,
     jobs : [Jobs -> Job \cup {None}],
     stages : [Operations -> StageRecord \cup {None}],
     ledger : [Operations -> Jobs \cup {None}],
     focus : Jobs \cup {All}, files : Shown \cup {None}]

ASSUME Workspace1Assumption ==
    /\ FormsOf \in [Jobs -> SUBSET Forms]
    /\ Asked \subseteq Policies
    /\ Strategies \subseteq Plans
    /\ Resolved \subseteq Nat
    /\ MaxFrames \in Nat /\ MaxEdits \in Nat /\ MaxFaults \in Nat
    /\ None \notin Jobs \cup Operations \cup Checkouts \cup Policies \cup Plans \cup {All}
    /\ None \notin Job /\ None \notin StageRecord /\ None \notin Controlled /\ None \notin Shown
    /\ None \notin [registry : Nat, resolved : BOOLEAN]
    /\ All \notin Jobs /\ Focuses \subseteq Jobs \cup {All}

VARIABLES image,      \* runtime-image.json is there
          binding,    \* the checkout binding.json names
          policy,     \* policy.json
          registry,   \* registry.json: the number of changes made to it
          controller, \* what the SQLite store has committed
          mirror,     \* state.json
          view,       \* view[n]: what the view file n shows
          pc,         \* the step the command under way takes next
          arg,        \* what that command is about
          seen,       \* the registry it took for its frontier, and the one it loaded
          value,      \* the store as its transaction has it
          todo,       \* the views it has still to write
          pending,    \* the focus a recover has still to materialize
          slipped,    \* registry.json changed after the last look before a COMMIT or a replace
          minted,     \* seeds minted so far
          faults      \* failures, deaths, replacements and losses so far

files == <<image, binding, policy, mirror, view>>
command == <<pc, arg, seen, value, todo, slipped>>
vars == <<files, registry, controller, command, pending, minted, faults>>

-----------------------------------------------------------------------------
\* The authoritative store before its seed.
Unseeded(p) ==
    [policy |-> p, seed |-> 0, sequence |-> 0, stop |-> FALSE,
     jobs |-> [j \in Jobs |-> None], stages |-> [o \in Operations |-> None],
     ledger |-> [o \in Operations |-> None],
     focus |-> All, files |-> None]

NewJob(form, adoptable, migration) ==
    [form |-> form, adoptable |-> adoptable, migration |-> migration,
     plan |-> None, complete |-> FALSE, outcome |-> "captured"]

\* The stages that count as accepted in a view focused on f.
Accepted(c, f) ==
    {o \in Operations : /\ c.stages[o] # None /\ c.stages[o].status = "adopted"
                        /\ f \in {All, c.stages[o].job}}

\* A slip: the view lists the jobs, not the operations that adopted them.
RenderingOfJobs(c, f) == [focus |-> f, entries |-> {c.stages[o].job : o \in Accepted(c, f)}]
Rendering(c, f) == [focus |-> f, entries |-> Accepted(c, f)]

\* state.json is written whole and only asked whether it is there: whose it is, and how old.
Mirrored(c) == [seed |-> c.seed, sequence |-> c.sequence]

\* "manager-decision-ledger": accepted stages are exactly what the controller recorded.
LedgerMatches(c) ==
    \A o \in Operations :
        c.ledger[o] = IF o \in Accepted(c, All) THEN c.stages[o].job ELSE None

-----------------------------------------------------------------------------
Steps == {"idle", "bind", "open", "seed", "load", "read", "compare", "adopt",
          "compare frontier", "commit", "write", "replace", "mirror"}

Unseen == [frontier |-> 0, loaded |-> 0]

Init ==
    /\ image = FALSE /\ binding = None /\ policy = None
    /\ registry = 0
    /\ controller = None /\ mirror = None
    /\ view = [n \in Views |-> None]
    /\ pc = "idle" /\ arg = None /\ seen = Unseen /\ value = None /\ todo = {} /\ slipped = FALSE
    /\ pending = None
    /\ minted = 0 /\ faults = 0

\* The command goes on to the step named label, or ends.
Begin(label, a, c) ==
    pc = "idle" /\ pc' = label /\ arg' = a /\ value' = c /\ slipped' = FALSE
Goto(label) == pc' = label /\ UNCHANGED <<arg, seen, todo, slipped>>
End ==
    /\ pc' = "idle" /\ arg' = None /\ seen' = Unseen /\ value' = None
    /\ todo' = {} /\ slipped' = FALSE

\* policy.json and binding.json are those the command began under.
CurrentFrontier == policy = controller.policy

\* Host: a seeded store, under the policy it was created with, whose decisions agree.
Opens ==
    /\ binding # None /\ policy # None
    /\ controller # None /\ controller.seed # 0
    /\ CurrentFrontier
    /\ LedgerMatches(controller)

-----------------------------------------------------------------------------
(***************************************************************************)
(* bind: two files, the image first.  An existing binding is compared and  *)
(* never replaced, and the image of a pinned checkout is always the same.  *)
(***************************************************************************)
BindImage(k) ==
    /\ binding = None
    /\ Begin("bind", k, None)
    /\ image' = TRUE
    /\ UNCHANGED <<binding, policy, mirror, view, registry, controller, seen, todo, pending, minted, faults>>

BindDocument ==
    /\ pc = "bind"
    /\ binding' = arg
    /\ End
    /\ UNCHANGED <<image, policy, mirror, view, registry, controller, pending, minted, faults>>

(***************************************************************************)
(* init: policy.json, unless it is there; the SQLite file; the seed, in a  *)
(* transaction of its own; the mirror.                                     *)
(***************************************************************************)
InitPolicy(p) ==
    /\ binding # None
    /\ policy \in {None, p}
    /\ policy' = p
    /\ Begin("open", None, None)
    /\ UNCHANGED <<image, binding, mirror, view, registry, controller, seen, todo, pending, minted, faults>>

\* A slip: a missing store is an empty one.
CreatableAnyhow == controller = None
\* "workspace1-controller-loss-never-remints-seed": state.json tells that there was a store.
Creatable == controller = None /\ mirror = None

Openable == controller # None /\ CurrentFrontier /\ LedgerMatches(controller)

InitOpen ==
    /\ pc = "open"
    /\ \/ Creatable /\ controller' = Unseeded(policy)
       \/ Openable /\ UNCHANGED controller
    /\ value' = controller'
    /\ Goto(IF controller'.seed = 0 THEN "seed" ELSE "mirror")
    /\ UNCHANGED <<files, registry, pending, minted, faults>>

Seed ==
    /\ pc = "seed"
    /\ CurrentFrontier
    /\ minted' = minted + 1
    /\ controller' = [controller EXCEPT !.seed = minted']
    /\ value' = controller'
    /\ Goto("mirror")
    /\ UNCHANGED <<files, registry, pending, faults>>

-----------------------------------------------------------------------------
\* The root budget, as far as it is about frames: renamed jobs do not reset it.
Room(c) == c.sequence < MaxFrames

\* A job's name is not used twice; a stopped or spent root observes nothing more.
Observable(j) == Opens /\ controller.jobs[j] = None /\ ~controller.stop /\ Room(controller)

Observed(c, j, job) == [c EXCEPT !.jobs[j] = job, !.sequence = @ + 1]

\* What a fixture holds may never be adopted.
Capture(j) ==
    /\ Observable(j)
    /\ \E form \in FormsOf[j] \ {"registry-metadata"} :
          Begin("commit", None, Observed(controller, j, NewJob(form, form \notin Fixtures, None)))
    /\ UNCHANGED <<files, registry, controller, seen, todo, pending, minted, faults>>

(***************************************************************************)
(* migrate: the frontier, the registry as it loads and its bytes are three *)
(* reads of the same file; the frontier is compared twice.                 *)
(***************************************************************************)
Migrate(j) ==
    /\ Observable(j) /\ "registry-metadata" \in FormsOf[j]
    /\ Begin("load", j, controller)
    /\ seen' = [seen EXCEPT !.frontier = registry]
    /\ UNCHANGED <<files, registry, controller, todo, pending, minted, faults>>

MigrateLoad ==
    /\ pc = "load"
    /\ seen' = [seen EXCEPT !.loaded = registry]
    /\ pc' = "read"
    /\ UNCHANGED <<files, registry, controller, arg, value, todo, slipped, pending, minted, faults>>

ReadAgrees == registry = seen.frontier

MigrateRead ==
    /\ pc = "read"
    /\ ReadAgrees
    /\ LET resolved == seen.loaded \in Resolved
       IN  value' = Observed(value, arg,
                             NewJob("registry-metadata", resolved,
                                    [registry |-> seen.frontier, resolved |-> resolved]))
    /\ Goto("compare")
    /\ UNCHANGED <<files, registry, controller, pending, minted, faults>>

MigrateCompare ==
    /\ pc = "compare"
    /\ registry = seen.frontier /\ CurrentFrontier
    /\ Goto("commit")
    /\ UNCHANGED <<files, registry, controller, value, pending, minted, faults>>
-----------------------------------------------------------------------------
(***************************************************************************)
(* run: one lens; if it refuses, the same lens again, for its exhaust;     *)
(* and for the adaptive plan the identity lens over what both said.  Which *)
(* evaluation succeeds and which budget is spent is the kernel's matter,   *)
(* and of the attempts the model keeps the last, which decides.            *)
(***************************************************************************)
Outcome(k, complete) == [outcome |-> k, complete |-> complete]

Interpretations(strategy) ==
    {Outcome("candidate", strategy = "identity"), Outcome("stopped", FALSE), Outcome("refused", FALSE)}
    \cup IF strategy = "adaptive" THEN {Outcome("candidate", TRUE)} ELSE {}

\* A slip: a plan may be run again.
RunnableAgain(c, j) == c.jobs[j] # None
\* A job's plan is immutable: a repeated run returns what there is.
Runnable(c, j) == c.jobs[j] # None /\ c.jobs[j].plan = None

\* stop_job: after a root stop, or with no room for a lens, a run records a stop.
Results(c, strategy) ==
    IF c.stop \/ ~Room(c) THEN {Outcome("stopped", FALSE)} ELSE Interpretations(strategy)

Interpreted(c, j, strategy, e, stop) ==
    [c EXCEPT !.jobs[j] = [@ EXCEPT !.plan = strategy, !.outcome = e.outcome,
                                    !.complete = e.complete],
              !.stop = @ \/ stop,
              !.sequence = IF c.stop THEN @ ELSE @ + 1]

Run(j, strategy) ==
    /\ Opens /\ Runnable(controller, j)
    /\ \E e \in Results(controller, strategy), stop \in BOOLEAN :
          /\ stop => e.outcome = "stopped"
          /\ Begin("commit", None, Interpreted(controller, j, strategy, e, stop))
    /\ UNCHANGED <<files, registry, controller, seen, todo, pending, minted, faults>>

-----------------------------------------------------------------------------
\* The kernel's fidelity receipt for the identity contract: a selected field is not everything.
Faithful(job) == job.complete

\* A slip: whatever has been interpreted may be staged, and staged again.
StageableAgain(c, o, j) == c.jobs[j] # None /\ c.stages[o] = None /\ c.jobs[j].complete
Stageable(c, o, j) ==
    /\ c.jobs[j] # None /\ c.jobs[j].outcome = "candidate" /\ Faithful(c.jobs[j])
    /\ c.stages[o] = None /\ Room(c)

\* The request and both frontiers it was made at, which are its token.
Staged(c, o, j, manager) ==
    [c EXCEPT !.jobs[j].outcome = "staged",
              !.stages[o] = [job |-> j, protocol |-> c.sequence + 1, manager |-> manager,
                             status |-> "staged"],
              !.sequence = @ + 1]

Stage(o, j) ==
    /\ Opens /\ Stageable(controller, o, j)
    /\ Begin("commit", None, Staged(controller, o, j, registry))
    /\ UNCHANGED <<files, registry, controller, seen, todo, pending, minted, faults>>

-----------------------------------------------------------------------------
\* A slip: a fresh stage repairs a stale observation.
EligibleFresh(job) == job.form \notin Fixtures /\ (job.migration # None => job.migration.resolved)
\* adoption_eligibility
Eligible(job) ==
    /\ job.form \notin Fixtures
    /\ job.migration # None => job.migration.resolved /\ job.migration.registry = registry

(***************************************************************************)
(* adopt: the token and the manager's frontier, then BEGIN and the         *)
(* kernel's own comparison, the record, the manager's frontier again, and  *)
(* COMMIT.  A retry of what is adopted returns the record and is no step.  *)
(***************************************************************************)
Adopt(o) ==
    /\ Opens
    /\ controller.stages[o] # None /\ controller.stages[o].status = "staged"
    /\ controller.stages[o].manager = registry
    /\ Eligible(controller.jobs[controller.stages[o].job])
    /\ Begin("adopt", o, controller)
    /\ UNCHANGED <<files, registry, controller, seen, todo, pending, minted, faults>>

\* Controller.adopt: inherited restrictions, room, and nothing framed since the stage.
KernelAdopts(c, o) ==
    c.jobs[c.stages[o].job].adoptable /\ c.stages[o].protocol = c.sequence /\ Room(c)

Adopted(c, o) ==
    [c EXCEPT !.jobs[c.stages[o].job].outcome = "adopted",
              !.stages[o].status = "adopted",
              !.ledger[o] = c.stages[o].job,
              !.sequence = @ + 1]

AdoptInController ==
    /\ pc = "adopt"
    /\ KernelAdopts(value, arg)
    /\ value' = Adopted(value, arg)
    /\ Goto("compare frontier")
    /\ UNCHANGED <<files, registry, controller, pending, minted, faults>>

\* A slip: the frontier is not compared again.
FrontierApprovedOnce(c, o) == CurrentFrontier
FrontierApproved(c, o) == CurrentFrontier /\ c.stages[o].manager = registry

AdoptCompare ==
    /\ pc = "compare frontier"
    /\ FrontierApproved(value, arg)
    /\ Goto("commit")
    /\ UNCHANGED <<files, registry, controller, value, pending, minted, faults>>

-----------------------------------------------------------------------------
\* projection_bytes: every accepted stage shown is at the current frontier and eligible.
Renderable(f) ==
    /\ Opens
    /\ f # All => controller.jobs[f] # None
    /\ \A o \in Accepted(controller, f) :
          /\ controller.stages[o].manager = registry
          /\ Eligible(controller.jobs[controller.stages[o].job])

\* A slip: a projection that is committed already is not written again.
WriteIfChanged(c, f) == IF c.files = Rendering(c, f) THEN {} ELSE Views
\* Every view is written, changed or not: recover has no other way to restore one.
ToWrite(c, f) == Views

Render(f) ==
    /\ Renderable(f)
    /\ Begin("commit", None, [controller EXCEPT !.focus = f, !.files = Rendering(controller, f)])
    /\ todo' = ToWrite(controller, f)
    /\ UNCHANGED <<files, registry, controller, seen, minted, faults>>

\* materialize, for everything or focused on a job.
Materialize(f) == Render(f) /\ UNCHANGED pending

\* Host.transaction: the frontier once more, and COMMIT of everything.  The
\* frontier it records is asked for by the writes that follow, and only there.
Commit ==
    /\ pc = "commit"
    /\ CurrentFrontier
    /\ controller' = value
    /\ seen' = [seen EXCEPT !.frontier = registry]
    /\ pc' = IF todo = {} THEN "mirror" ELSE "write"
    /\ UNCHANGED <<files, registry, arg, value, todo, slipped, pending, minted, faults>>

\* A slip: the frontier is not looked at before a file is written.
WritableAnyhow == CurrentFrontier
Writable == CurrentFrontier /\ registry = seen.frontier

\* Each view has its own look at the frontier, and its own replace after it.
CompareView(n) ==
    /\ pc = "write" /\ n \in todo
    /\ Writable
    /\ pc' = "replace" /\ arg' = n
    /\ UNCHANGED <<files, registry, controller, seen, value, todo, slipped, pending, minted, faults>>

WriteView ==
    /\ pc = "replace"
    /\ view' = [view EXCEPT ![arg] = value.files]
    /\ todo' = todo \ {arg} /\ arg' = None
    /\ pc' = IF todo' = {} THEN "mirror" ELSE "write"
    /\ UNCHANGED <<image, binding, policy, mirror, registry, controller, seen, value, slipped,
                   pending, minted, faults>>

Mirror ==
    /\ pc = "mirror"
    /\ mirror' = Mirrored(value)
    /\ End
    /\ UNCHANGED <<image, binding, policy, view, registry, controller, pending, minted, faults>>

(***************************************************************************)
(* recover mirrors the store and takes its focus under the lock, lets the  *)
(* lock go, and materializes that focus under the lock again.              *)
(***************************************************************************)
Recover(views) ==
    /\ pc = "idle" /\ pending = None
    /\ Opens
    /\ mirror' = Mirrored(controller)
    /\ pending' = IF views THEN controller.focus ELSE None
    /\ UNCHANGED <<image, binding, policy, view, registry, controller, command, minted, faults>>

RecoverViews ==
    /\ pc = "idle" /\ pending # None
    /\ pending' = None
    /\ \/ Render(pending)
       \/ ~Renderable(pending) /\ UNCHANGED <<files, registry, controller, command, minted, faults>>

-----------------------------------------------------------------------------
\* A require fails: the transaction is rolled back and the command ends.
Refused ==
    CASE pc = "open" -> ~Creatable /\ ~Openable
      [] pc = "read" -> ~ReadAgrees
      [] pc = "compare" -> ~(registry = seen.frontier /\ CurrentFrontier)
      [] pc = "adopt" -> ~KernelAdopts(value, arg)
      [] pc = "compare frontier" -> ~FrontierApproved(value, arg)
      [] pc \in {"seed", "commit"} -> ~CurrentFrontier
      [] pc = "write" -> ~Writable
      [] OTHER -> FALSE

Refuse ==
    /\ Refused
    /\ End
    /\ UNCHANGED <<files, registry, controller, pending, minted, faults>>

Fault == faults < MaxFaults /\ faults' = faults + 1

\* A command fails otherwise, or its process dies: what is not committed is gone.
Stop ==
    /\ pc # "idle"
    /\ Fault
    /\ End
    /\ UNCHANGED <<files, registry, controller, pending, minted>>

\* The process of a recover dies between its two parts.
StopRecover ==
    /\ pending # None
    /\ Fault
    /\ pending' = None
    /\ UNCHANGED <<files, registry, controller, command, minted>>

\* The SQLite file is lost.
LoseController ==
    /\ pc = "idle" /\ controller # None
    /\ Fault
    /\ controller' = None
    /\ UNCHANGED <<files, registry, command, pending, minted>>

\* state.json is deleted, as any cache may be.
LoseMirror ==
    /\ pc = "idle" /\ mirror # None
    /\ mirror' = None
    /\ UNCHANGED <<image, binding, policy, view, registry, controller, command, pending, minted, faults>>

\* The host replaces policy.json.
ReplacePolicy(p) ==
    /\ policy \notin {None, p}
    /\ Fault
    /\ policy' = p
    /\ UNCHANGED <<image, binding, mirror, view, registry, controller, command, pending, minted>>

\* The moments after a command's last look at the registry and before what it
\* does by it: COMMIT, and the replace of a view.
Unguarded == pc = "replace" \/ (pc = "commit" /\ (todo # {} \/ arg \in Operations))

\* Another command, or a writer that takes no lock, saves the registry.
EditRegistry ==
    /\ registry < MaxEdits
    /\ registry' = registry + 1
    /\ slipped' = (slipped \/ Unguarded)
    /\ UNCHANGED <<files, controller, pc, arg, seen, value, todo, pending, minted, faults>>

Proceed ==
    \/ BindDocument
    \/ InitOpen \/ Seed
    \/ MigrateLoad \/ MigrateRead \/ MigrateCompare
    \/ AdoptInController \/ AdoptCompare
    \/ Commit \/ (\E n \in Views : CompareView(n)) \/ WriteView \/ Mirror
    \/ Refuse

Next ==
    \/ \E k \in Checkouts : BindImage(k)
    \/ \E p \in Asked : InitPolicy(p)
    \/ \E j \in Jobs : Capture(j) \/ Migrate(j)
    \/ \E j \in Jobs, s \in Strategies : Run(j, s)
    \/ \E o \in Operations : Adopt(o) \/ \E j \in Jobs : Stage(o, j)
    \/ \E f \in Focuses : Materialize(f)
    \/ \E views \in BOOLEAN : Recover(views)
    \/ RecoverViews
    \/ Proceed
    \/ Stop \/ StopRecover \/ LoseController \/ LoseMirror \/ EditRegistry
    \/ \E p \in Policies : ReplacePolicy(p)

Spec == Init /\ [][Next]_vars

\* A process that was started goes on, and the owner asks again to recover.
FairSpec ==
    /\ Spec
    /\ WF_vars(Proceed)
    /\ SF_vars(Recover(TRUE)) /\ SF_vars(RecoverViews)
-----------------------------------------------------------------------------
TypeOK ==
    /\ image \in BOOLEAN /\ binding \in Checkouts \cup {None} /\ policy \in Policies \cup {None}
    /\ registry \in Nat /\ minted \in Nat /\ faults \in Nat
    /\ controller \in Controlled \cup {None} /\ value \in Controlled \cup {None}
    /\ mirror \in [seed : Nat, sequence : Nat] \cup {None}
    /\ view \in [Views -> Shown \cup {None}]
    /\ pc \in Steps
    /\ arg \in Checkouts \cup Operations \cup Jobs \cup Views \cup {None}
    /\ seen \in [frontier : Nat, loaded : Nat]
    /\ todo \subseteq Views /\ slipped \in BOOLEAN
    /\ pending \in Jobs \cup {All, None}

\* "manager-decision-ledger-quarantine" is never what commands lead to, however
\* they are cut off: accepted stages and the controller's record agree, and no
\* job is decided under two operations.
OneDecision ==
    controller # None =>
        /\ LedgerMatches(controller)
        /\ \A o, q \in Operations :
              /\ controller.stages[o] # None /\ controller.stages[q] # None
              /\ controller.stages[o].job = controller.stages[q].job
              => o = q

\* What may not be adopted is not, by whatever sequence of commands: fixtures
\* ("a fallback MUST NOT launder them"), partial candidates, metadata with
\* unresolved pointers, and metadata that was stale when it was staged ("A
\* fresh stage cannot repair a stale captured registry frontier", SPEC.md 13).
AdoptedLawfully ==
    controller # None =>
        \A o \in Accepted(controller, All) :
            LET job == controller.jobs[controller.stages[o].job]
            IN  /\ job.form \notin Fixtures /\ job.complete /\ job.outcome = "adopted"
                /\ job.migration # None =>
                      /\ job.migration.registry = controller.stages[o].manager
                      /\ job.migration.registry \in Resolved

\* Every adoption is decided at the registry it was staged at ("The complete
\* canonical and manager frontiers MUST match"), but for a change in the moment
\* between the final comparison and COMMIT.
AdoptedAsApproved ==
    [][\A o \in Operations :
          controller # None /\ controller' # None
              /\ controller.ledger[o] = None /\ controller'.ledger[o] # None
          => slipped \/ controller.stages[o].manager = registry]_vars

\* A view file is written from what is committed, never ahead of it, and never
\* with an adoption whose frontier is past ("Changed manager/suppression
\* frontiers refuse stale materialization"), but for a change in two moments in
\* which the code does not look: between rendering and COMMIT, and between the
\* comparison before a file and the replace of that file.
ViewsFresh ==
    [][\A n \in Views :
          view'[n] # view[n] =>
              /\ view'[n] = controller.files
              /\ \A o \in view'[n].entries :
                    slipped \/ controller.stages[o].manager = registry]_vars

\* "workspace1-controller-loss-never-remints-seed": while state.json is there, the
\* store beside it is the one it mirrors and is never behind it, whatever is
\* lost and begun again.  Where both are lost another seed is minted, although
\* "Deleting a state cache cannot remint the seed" (docs/frame-anything.md).
SeedKept ==
    mirror # None /\ controller # None =>
        controller.seed = mirror.seed /\ mirror.sequence <= controller.sequence

\* Behind the steps, the failures and the deaths, the committed store is the
\* register of jobs.
Register(c) == IF c = None THEN Unseeded(None) ELSE c

JobOutcomes(c) ==
    [j \in Jobs |-> IF Register(c).jobs[j] = None THEN None ELSE Register(c).jobs[j].outcome]
JobPlans(c) ==
    [j \in Jobs |-> IF Register(c).jobs[j] = None THEN None ELSE Register(c).jobs[j].plan]
StagedJobs(c) ==
    [o \in Operations |-> IF Register(c).stages[o] = None THEN None ELSE Register(c).stages[o].job]
StagedAt(c) ==
    [o \in Operations |-> IF Register(c).stages[o] = None THEN 0 ELSE Register(c).stages[o].protocol]

AtomicRegister == INSTANCE JobRegister WITH
    outcome <- JobOutcomes(controller), result <- JobPlans(controller),
    staged <- StagedJobs(controller), basis <- StagedAt(controller),
    adopted <- Accepted(Register(controller), All),
    version <- Register(controller).sequence, stopped <- Register(controller).stop

ImplementsRegister == AtomicRegister!RegisterSpec

\* The views show what is committed.
Restored ==
    controller # None /\ controller.files # None =>
        \A n \in Views : view[n] = controller.files

\* The frontier is past, or the store cannot be opened: recover refuses.
Blocked == ~Renderable(controller.focus)

\* "authorized `recover` regenerates from controller state": whatever was cut
\* off, the views are whole again once the owner keeps asking, unless the
\* frontier moved on.
ViewsRestored == []<>(Restored \/ Blocked)
=============================================================================
