----------------------------- MODULE ManagerStore -----------------------------
(***************************************************************************)
(* The files of one manager and the commands that write them               *)
(* (tools/workspace_manager.py: init_manager, load_registry, save_registry *)
(* and the shape all mutating commands share; tools/routing_io.py:         *)
(* manager_lock, atomic_text).                                             *)
(*                                                                         *)
(* A command takes the lock or fails, loads registry.json, changes it, and *)
(* writes registry.json, HOME.md and the tracked editor views, each file   *)
(* atomically and all of them not.  init takes no lock.                    *)
(***************************************************************************)
EXTENDS Naturals, FiniteSets

CONSTANTS Procs,      \* processes that run the tool
          InitProcs,  \* those that may run init; each mints its own identity
          Founder,    \* identity of a manager initialized before
          Edits,      \* changes the commands make, again perhaps
          Names,      \* editor view file names
          EditorView, \* the view every manager has
          None,       \* no file
          Free        \* nobody holds the lock

Registry == [owner : Procs \cup {Founder}, edits : SUBSET Edits,
             views : {V \in SUBSET Names : EditorView \in V}]

ASSUME StoreAssumption ==
    /\ InitProcs \subseteq Procs
    /\ Founder \notin Procs /\ None \notin Procs \cup {Founder} /\ Free \notin Procs
    /\ EditorView \in Names
    /\ None \notin Registry

VARIABLES rappid,   \* whose identity rappid.json names
          registry, \* registry.json
          home,     \* the registry HOME.md was rendered from
          view,     \* view[n]: the registry the view file n was rendered from
          lock,     \* holder of the flock on .routing.lock
          pc,       \* pc[p]: the step process p takes next
          who,      \* who[p]: the identity p read, or minted, when it began
          mem,      \* mem[p]: the registry p is about to save
          todo      \* todo[p]: the views p has still to write

vars == <<rappid, registry, home, view, lock, pc, who, mem, todo>>
files == <<rappid, registry, home, view>>

\* A slip: init tracks no view.
EmptyUntracked(owner) == [owner |-> owner, edits |-> {}, views |-> {}]
\* The registry init writes.
Empty(owner) == [owner |-> owner, edits |-> {}, views |-> {EditorView}]

\* A manager that was initialized before, or an empty directory.
Init ==
    /\ \/ /\ rappid = Founder
          /\ registry = Empty(Founder)
          /\ home = Empty(Founder)
          /\ view = [n \in Names |-> IF n = EditorView THEN Empty(Founder) ELSE None]
       \/ /\ InitProcs # {}
          /\ rappid = None /\ registry = None /\ home = None
          /\ view = [n \in Names |-> None]
    /\ lock = Free
    /\ pc = [p \in Procs |-> "idle"]
    /\ who = [p \in Procs |-> None]
    /\ mem = [p \in Procs |-> None]
    /\ todo = [p \in Procs |-> {}]

Goto(p, label) == pc' = [pc EXCEPT ![p] = label]

\* A slip: a lock kept in a file's existence outlives the process.
UnlockedByNobody(p) == lock
\* The descriptor that carries the flock is closed, by manager_lock or by exit.
Unlocked(p) == IF lock = p THEN Free ELSE lock

\* The process ends, having printed its result, an error or nothing.
End(p) ==
    /\ Goto(p, "idle")
    /\ who' = [who EXCEPT ![p] = None]
    /\ mem' = [mem EXCEPT ![p] = None]
    /\ todo' = [todo EXCEPT ![p] = {}]

-----------------------------------------------------------------------------
(***************************************************************************)
(* init: the directory must be empty when it looks; then rappid.json is    *)
(* the first file it writes, and the registry is saved like any other.     *)
(***************************************************************************)
InitLook(p) ==
    /\ p \in InitProcs
    /\ pc[p] = "idle"
    /\ rappid = None
    /\ Goto(p, "mint")
    /\ UNCHANGED <<files, lock, who, mem, todo>>

InitIdentity(p) ==
    /\ pc[p] = "mint"
    /\ rappid' = p
    /\ who' = [who EXCEPT ![p] = p]
    /\ mem' = [mem EXCEPT ![p] = Empty(p)]
    /\ Goto(p, "check")
    /\ UNCHANGED <<registry, home, view, lock, todo>>

-----------------------------------------------------------------------------
\* A command begins by reading rappid.json, before it asks for the lock.
Begin(p) ==
    /\ pc[p] = "idle"
    /\ rappid # None
    /\ who' = [who EXCEPT ![p] = rappid]
    /\ Goto(p, "lock")
    /\ UNCHANGED <<files, lock, mem, todo>>

\* A slip: the lock is opened and never taken.
LockableAlways(p) == TRUE
Lockable(p) == lock = Free

\* LOCK_EX | LOCK_NB: a busy manager fails.
TakeLock(p) ==
    /\ pc[p] = "lock"
    /\ IF Lockable(p)
       THEN /\ lock' = p
            /\ Goto(p, "load")
            /\ UNCHANGED <<who, mem, todo>>
       ELSE End(p) /\ UNCHANGED lock
    /\ UNCHANGED files

\* load_registry refuses a missing registry or another manager's; the command
\* makes its change to the registry in memory, which may be one made before or
\* none, and may track one more view.
Load(p) ==
    /\ pc[p] = "load"
    /\ IF registry # None /\ registry.owner = rappid
       THEN /\ \E e \in Edits, n \in Names :
                  mem' = [mem EXCEPT ![p] =
                            [registry EXCEPT !.edits = @ \cup {e}, !.views = @ \cup {n}]]
            /\ Goto(p, "check")
            /\ UNCHANGED <<lock, who, todo>>
       ELSE End(p) /\ lock' = Unlocked(p)
    /\ UNCHANGED files

\* save_registry compares the stored identity with the one p began under.
Check(p) ==
    /\ pc[p] = "check"
    /\ IF rappid = who[p] /\ mem[p].owner = who[p]
       THEN Goto(p, "registry") /\ UNCHANGED <<lock, who, mem, todo>>
       ELSE End(p) /\ lock' = Unlocked(p)
    /\ UNCHANGED files

\* A slip: HOME.md is written before the registry it shows.
SaveHomeFirst(p) ==
    \/ /\ pc[p] = "registry"
       /\ home' = mem[p]
       /\ Goto(p, "late")
       /\ UNCHANGED <<rappid, registry, view, lock, who, mem, todo>>
    \/ /\ pc[p] = "late"
       /\ registry' = mem[p]
       /\ Goto(p, "home")
       /\ UNCHANGED <<rappid, home, view, lock, who, mem, todo>>

SaveRegistry(p) ==
    /\ pc[p] = "registry"
    /\ registry' = mem[p]
    /\ Goto(p, "home")
    /\ UNCHANGED <<rappid, home, view, lock, who, mem, todo>>

\* A slip: a command writes only the view it is about.
ViewsOfCommand(r) == {EditorView}
\* save_registry writes every tracked view.
ViewsToWrite(r) == r.views

SaveHome(p) ==
    /\ pc[p] = "home"
    /\ home' = mem[p]
    /\ todo' = [todo EXCEPT ![p] = ViewsToWrite(mem[p])]
    /\ Goto(p, "views")
    /\ UNCHANGED <<rappid, registry, view, lock, who, mem>>

SaveView(p) ==
    /\ pc[p] = "views"
    /\ \E n \in todo[p] :
          /\ view' = [view EXCEPT ![n] = mem[p]]
          /\ todo' = [todo EXCEPT ![p] = @ \ {n}]
    /\ UNCHANGED <<rappid, registry, home, lock, pc, who, mem>>

\* The command reports success.
Finish(p) ==
    /\ pc[p] = "views"
    /\ todo[p] = {}
    /\ End(p)
    /\ lock' = Unlocked(p)
    /\ UNCHANGED files

\* An error between two steps, or the process dies: what it wrote stays.
Stop(p) ==
    /\ pc[p] # "idle"
    /\ End(p)
    /\ lock' = Unlocked(p)
    /\ UNCHANGED files

\* A process that was started goes on.
Proceed(p) ==
    \/ InitIdentity(p)
    \/ TakeLock(p) \/ Load(p) \/ Check(p)
    \/ SaveRegistry(p) \/ SaveHome(p) \/ SaveView(p) \/ Finish(p)

Next == \E p \in Procs : InitLook(p) \/ Begin(p) \/ Proceed(p) \/ Stop(p)

Spec == Init /\ [][Next]_vars

\* The operating system schedules every process.
FairSpec == Spec /\ \A p \in Procs : WF_vars(Proceed(p))

-----------------------------------------------------------------------------
TypeOK ==
    /\ rappid \in Procs \cup {Founder, None}
    /\ registry \in Registry \cup {None}
    /\ home \in Registry \cup {None}
    /\ view \in [Names -> Registry \cup {None}]
    /\ lock \in Procs \cup {Free}
    /\ pc \in [Procs -> {"idle", "mint", "lock", "load", "check", "registry", "home", "views"}]
    /\ who \in [Procs -> Procs \cup {Founder, None}]
    /\ mem \in [Procs -> Registry \cup {None}]
    /\ todo \in [Procs -> SUBSET Names]

\* "A manager write lock prevents lost updates": what one command committed to
\* the registry no other takes out, whoever loads, fails or dies in between.
NoLostUpdate ==
    [][registry # None => registry.edits \subseteq registry'.edits]_vars

\* "A crash can leave a stale projection, never competing authority": HOME.md
\* and the views never show a selection that registry.json does not have.
NeverAhead ==
    \A shown \in {home} \cup {view[n] : n \in Names} :
        shown # None =>
            /\ registry # None /\ shown.owner = registry.owner
            /\ shown.edits \subseteq registry.edits

\* When a command reports success, HOME.md and every tracked view show the
\* registry, whatever earlier commands left behind when they failed half way;
\* given that init had ended before.
SuccessIsCurrent ==
    [][\A p \in Procs : Finish(p) /\ rappid = Founder =>
          home = registry /\ \A n \in registry.views : view[n] = registry]_vars

\* A manager does not stay busy: the lock ends with its holder.
NotBusyForever == []<>(lock = Free)

\* "A manager MUST ... carry a mint-once canonical rapp/1 workspace identity" (SPEC.md:14):
\* the identity a manager was given is never replaced.
MintOnce == [][rappid # None => rappid' = rappid]_vars
=============================================================================
