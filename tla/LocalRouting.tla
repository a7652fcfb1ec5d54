----------------------------- MODULE LocalRouting -----------------------------
(***************************************************************************)
(* The selected local pointers of one manager, their tombstones and the    *)
(* organization overlay that refers to them (tools/workspace_manager.py:   *)
(* scan_manager, local_action, group_manager's assign and unassign,        *)
(* focus_manager, replace_local_workspaces, validate_registry).            *)
(*                                                                         *)
(* manager_lock lets one command run at a time, so one command is under    *)
(* way at most; the directories it looks at are under nobody's lock and    *)
(* are moved, removed, recreated and aliased between any two looks.        *)
(***************************************************************************)
EXTENDS Naturals, FiniteSets

CONSTANTS Paths,    \* absolute spellings of locations
          Dirs,     \* filesystem identities: (device, inode) of a directory
          Groups,   \* groups of the organization
          NoDir,    \* no directory there; no identity recorded
          NoPath,   \* no path
          NoPointer \* no target

ASSUME RoutingAssumption ==
    /\ NoDir \notin Dirs /\ NoPath \notin Paths
    /\ Paths \cap (Dirs \cup {NoDir, NoPointer}) = {}
    /\ NoPointer \notin Dirs \cup {NoDir}

VARIABLES fs,         \* fs[p]: the directory found at p, nobody's state
          workspaces, \* registry["workspaces"]
          forgotten,  \* registry["forgotten"]
          placement,  \* placements of the overlay: pointer id to group
          focus,      \* target of a focused view, or NoPointer for an empty one
          cmd         \* the command that holds manager_lock

vars == <<fs, workspaces, forgotten, placement, focus, cmd>>
registry == <<workspaces, forgotten, placement, focus>>

(***************************************************************************)
(* A version 1 pointer has no filesystem identity and is identified by its *)
(* path, a version 2 pointer by the identity alone.  A tombstone records   *)
(* both, or is the bare identifier of a version 1 pointer.                 *)
(***************************************************************************)
Pointer == [path : Paths, id : Dirs \cup {NoDir}, selection : {"exact", "discovered"}]
Tombstone == [path : Paths, id : Dirs \cup {NoDir}]

Key(x) == IF x.id = NoDir THEN x.path ELSE x.id
Keys(S) == {Key(x) : x \in S}
IdentifierOnly(t) == t.id = NoDir

SameLocation(p, q) == p = q \/ (fs[p] # NoDir /\ fs[p] = fs[q])

MatchesLocal(x, p, d) == (d # NoDir /\ x.id = d) \/ SameLocation(x.path, p)
MatchesTombstone(t, p, d) ==
    IF IdentifierOnly(t) THEN t.path = p ELSE MatchesLocal(t, p, d)

\* A slip: only the directory is suppressed, not the place it was in.
SuppressedById(p, d) == \E t \in forgotten : t.id = d
Suppressed(p, d) == \E t \in forgotten : MatchesTombstone(t, p, d)

\* A slip: a directory is read without asking whether it is there.
PresentAlways(p) == TRUE
Present(p) == fs[p] # NoDir

NoCommand == [op |-> "none", path |-> NoPath, todo |-> {}, seen |-> {}, found |-> {}]

Init ==
    /\ fs \in [Paths -> Dirs \cup {NoDir}]
    /\ \E old, gone \in SUBSET Paths :
          /\ old \cap gone = {}
          /\ workspaces = {[path |-> p, id |-> NoDir, selection |-> "discovered"] : p \in old}
          /\ forgotten = {[path |-> p, id |-> NoDir] : p \in gone}
    /\ placement = <<>>
    /\ focus = NoPointer
    /\ cmd = NoCommand

\* Directories come, go, move and appear under a second spelling.
Relocate(p, d) ==
    /\ fs[p] # d
    /\ fs' = [fs EXCEPT ![p] = d]
    /\ UNCHANGED <<registry, cmd>>

-----------------------------------------------------------------------------
(***************************************************************************)
(* replace_local_workspaces: references of the overlay follow the pointers *)
(* they name into the new selection, by identity; a version 1 pointer is   *)
(* followed by its path, and by what is at that path now.                  *)
(***************************************************************************)
References == DOMAIN placement \cup ({focus} \ {NoPointer})

\* A slip: what is now at a pointer's path inherits its references.
SuccessorsByPath(k, new) ==
    IF k \in Keys(new) THEN {k}
    ELSE LET o == CHOOSE o \in workspaces : Key(o) = k
         IN  Keys({n \in new : n.path = o.path \/ (fs[o.path] # NoDir /\ n.id = fs[o.path])})

\* local_pointer_remap of the reference k.
Successors(k, new) ==
    IF k \in Keys(new) THEN {k}
    ELSE LET o == CHOOSE o \in workspaces : Key(o) = k
         IN  Keys({n \in new :
                IF o.id # NoDir THEN n.id = o.id
                ELSE n.path = o.path \/ (fs[o.path] # NoDir /\ n.id = fs[o.path])})

\* organization-pointer-remap-ambiguous
RemapAmbiguous(new) ==
    \/ \E k \in References : Cardinality(Successors(k, new)) > 1
    \/ \E j, k \in DOMAIN placement :
          j # k /\ Successors(j, new) \cap Successors(k, new) # {}

Carry(new) ==
    [k \in UNION {Successors(j, new) : j \in DOMAIN placement} |->
        placement[CHOOSE j \in DOMAIN placement : k \in Successors(j, new)]]

Refocus(new) ==
    IF focus = NoPointer \/ Successors(focus, new) = {} THEN NoPointer
    ELSE CHOOSE k \in Successors(focus, new) : TRUE

\* A slip: pointers are not compared with tombstones before they are saved.
ValidDistinct(new, tombs) ==
    /\ \A a, b \in new : Key(a) = Key(b) => a = b
    /\ \A a, b \in tombs : Key(a) = Key(b) => a = b

\* validate_registry on the pointers and tombstones about to be saved.
Valid(new, tombs) ==
    /\ \A a, b \in new : Key(a) = Key(b) => a = b
    /\ \A a, b \in tombs : Key(a) = Key(b) => a = b
    /\ Keys(new) \cap Keys(tombs) = {}

Accepted(new, tombs) == ~RemapAmbiguous(new) /\ Valid(new, tombs)

\* The command ends: its selection is saved whole, or refused and nothing is.
Commit(new, tombs) ==
    /\ IF Accepted(new, tombs)
       THEN /\ workspaces' = new
            /\ forgotten' = tombs
            /\ placement' = Carry(new)
            /\ focus' = Refocus(new)
       ELSE UNCHANGED registry
    /\ cmd' = NoCommand
    /\ UNCHANGED fs

Refuse ==
    /\ cmd' = NoCommand
    /\ UNCHANGED <<fs, registry>>

-----------------------------------------------------------------------------
(***************************************************************************)
(* scan, and scan --mode exact: every root or repository found is looked   *)
(* at, then read; the directory may be another one when it is read.        *)
(***************************************************************************)
Scan(op, roots) ==
    /\ cmd.op = "none"
    /\ op = "exact" => roots # {}
    /\ op = "recursive" => \A p \in roots : Present(p)
    /\ cmd' = [NoCommand EXCEPT !.op = op, !.todo = roots]
    /\ UNCHANGED <<fs, registry>>

\* directory_identity, the directories seen before, local_suppressed.
Look(p) ==
    /\ cmd.op \in {"exact", "recursive"}
    /\ cmd.path = NoPath
    /\ p \in cmd.todo
    /\ IF ~Present(p) \/ (fs[p] \notin cmd.seen /\ \E t \in forgotten : IdentifierOnly(t))
       THEN Refuse
       ELSE /\ cmd' = [cmd EXCEPT
                  !.todo = @ \ {p},
                  !.seen = @ \cup {fs[p]},
                  !.path = IF fs[p] \in cmd.seen \/ Suppressed(p, fs[p]) THEN NoPath ELSE p]
            /\ UNCHANGED <<fs, registry>>

\* read_workspace_pointer
Read ==
    /\ cmd.op \in {"exact", "recursive"}
    /\ cmd.path # NoPath
    /\ IF Present(cmd.path)
       THEN /\ cmd' = [cmd EXCEPT !.path = NoPath, !.found = @ \cup
                  {[path |-> cmd.path, id |-> fs[cmd.path],
                    selection |-> IF cmd.op = "exact" THEN "exact" ELSE "discovered"]}]
            /\ UNCHANGED <<fs, registry>>
       ELSE Refuse

\* A slip: what the scan found is added beside the exact selections.
SelectedAll ==
    LET kept == IF cmd.op = "exact" THEN {} ELSE {w \in workspaces : w.selection = "exact"}
    IN  kept \cup cmd.found

\* What a scan selects: a recursive one keeps the exact selections, and finds
\* nothing new where or in what they point at.
Selected ==
    LET kept == IF cmd.op = "exact" THEN {} ELSE {w \in workspaces : w.selection = "exact"}
    IN  kept \cup {n \in cmd.found : ~\E w \in kept : MatchesLocal(w, n.path, n.id)}

SaveScan ==
    /\ cmd.op \in {"exact", "recursive"}
    /\ cmd.path = NoPath /\ cmd.todo = {}
    /\ Commit(Selected, forgotten)

-----------------------------------------------------------------------------
(***************************************************************************)
(* clear, forget and re-add of a path (local_action).                      *)
(***************************************************************************)
Matched(p) == {w \in workspaces : MatchesLocal(w, p, fs[p])}

Clear(p) ==
    /\ cmd.op = "none"
    /\ Matched(p) # {}
    /\ Commit(workspaces \ Matched(p), forgotten)

\* The tombstone of a pointer forgotten at p; what is at p stands in for the
\* identity a version 1 pointer lacks.
TombstoneOf(w, p) == [path |-> w.path, id |-> IF w.id # NoDir THEN w.id ELSE fs[p]]

\* One tombstone for every identifier that has none: of two pointers to one
\* directory the first in the registry's order leaves its path.
Forget(p) ==
    /\ cmd.op = "none"
    /\ Matched(p) # {}
    /\ \E T \in SUBSET {TombstoneOf(w, p) : w \in Matched(p)} :
          /\ Keys(T) = Keys({TombstoneOf(w, p) : w \in Matched(p)}) \ Keys(forgotten)
          /\ \A a, b \in T : Key(a) = Key(b) => a = b
          /\ Commit(workspaces \ Matched(p), forgotten \cup T)

\* local_action reads the directory, the pointers it matches and the
\* identifier-only tombstones, which only their own path gets past.
ReAdd(p) ==
    /\ cmd.op = "none"
    /\ (\E t \in forgotten : IdentifierOnly(t))
       => \E t \in forgotten : IdentifierOnly(t) /\ t.path = p
    /\ cmd' = [NoCommand EXCEPT !.op = "re-add", !.path = p, !.found = Matched(p)]
    /\ UNCHANGED <<fs, registry>>

\* A slip: one re-add lifts every suppression.
LiftedAll(p) == forgotten
Lifted(p) == {t \in forgotten : MatchesTombstone(t, p, fs[p])}

\* The directory is read once more, the matching tombstones are lifted.
SaveReAdd ==
    /\ cmd.op = "re-add"
    /\ IF Present(cmd.path)
       THEN Commit((workspaces \ cmd.found)
                     \cup {[path |-> cmd.path, id |-> fs[cmd.path], selection |-> "exact"]},
                   forgotten \ Lifted(cmd.path))
       ELSE Refuse

\* The command is interrupted: registry.json is replaced whole or not at all.
Interrupt == cmd.op # "none" /\ Refuse

-----------------------------------------------------------------------------
(***************************************************************************)
(* The overlay: group assign, group unassign and focus on a workspace.     *)
(***************************************************************************)
\* selected_local_pointer: by path, or else by the directory that is there.
SelectedAt(p) ==
    LET here == {w \in workspaces : w.path = p}
    IN  IF here # {} THEN here
        ELSE {w \in workspaces : fs[p] # NoDir /\ w.id = fs[p]}

Assign(p, g) ==
    /\ cmd.op = "none"
    /\ Cardinality(SelectedAt(p)) = 1
    /\ placement' = [k \in DOMAIN placement \cup Keys(SelectedAt(p)) |->
                        IF k \in Keys(SelectedAt(p)) THEN g ELSE placement[k]]
    /\ UNCHANGED <<fs, workspaces, forgotten, focus, cmd>>

Unassign(p) ==
    /\ cmd.op = "none"
    /\ Cardinality(SelectedAt(p)) = 1
    /\ Keys(SelectedAt(p)) \subseteq DOMAIN placement
    /\ placement' = [k \in DOMAIN placement \ Keys(SelectedAt(p)) |-> placement[k]]
    /\ UNCHANGED <<fs, workspaces, forgotten, focus, cmd>>

Focus(w) ==
    /\ cmd.op = "none"
    /\ w \in workspaces
    /\ focus' = Key(w)
    /\ UNCHANGED <<fs, workspaces, forgotten, placement, cmd>>

Next ==
    \/ \E p \in Paths, d \in Dirs \cup {NoDir} : Relocate(p, d)
    \/ \E op \in {"exact", "recursive"}, roots \in SUBSET Paths : Scan(op, roots)
    \/ \E p \in Paths : Look(p)
    \/ Read
    \/ SaveScan
    \/ \E p \in Paths : Clear(p) \/ Forget(p) \/ ReAdd(p)
    \/ SaveReAdd
    \/ Interrupt
    \/ \E p \in Paths, g \in Groups : Assign(p, g)
    \/ \E p \in Paths : Unassign(p)
    \/ \E w \in workspaces : Focus(w)

Spec == Init /\ [][Next]_vars

-----------------------------------------------------------------------------
TypeOK ==
    /\ fs \in [Paths -> Dirs \cup {NoDir}]
    /\ workspaces \subseteq Pointer
    /\ \A w \in workspaces : w.id = NoDir => w.selection = "discovered"
    /\ forgotten \subseteq Tombstone
    /\ placement \in [DOMAIN placement -> Groups]
    /\ cmd \in [op : {"none", "exact", "recursive", "re-add"}, path : Paths \cup {NoPath},
                todo : SUBSET Paths, seen : SUBSET Dirs, found : SUBSET Pointer]

\* No selected pointer is at the place, or leads to the directory, of a
\* tombstone: whatever was swapped under a scan between its look and its read,
\* what the owner forgot does not come back without a re-add.
SuppressedStaysOut ==
    \A w \in workspaces, t \in forgotten : w.path # t.path /\ (w.id = t.id => w.id = NoDir)

\* A path or an identity names one pointer: selected_local_pointer never stops
\* at workspace-path-ambiguous, and validate_registry accepts what was saved.
OneRoute ==
    \A v, w \in workspaces : v.path = w.path \/ Key(v) = Key(w) => v = w

\* A tombstone is given up only for a pointer to the place or to the directory
\* it records ("Clear-cache MUST NOT remove tombstones", SPEC section 6).
TombstonesAnswered ==
    [][\A t \in forgotten \ forgotten' :
          \E w \in workspaces' : w.id = t.id \/ SameLocation(w.path, t.path)]_vars

\* The overlay refers to selected pointers only, so validate_organization
\* accepts it, after every scan, clear, forget and re-add.
OverlaySelected == References \subseteq Keys(workspaces)

\* A placement follows one directory.  A pointer that is selected anew is in no
\* group until it is assigned, unless it takes over from a version 1 pointer
\* ("Re-add does not restore a pruned placement"), at whatever path it is.
PlacementFollows ==
    [][\A k \in DOMAIN placement' :
          \/ k \in DOMAIN placement /\ placement'[k] = placement[k]
          \/ workspaces' = workspaces
          \/ /\ k \in Dirs
             /\ \E w \in workspaces :
                   /\ w.id = NoDir /\ w.path \in DOMAIN placement
                   /\ \/ fs[w.path] = k
                      \/ \E n \in workspaces' : Key(n) = k /\ n.path = w.path
                   /\ placement'[k] = placement[w.path]]_vars

\* "Local tombstones retain both original location and device/inode identity"
\* (SPEC.md:308): whatever is forgotten, its place stays suppressed.
ForgottenPlaceKept ==
    [][\A p \in Paths : Forget(p) =>
          \A w \in workspaces \ workspaces' : \E t \in forgotten' : t.path = w.path]_vars
=============================================================================
