----------------------------- MODULE Organization -----------------------------
(***************************************************************************)
(* The organization overlay of a manager and its editor views              *)
(* (tools/workspace_manager.py: group_manager, focus_manager,              *)
(* editor_manager, replace_local_workspaces, validate_organization and the *)
(* functions that render the tree and a focused view).  How a selection of *)
(* pointers comes about is the matter of LocalRouting; here one replaces   *)
(* another.  Every command runs alone, under manager_lock.                 *)
(***************************************************************************)
EXTENDS Naturals, FiniteSets, SequencesExt

CONSTANTS Groups,    \* group ids
          Root,      \* ORGANIZATION_ROOT_ID
          Pointers,  \* local pointers the owner may select: finitely many digests
          Legacy,    \* those of version 1, which a rescan replaces by others
          NameOf,    \* the folded name of each pointer
          Labels,    \* folded names, aliases and --target values
          Files,     \* names of editor view files
          KeyOf,     \* editor_name_key: file names that differ in case only agree
          MainFile,  \* "estate.code-workspace"
          MaxViews,  \* tracked views: 16 in the code
          Dirs,      \* directories of the host
          Manager,   \* the manager's own
          Around,    \* those above or below the manager's
          Recorded,  \* filesystemIdentity of each pointer that is not of version 1
          Native,    \* directories that selected native references may name
          Nil        \* no parent, no alias, no target, no directory

ASSUME OrganizationAssumption ==
    /\ Root \in Groups /\ IsFiniteSet(Pointers) /\ Legacy \subseteq Pointers
    /\ Groups \cap Pointers = {}
    /\ Groups \subseteq Labels /\ NameOf \in [Pointers -> Labels]
    /\ MainFile \in Files /\ DOMAIN KeyOf = Files
    /\ MaxViews \in Nat \ {0}
    /\ Manager \in Dirs /\ Around \subseteq Dirs \ {Manager}
    /\ Recorded \in [Pointers \ Legacy -> Dirs] /\ Native \subseteq Dirs
    /\ IsFiniteSet(Native) /\ Nil \notin Dirs
    /\ Nil \notin Groups \cup Pointers \cup Labels

VARIABLES selected,  \* pointer ids of registry["workspaces"]
          parent,    \* groups of the organization: group id to parent
          placement, \* pointer id to group
          alias,     \* pointer id to alias
          focused,   \* focused view file to its target, Nil for an empty one
          main,      \* editor_view
          views      \* editor_views

vars == <<selected, parent, placement, alias, focused, main, views>>

Partial(S, T) == UNION {[D -> T] : D \in SUBSET S}
Without(f, x) == [y \in DOMAIN f \ {x} |-> f[y]]
With(f, x, v) == [y \in DOMAIN f \cup {x} |-> IF y = x THEN v ELSE f[y]]

Init ==
    /\ selected \in SUBSET Pointers
    /\ parent = [g \in {Root} |-> Nil]
    /\ placement = <<>>
    /\ alias = <<>>
    /\ focused = <<>>
    /\ main = MainFile
    /\ views = {MainFile}

Known(g) == g \in DOMAIN parent

\* group add
AddGroup(g, up) ==
    /\ g \notin DOMAIN parent
    /\ Known(up)
    /\ parent' = With(parent, g, up)
    /\ UNCHANGED <<selected, placement, alias, focused, main, views>>

\* A slip: a group that has subgroups and no pointers counts as empty.
RemovableParent(g) == \A p \in DOMAIN placement : placement[p] # g
Removable(g) ==
    /\ \A h \in DOMAIN parent : parent[h] # g
    /\ \A p \in DOMAIN placement : placement[p] # g

\* A slip: views keep showing a group that is removed.
Unfocused(g) == focused
\* The views of a removed group become empty.
Emptied(g) == [f \in DOMAIN focused |-> IF focused[f] = g THEN Nil ELSE focused[f]]

\* group remove
RemoveGroup(g) ==
    /\ g # Root /\ Known(g)
    /\ Removable(g)
    /\ parent' = Without(parent, g)
    /\ focused' = Emptied(g)
    /\ UNCHANGED <<selected, placement, alias, main, views>>

\* group assign, with an alias or without.
Assign(p, g, label) ==
    /\ p \in selected
    /\ Known(g)
    /\ placement' = With(placement, p, g)
    /\ alias' = IF label = Nil THEN alias ELSE With(alias, p, label)
    /\ UNCHANGED <<selected, parent, focused, main, views>>

\* group unassign
Unassign(p) ==
    /\ p \in DOMAIN placement
    /\ placement' = Without(placement, p)
    /\ UNCHANGED <<selected, parent, alias, focused, main, views>>

-----------------------------------------------------------------------------
\* validate_organization and validate_registry on the view names to be saved.
ValidViews(vs, foc, mainfile) ==
    /\ Cardinality(vs) <= MaxViews
    /\ \A f, g \in vs : KeyOf[f] = KeyOf[g] => f = g
    /\ DOMAIN foc \subseteq vs
    /\ \A f \in DOMAIN foc : KeyOf[f] # KeyOf[mainfile]

\* matching_local_targets
Named(label) ==
    {p \in selected : NameOf[p] = label \/ (p \in DOMAIN alias /\ alias[p] = label)}

\* focus --target label --output f: a group, or the one pointer of that name.
Focus(label, f) ==
    LET targets == Named(label) \cup (DOMAIN parent \cap {label})
    IN  /\ Cardinality(targets) = 1
        /\ KeyOf[f] # KeyOf[main]
        /\ focused' = With(focused, f, CHOOSE t \in targets : TRUE)
        /\ views' = views \cup {f}
        /\ ValidViews(views', focused', main)
        /\ UNCHANGED <<selected, parent, placement, alias, main>>

\* editor-view --output f: f becomes the view of everything.
EditorViewAt(f) ==
    /\ main' = f
    /\ views' = views \cup {f}
    /\ focused' = Without(focused, f)
    /\ ValidViews(views', focused', main')
    /\ UNCHANGED <<selected, parent, placement, alias>>

-----------------------------------------------------------------------------
(***************************************************************************)
(* replace_local_workspaces, on behalf of scan, clear, forget and re-add:  *)
(* m takes what the overlay refers to to its pointer in the new selection, *)
(* or to Nil.  Only a version 1 pointer becomes another one.               *)
(***************************************************************************)
Referred == DOMAIN placement \cup DOMAIN alias \cup
            ({focused[f] : f \in DOMAIN focused} \cap Pointers)

\* A slip: whatever is no longer selected may become another pointer.
RemapsAny(new) ==
    {m \in [Referred -> new \cup {Nil}] : \A p \in Referred : p \in new => m[p] = p}
Remaps(new) ==
    {m \in [Referred -> new \cup {Nil}] :
        \A p \in Referred : IF p \in new THEN m[p] = p
                            ELSE p \in Legacy \/ m[p] = Nil}

\* organization-pointer-remap-ambiguous, of placements or of aliases.
Collapses(m, D) == \E p, q \in D : p # q /\ m[p] = m[q] /\ m[p] # Nil

\* A slip: what has no successor is kept under no id.
MovedToNil(f, m) ==
    [q \in {m[p] : p \in DOMAIN f} |-> f[CHOOSE p \in DOMAIN f : m[p] = q]]
Moved(f, m) ==
    [q \in {m[p] : p \in DOMAIN f} \ {Nil} |-> f[CHOOSE p \in DOMAIN f : m[p] = q]]

Retargeted(m) ==
    [f \in DOMAIN focused |->
        IF focused[f] \in Pointers THEN m[focused[f]] ELSE focused[f]]

Reselect(new, m) ==
    /\ ~Collapses(m, DOMAIN placement) /\ ~Collapses(m, DOMAIN alias)
    /\ selected' = new
    /\ placement' = Moved(placement, m)
    /\ alias' = Moved(alias, m)
    /\ focused' = Retargeted(m)
    /\ UNCHANGED <<parent, main, views>>

Next ==
    \/ \E g \in Groups, up \in Groups : AddGroup(g, up)
    \/ \E g \in Groups : RemoveGroup(g)
    \/ \E p \in Pointers, g \in Groups, label \in Labels \cup {Nil} : Assign(p, g, label)
    \/ \E p \in Pointers : Unassign(p)
    \/ \E label \in Labels, f \in Files : Focus(label, f)
    \/ \E f \in Files : EditorViewAt(f)
    \/ \E new \in SUBSET Pointers : \E m \in Remaps(new) : Reselect(new, m)

Spec == Init /\ [][Next]_vars

-----------------------------------------------------------------------------
(***************************************************************************)
(* What is rendered.  Names order the children of a group and its          *)
(* pointers; any order will do here.                                       *)
(***************************************************************************)
PlacedIn(g) == {p \in DOMAIN placement : placement[p] = g}
Children(g) == {h \in DOMAIN parent : parent[h] = g}

\* group_pointer_ids: a group's pointers, then its children's, each in turn.
Collect(group) ==
    LET collect[g \in DOMAIN parent] ==
            LET children == SetToSeq(Children(g))
            IN  SetToSeq(PlacedIn(g)) \o
                FlattenSeq([i \in DOMAIN children |-> collect[children[i]]])
    IN  collect[group]

\* organization_tree_lines: the pointers in the tree, then the unorganized.
TreeLines == Collect(Root) \o SetToSeq(selected \ DOMAIN placement)

\* folders_for_editor_view: the pointers the view file f is about.
PointersOf(f) ==
    IF f \notin DOMAIN focused THEN SetToSeq(selected)
    ELSE IF focused[f] \in Groups THEN Collect(focused[f])
    ELSE IF focused[f] \in Pointers THEN <<focused[f]>>
    ELSE <<>>

(***************************************************************************)
(* editor_folders, whenever a command renders the view f: host[p] is the   *)
(* directory that the path of pointer p names by then, if it names one     *)
(* that is no link and in no native store, and native the directories of   *)
(* the selected native references.                                         *)
(***************************************************************************)
Hosts == [Pointers -> Dirs \cup {Nil}]

\* A slip: whatever is at the path will do.
VerifiedAnyhow(p, host) == host[p] # Nil
\* verified_directory_info: what is there is still the directory recorded.
Verified(p, host) == host[p] # Nil /\ (p \notin Legacy => host[p] = Recorded[p])

Candidates(f, host, native) ==
    LET ps == PointersOf(f)
    IN  [i \in DOMAIN ps |-> IF Verified(ps[i], host) THEN host[ps[i]] ELSE Nil] \o
        (IF f \in DOMAIN focused THEN <<>> ELSE SetToSeq(native))

\* check_route_boundary: a directory around the manager's refuses the command,
\* and nothing is saved.
Overlaps(dirs) == \E i \in DOMAIN dirs : dirs[i] \in Around

\* add: a directory is opened once, under whichever name comes first.
Add(folders, d) == IF d = Nil \/ d \in ToSet(folders) THEN folders ELSE Append(folders, d)

\* The folders of a view, the manager first.
Folders(dirs) ==
    LET after[n \in 0..Len(dirs)] ==
            IF n = 0 THEN <<Manager>> ELSE Add(after[n - 1], dirs[n])
    IN  after[Len(dirs)]

-----------------------------------------------------------------------------
TypeOK ==
    /\ selected \subseteq Pointers
    /\ parent \in Partial(Groups, Groups \cup {Nil})
    /\ placement \in Partial(Pointers, Groups)
    /\ alias \in Partial(Pointers, Labels)
    /\ focused \in Partial(Files, Groups \cup Pointers \cup {Nil})
    /\ main \in views
    /\ views \subseteq Files

\* Whoever is in S has its parent there; only the root needs none.
Closed(S) == \A h \in S \cap DOMAIN parent : h # Root => parent[h] \in S

\* The ancestors of a group, itself included: the least closed set it is in.
Above(g) ==
    {h \in Groups \cup {Nil} :
        \A S \in SUBSET (Groups \cup {Nil}) : g \in S /\ Closed(S) => h \in S}

\* The groups form one tree under the root, so rendering ends and misses none.
OneTree ==
    /\ parent[Root] = Nil
    /\ \A g \in DOMAIN parent : Root \in Above(g) /\ Above(g) \subseteq DOMAIN parent

\* Whatever was added, removed, assigned or rescanned, the tree and its
\* Unorganized section show every selected pointer, once, and nothing else.
TreeShowsSelection ==
    /\ ToSet(TreeLines) = selected
    /\ Len(TreeLines) = Cardinality(selected)

\* The selected pointers that the view f should show: all, or those below the
\* group it is focused on, or the one it is focused on.
Due(f) ==
    {p \in selected :
        \/ f \notin DOMAIN focused
        \/ focused[f] = p
        \/ p \in DOMAIN placement /\ focused[f] \in Above(placement[p])}

\* What the pointer p was selected for: one directory, but for version 1, which
\* records none.
SelectedFor(p) == IF p \in Legacy THEN Dirs ELSE {Recorded[p]}

\* Whatever the host has made of the directories when a view is rendered, the
\* view opens the manager's first and each directory once: those that its
\* pointers were selected for and that are still there, whichever names share
\* them, and native ones only where it is focused on nothing.  Otherwise one of
\* them has come to lie around the manager, and no view is rendered.
FocusedViewsExact ==
    \A f \in views, host \in Hosts, native \in SUBSET Native :
        LET dirs == Candidates(f, host, native)
            fs == Folders(dirs)
        IN  \/ Overlaps(dirs)
            \/ /\ fs[1] = Manager
               /\ \A i, j \in DOMAIN fs : fs[i] = fs[j] => i = j
               /\ ToSet(fs) = {Manager} \cup {host[p] : p \in {q \in Due(f) : host[q] \in SelectedFor(q)}}
                                        \cup (IF f \in DOMAIN focused THEN {} ELSE native)

\* validate_organization accepts what every command saves: no group, no reference
\* of the overlay, no focused view and no file name keeps a registry from loading.
OverlayLoads ==
    /\ OneTree
    /\ DOMAIN placement \cup DOMAIN alias \subseteq selected
    /\ \A p \in DOMAIN placement : placement[p] \in DOMAIN parent
    /\ \A f \in DOMAIN focused : focused[f] \in selected \cup DOMAIN parent \cup {Nil}
    /\ ValidViews(views, focused, main)

\* What a focused view shows changes by a focus command, or because the group
\* is removed or the pointer no longer selected.  Then the view is empty, and
\* stays so when a group of that id or the pointer comes back; only a version 1
\* pointer passes its views on, to a pointer that is selected.
FocusKept ==
    [][\A f \in DOMAIN focused \cap DOMAIN focused' :
          focused'[f] # focused[f] =>
              \/ \E label \in Labels : Focus(label, f)
              \/ /\ focused'[f] = Nil
                 /\ focused[f] \in (DOMAIN parent \ DOMAIN parent') \cup (selected \ selected')
              \/ /\ focused[f] \in (Legacy \cap selected) \ selected'
                 /\ focused'[f] \in selected']_vars
=============================================================================
