-------------------------- MODULE LocalRoutingProofs --------------------------
(***************************************************************************)
(* What holds of a manager's local pointers, tombstones and overlay for    *)
(* any number of paths, directories and groups.                            *)
(*                                                                         *)
(* The routes a command is about to select are not in the registry yet,    *)
(* so the invariant speaks of the command as well: what a scan has looked  *)
(* at and accepted is at no tombstone's place, and a re-add leaves no      *)
(* other pointer at its path.  That identities are not suppressed either   *)
(* is only known once validate_registry has compared them.                 *)
(***************************************************************************)
EXTENDS LocalRouting, TLAPS

\* No tombstone is for this place.
Free(p) == \A t \in forgotten : t.path # p

\* A scan under way: each path is in one of its hands, and not suppressed.
Scanning ==
    cmd.op \in {"exact", "recursive"} =>
        /\ cmd.path \notin cmd.todo
        /\ cmd.path # NoPath => Free(cmd.path)
        /\ \A n \in cmd.found :
              /\ n.id # NoDir
              /\ n.path \notin cmd.todo /\ n.path # cmd.path
              /\ Free(n.path)
        /\ \A m, n \in cmd.found : m.path = n.path => m = n

\* A re-add under way: the other pointers are elsewhere.
Readding ==
    cmd.op = "re-add" =>
        /\ cmd.path \in Paths
        /\ \A w \in workspaces \ cmd.found : w.path # cmd.path

IInv == TypeOK /\ OneRoute /\ SuppressedStaysOut /\ OverlaySelected /\ Scanning /\ Readding

-----------------------------------------------------------------------------
\* Every successor of a reference is in the new selection.
LEMMA SuccessorsSelected ==
  ASSUME NEW k, NEW new
  PROVE  Successors(k, new) \subseteq Keys(new)
<1>1. CASE k \in Keys(new)
  BY <1>1 DEF Successors
<1>2. CASE k \notin Keys(new)
  <2> DEFINE o == CHOOSE o \in workspaces : Key(o) = k
      N == {n \in new :
              IF o.id # NoDir THEN n.id = o.id
              ELSE n.path = o.path \/ (fs[o.path] # NoDir /\ n.id = fs[o.path])}
  <2>1. Successors(k, new) = Keys(N)
    BY <1>2 DEF Successors
  <2>2. N \subseteq new
    OBVIOUS
  <2>3. Keys(N) \subseteq Keys(new)
    BY <2>2 DEF Keys
  <2> QED
    BY <2>1, <2>3
<1> QED
  BY <1>1, <1>2

\* A placement that is carried over names groups and selected pointers only.
LEMMA CarrySelected ==
  ASSUME NEW new, placement \in [DOMAIN placement -> Groups]
  PROVE  /\ Carry(new) \in [DOMAIN Carry(new) -> Groups]
         /\ DOMAIN Carry(new) \subseteq Keys(new)
<1> DEFINE D == UNION {Successors(j, new) : j \in DOMAIN placement}
           from(k) == CHOOSE j \in DOMAIN placement : k \in Successors(j, new)
<1>1. Carry(new) = [k \in D |-> placement[from(k)]]
  BY DEF Carry
<1>2. \A k \in D : from(k) \in DOMAIN placement
  OBVIOUS
<1>3. \A k \in D : placement[from(k)] \in Groups
  BY <1>2
<1>4. DOMAIN Carry(new) = D
  BY <1>1
<1>5. D \subseteq Keys(new)
  BY SuccessorsSelected
<1> HIDE DEF D, from
<1> QED
  BY <1>1, <1>3, <1>4, <1>5

\* A focused view shows a selected pointer afterwards, or nothing.
LEMMA RefocusSelected ==
  ASSUME NEW new
  PROVE  Refocus(new) = NoPointer \/ Refocus(new) \in Keys(new)
<1>1. CASE focus = NoPointer \/ Successors(focus, new) = {}
  BY <1>1 DEF Refocus
<1>2. CASE ~(focus = NoPointer \/ Successors(focus, new) = {})
  <2>1. Refocus(new) \in Successors(focus, new)
    BY <1>2 DEF Refocus
  <2> QED
    BY <2>1, SuccessorsSelected
<1> QED
  BY <1>1, <1>2

\* A command with nothing in hand.
LEMMA NothingInHand ==
  /\ NoCommand \in [op : {"none", "exact", "recursive", "re-add"}, path : Paths \cup {NoPath},
                    todo : SUBSET Paths, seen : SUBSET Dirs, found : SUBSET Pointer]
  /\ NoCommand.op = "none"
  BY DEF NoCommand

\* A selection that validate_registry accepts keeps the invariant, if its
\* pointers have a path each and no tombstone is for one of their paths.
LEMMA CommitKeeps ==
  ASSUME IInv, NEW new, NEW tombs, Commit(new, tombs),
         new \subseteq Pointer, tombs \subseteq Tombstone,
         \A w \in new : w.id = NoDir => w.selection = "discovered",
         \A v, w \in new : v.path = w.path => v = w,
         \A w \in new, t \in tombs : w.path # t.path
  PROVE  IInv'
<1>1. cmd' = NoCommand /\ UNCHANGED fs
  BY DEF Commit
<1>2. Scanning' /\ Readding'
  BY <1>1, NothingInHand DEF Scanning, Readding
<1>3. CASE ~Accepted(new, tombs)
  <2>1. UNCHANGED registry
    BY <1>3 DEF Commit
  <2> QED
    BY <1>1, <1>2, <2>1, NothingInHand
    DEF IInv, TypeOK, OneRoute, SuppressedStaysOut, OverlaySelected, References, registry, Keys, Key
<1>4. CASE Accepted(new, tombs)
  <2>1. /\ workspaces' = new /\ forgotten' = tombs
        /\ placement' = Carry(new) /\ focus' = Refocus(new)
    BY <1>4 DEF Commit
  <2>2. Valid(new, tombs)
    BY <1>4 DEF Accepted
  <2>3. placement \in [DOMAIN placement -> Groups]
    BY DEF IInv, TypeOK
  <2>4. TypeOK'
    <3>1. Carry(new) \in [DOMAIN Carry(new) -> Groups]
      BY <2>3, CarrySelected
    <3>2. placement' \in [DOMAIN placement' -> Groups]
      BY <3>1, <2>1
    <3> QED
      BY <1>1, <2>1, <3>2, NothingInHand DEF IInv, TypeOK
  <2>5. OneRoute'
    BY <2>1, <2>2 DEF OneRoute, Valid, Key
  <2>6. SuppressedStaysOut'
    <3> SUFFICES ASSUME NEW w \in new, NEW t \in tombs, w.id = t.id, w.id # NoDir
                 PROVE  FALSE
      BY <2>1 DEF SuppressedStaysOut
    <3>1. Key(w) = Key(t)
      BY DEF Key
    <3> QED
      BY <3>1, <2>2 DEF Valid, Keys
  <2>7. OverlaySelected'
    <3>1. DOMAIN placement' \subseteq Keys(new)
      BY <2>1, <2>3, CarrySelected
    <3>2. focus' = NoPointer \/ focus' \in Keys(new)
      BY <2>1, RefocusSelected
    <3>3. Keys(workspaces)' = Keys(new)
      BY <2>1 DEF Keys, Key
    <3> QED
      BY <3>1, <3>2, <3>3 DEF OverlaySelected, References
  <2> QED
    BY <1>2, <2>4, <2>5, <2>6, <2>7 DEF IInv
<1> QED
  BY <1>3, <1>4

-----------------------------------------------------------------------------
\* Initially nothing is organized, and the old pointers are not suppressed.
LEMMA InitInv == Init => IInv
<1> SUFFICES ASSUME Init PROVE IInv
  OBVIOUS
<1>1. PICK old, gone \in SUBSET Paths :
        /\ old \cap gone = {}
        /\ workspaces = {[path |-> p, id |-> NoDir, selection |-> "discovered"] : p \in old}
        /\ forgotten = {[path |-> p, id |-> NoDir] : p \in gone}
  BY DEF Init
<1>2. TypeOK
  BY <1>1, NothingInHand DEF Init, TypeOK, Pointer, Tombstone
<1>3. OneRoute
  BY <1>1 DEF OneRoute, Key
<1>4. SuppressedStaysOut
  BY <1>1 DEF SuppressedStaysOut
<1>5. OverlaySelected
  BY DEF Init, OverlaySelected, References
<1>6. Scanning /\ Readding
  BY NothingInHand DEF Init, Scanning, Readding
<1> QED
  BY <1>2, <1>3, <1>4, <1>5, <1>6 DEF IInv

\* A command that is refused, or interrupted, leaves the registry alone.
LEMMA RefuseKeeps ==
  ASSUME IInv, Refuse
  PROVE  IInv'
<1>1. cmd' = NoCommand /\ UNCHANGED <<fs, registry>>
  BY DEF Refuse
<1>2. Scanning' /\ Readding'
  BY <1>1, NothingInHand DEF Scanning, Readding
<1> QED
  BY <1>1, <1>2, NothingInHand
  DEF IInv, TypeOK, OneRoute, SuppressedStaysOut, OverlaySelected, References, registry, Keys, Key

\* Only the command moves: what is left to show is about it.
LEMMA CommandMoves ==
  ASSUME IInv, UNCHANGED <<fs, registry>>, Scanning', Readding',
         cmd' \in [op : {"none", "exact", "recursive", "re-add"}, path : Paths \cup {NoPath},
                   todo : SUBSET Paths, seen : SUBSET Dirs, found : SUBSET Pointer]
  PROVE  IInv'
  BY DEF IInv, TypeOK, OneRoute, SuppressedStaysOut, OverlaySelected, References, registry, Keys, Key

\* Only the overlay moves.
LEMMA OverlayMoves ==
  ASSUME IInv, UNCHANGED <<fs, workspaces, forgotten, cmd>>,
         placement' \in [DOMAIN placement' -> Groups],
         References' \subseteq Keys(workspaces)
  PROVE  IInv'
<1>1. Keys(workspaces)' = Keys(workspaces)
  BY DEF Keys, Key
<1> QED
  BY <1>1 DEF IInv, TypeOK, OneRoute, SuppressedStaysOut, OverlaySelected, Scanning, Readding,
              Free, Key

\* Moving directories about changes no registry.
LEMMA RelocateKeeps ==
  ASSUME IInv, NEW p \in Paths, NEW d \in Dirs \cup {NoDir}, Relocate(p, d)
  PROVE  IInv'
<1>1. fs' \in [Paths -> Dirs \cup {NoDir}] /\ UNCHANGED <<registry, cmd>>
  BY DEF Relocate, IInv, TypeOK
<1> QED
  BY <1>1 DEF IInv, TypeOK, OneRoute, SuppressedStaysOut, OverlaySelected, Scanning, Readding,
              References, registry, Free, Keys, Key

-----------------------------------------------------------------------------
\* A scan starts with empty hands.
LEMMA ScanKeeps ==
  ASSUME IInv, NEW op \in {"exact", "recursive"}, NEW roots \in SUBSET Paths, Scan(op, roots)
  PROVE  IInv'
<1>1. /\ cmd' = [NoCommand EXCEPT !.op = op, !.todo = roots]
      /\ UNCHANGED <<fs, registry>>
  BY DEF Scan
<1>2. /\ cmd'.op = op /\ cmd'.path = NoPath /\ cmd'.found = {} /\ cmd'.todo = roots
      /\ cmd' \in [op : {"none", "exact", "recursive", "re-add"}, path : Paths \cup {NoPath},
                   todo : SUBSET Paths, seen : SUBSET Dirs, found : SUBSET Pointer]
  BY <1>1 DEF NoCommand
<1>3. Scanning' /\ Readding'
  BY <1>2, RoutingAssumption DEF Scanning, Readding
<1> QED
  BY <1>1, <1>2, <1>3, CommandMoves

\* What a scan has looked at it holds only if no tombstone is for its place.
LEMMA LookKeeps ==
  ASSUME IInv, NEW p \in Paths, Look(p)
  PROVE  IInv'
<1>1. CASE Refuse
  BY <1>1, RefuseKeeps
<1>2. CASE ~Refuse
  <2> DEFINE next == IF fs[p] \in cmd.seen \/ Suppressed(p, fs[p]) THEN NoPath ELSE p
  <2>1. /\ cmd.op \in {"exact", "recursive"} /\ cmd.path = NoPath /\ p \in cmd.todo
        /\ Present(p)
        /\ cmd' = [cmd EXCEPT !.todo = @ \ {p}, !.seen = @ \cup {fs[p]}, !.path = next]
        /\ UNCHANGED <<fs, registry>>
    BY <1>2 DEF Look
  <2>2. /\ cmd \in [op : {"none", "exact", "recursive", "re-add"}, path : Paths \cup {NoPath},
                    todo : SUBSET Paths, seen : SUBSET Dirs, found : SUBSET Pointer]
        /\ fs[p] \in Dirs
    BY <2>1 DEF IInv, TypeOK, Present
  <2>3. next = NoPath \/ (next = p /\ ~Suppressed(p, fs[p]))
    OBVIOUS
  <2>4. next = p => Free(p)
    BY <2>3, RoutingAssumption DEF Suppressed, MatchesTombstone, MatchesLocal, SameLocation, Free
  <2> HIDE DEF next
  <2>5. /\ cmd'.op = cmd.op /\ cmd'.path = next /\ cmd'.found = cmd.found
        /\ cmd'.todo = cmd.todo \ {p}
        /\ cmd' \in [op : {"none", "exact", "recursive", "re-add"}, path : Paths \cup {NoPath},
                     todo : SUBSET Paths, seen : SUBSET Dirs, found : SUBSET Pointer]
    BY <2>1, <2>2, <2>3
  <2>6. Scanning
    BY DEF IInv
  <2>7. Scanning'
    <3>1. forgotten' = forgotten
      BY <2>1 DEF registry
    <3>2. \A n \in cmd.found : n.path \in Paths
      BY <2>2 DEF Pointer
    <3>3. NoPath \notin Paths
      BY RoutingAssumption
    <3> QED
      BY <2>1, <2>2, <2>3, <2>4, <2>5, <2>6, <3>1, <3>2, <3>3 DEF Scanning, Free
  <2>8. Readding'
    BY <2>1, <2>5 DEF Readding
  <2> QED
    BY <2>1, <2>5, <2>7, <2>8, CommandMoves
<1> QED
  BY <1>1, <1>2

\* The pointer that is read takes the place of the path that was looked at.
LEMMA ReadKeeps ==
  ASSUME IInv, Read
  PROVE  IInv'
<1>1. CASE Refuse
  BY <1>1, RefuseKeeps
<1>2. CASE ~Refuse
  <2> DEFINE n == [path |-> cmd.path, id |-> fs[cmd.path],
                   selection |-> IF cmd.op = "exact" THEN "exact" ELSE "discovered"]
  <2>1. /\ cmd.op \in {"exact", "recursive"} /\ cmd.path # NoPath /\ Present(cmd.path)
        /\ cmd' = [cmd EXCEPT !.path = NoPath, !.found = @ \cup {n}]
        /\ UNCHANGED <<fs, registry>>
    BY <1>2 DEF Read
  <2>2. /\ cmd \in [op : {"none", "exact", "recursive", "re-add"}, path : Paths \cup {NoPath},
                    todo : SUBSET Paths, seen : SUBSET Dirs, found : SUBSET Pointer]
        /\ cmd.path \in Paths /\ fs[cmd.path] \in Dirs
    BY <2>1 DEF IInv, TypeOK, Present
  <2>3. n \in Pointer /\ n.path = cmd.path /\ n.id # NoDir
    BY <2>2, RoutingAssumption DEF Pointer
  <2> HIDE DEF n
  <2>4. /\ cmd'.op = cmd.op /\ cmd'.path = NoPath /\ cmd'.found = cmd.found \cup {n}
        /\ cmd'.todo = cmd.todo
        /\ cmd' \in [op : {"none", "exact", "recursive", "re-add"}, path : Paths \cup {NoPath},
                     todo : SUBSET Paths, seen : SUBSET Dirs, found : SUBSET Pointer]
    BY <2>1, <2>2, <2>3
  <2>5. Scanning
    BY DEF IInv
  <2>6. Scanning'
    <3>1. forgotten' = forgotten
      BY <2>1 DEF registry
    <3>2. \A m \in cmd.found : m.path \in Paths /\ m.path # n.path
      BY <2>1, <2>2, <2>3, <2>5 DEF Pointer, Scanning
    <3>3. NoPath \notin Paths
      BY RoutingAssumption
    <3> QED
      BY <2>1, <2>2, <2>3, <2>4, <2>5, <3>1, <3>2, <3>3 DEF Scanning, Free
  <2>7. Readding'
    BY <2>1, <2>4 DEF Readding
  <2> QED
    BY <2>1, <2>4, <2>6, <2>7, CommandMoves
<1> QED
  BY <1>1, <1>2

\* A scan saves the exact selections it keeps and what it found elsewhere.
LEMMA SaveScanKeeps ==
  ASSUME IInv, SaveScan
  PROVE  IInv'
<1> DEFINE kept == IF cmd.op = "exact" THEN {} ELSE {w \in workspaces : w.selection = "exact"}
<1>1. cmd.op \in {"exact", "recursive"} /\ Commit(Selected, forgotten)
  BY DEF SaveScan
<1>2. /\ Selected = kept \cup {n \in cmd.found : ~\E w \in kept : MatchesLocal(w, n.path, n.id)}
      /\ kept \subseteq workspaces
  BY DEF Selected
<1> HIDE DEF kept
<1>3. /\ workspaces \subseteq Pointer /\ forgotten \subseteq Tombstone
      /\ \A w \in workspaces : w.id = NoDir => w.selection = "discovered"
      /\ cmd.found \subseteq Pointer
  BY DEF IInv, TypeOK
<1>4. \A n \in cmd.found : n.id # NoDir /\ Free(n.path)
  BY <1>1 DEF IInv, Scanning
<1>5. Selected \subseteq Pointer
  BY <1>2, <1>3
<1>6. \A w \in Selected : w.id = NoDir => w.selection = "discovered"
  BY <1>2, <1>3, <1>4
<1>7. ASSUME NEW v \in Selected, NEW w \in Selected, v.path = w.path
      PROVE  v = w
  <2>1. CASE v \in kept /\ w \in kept
    BY <1>2, <1>7, <2>1 DEF IInv, OneRoute
  <2>2. CASE v \notin kept /\ w \notin kept
    BY <1>1, <1>2, <1>7, <2>2 DEF IInv, Scanning
  <2>3. CASE v \in kept /\ w \notin kept
    BY <1>2, <1>7, <2>3 DEF MatchesLocal, SameLocation
  <2>4. CASE v \notin kept /\ w \in kept
    BY <1>2, <1>7, <2>4 DEF MatchesLocal, SameLocation
  <2> QED
    BY <2>1, <2>2, <2>3, <2>4
<1>8. \A w \in Selected, t \in forgotten : w.path # t.path
  BY <1>2, <1>4 DEF IInv, SuppressedStaysOut, Free
<1> QED
  BY <1>1, <1>3, <1>5, <1>6, <1>7, <1>8, CommitKeeps

\* What is left after a clear was selected and unsuppressed before.
LEMMA ClearKeeps ==
  ASSUME IInv, NEW p \in Paths, Clear(p)
  PROVE  IInv'
<1>1. Commit(workspaces \ Matched(p), forgotten)
  BY DEF Clear
<1>2. /\ workspaces \subseteq Pointer /\ forgotten \subseteq Tombstone
      /\ \A w \in workspaces : w.id = NoDir => w.selection = "discovered"
  BY DEF IInv, TypeOK
<1>3. /\ \A v, w \in workspaces : v.path = w.path => v = w
      /\ \A w \in workspaces, t \in forgotten : w.path # t.path
  BY DEF IInv, OneRoute, SuppressedStaysOut
<1> QED
  BY <1>1, <1>2, <1>3, CommitKeeps

\* The new tombstones are for the places of pointers that go.
LEMMA ForgetKeeps ==
  ASSUME IInv, NEW p \in Paths, Forget(p)
  PROVE  IInv'
<1>1. PICK T \in SUBSET {TombstoneOf(w, p) : w \in Matched(p)} :
        Commit(workspaces \ Matched(p), forgotten \cup T)
  BY DEF Forget
<1>2. /\ workspaces \subseteq Pointer /\ forgotten \subseteq Tombstone
      /\ \A w \in workspaces : w.id = NoDir => w.selection = "discovered"
      /\ fs[p] \in Dirs \cup {NoDir}
  BY DEF IInv, TypeOK
<1>3. \A t \in T : t \in Tombstone /\ \E w \in Matched(p) : t.path = w.path
  <2> SUFFICES ASSUME NEW t \in T
               PROVE  t \in Tombstone /\ \E w \in Matched(p) : t.path = w.path
    OBVIOUS
  <2>1. PICK w \in Matched(p) : t = TombstoneOf(w, p)
    BY <1>1
  <2>2. w \in Pointer
    BY <1>2 DEF Matched
  <2>3. t.path = w.path /\ t \in Tombstone
    BY <1>2, <2>1, <2>2 DEF TombstoneOf, Pointer, Tombstone
  <2> QED
    BY <2>3
<1>4. \A v, w \in workspaces : v.path = w.path => v = w
  BY DEF IInv, OneRoute
<1>5. \A w \in workspaces \ Matched(p), t \in T : w.path # t.path
  BY <1>3, <1>4 DEF Matched
<1>6. \A w \in workspaces \ Matched(p), t \in forgotten \cup T : w.path # t.path
  BY <1>5 DEF IInv, SuppressedStaysOut
<1>7. forgotten \cup T \subseteq Tombstone
  BY <1>2, <1>3
<1> QED
  BY <1>1, <1>2, <1>4, <1>6, <1>7, CommitKeeps

\* A re-add takes in hand every pointer at its path.
LEMMA ReAddKeeps ==
  ASSUME IInv, NEW p \in Paths, ReAdd(p)
  PROVE  IInv'
<1>1. /\ cmd' = [NoCommand EXCEPT !.op = "re-add", !.path = p, !.found = Matched(p)]
      /\ UNCHANGED <<fs, registry>>
  BY DEF ReAdd
<1>2. Matched(p) \subseteq Pointer
  BY DEF Matched, IInv, TypeOK
<1>3. /\ cmd'.op = "re-add" /\ cmd'.path = p /\ cmd'.found = Matched(p)
      /\ cmd' \in [op : {"none", "exact", "recursive", "re-add"}, path : Paths \cup {NoPath},
                   todo : SUBSET Paths, seen : SUBSET Dirs, found : SUBSET Pointer]
  BY <1>1, <1>2 DEF NoCommand
<1>4. \A w \in workspaces \ Matched(p) : w.path # p
  BY DEF Matched, MatchesLocal, SameLocation
<1>5. Scanning' /\ Readding'
  BY <1>1, <1>3, <1>4 DEF Scanning, Readding, registry
<1> QED
  BY <1>1, <1>3, <1>5, CommandMoves

\* A re-add saves one pointer at its path, whose tombstones it lifts.
LEMMA SaveReAddKeeps ==
  ASSUME IInv, SaveReAdd
  PROVE  IInv'
<1>1. CASE Refuse
  BY <1>1, RefuseKeeps
<1>2. CASE ~Refuse
  <2> DEFINE n == [path |-> cmd.path, id |-> fs[cmd.path], selection |-> "exact"]
             new == (workspaces \ cmd.found) \cup {n}
             tombs == forgotten \ Lifted(cmd.path)
  <2>1. cmd.op = "re-add" /\ Present(cmd.path) /\ Commit(new, tombs)
    BY <1>2 DEF SaveReAdd
  <2>2. /\ cmd.path \in Paths
        /\ \A w \in workspaces \ cmd.found : w.path # cmd.path
    BY <2>1 DEF IInv, Readding
  <2>3. /\ workspaces \subseteq Pointer /\ forgotten \subseteq Tombstone
        /\ \A w \in workspaces : w.id = NoDir => w.selection = "discovered"
        /\ fs[cmd.path] \in Dirs
    BY <2>1, <2>2 DEF IInv, TypeOK, Present
  <2>4. n \in Pointer /\ n.id # NoDir /\ n.path = cmd.path
    BY <2>2, <2>3, RoutingAssumption DEF Pointer
  <2>5. \A t \in tombs : t.path # cmd.path
    BY DEF Lifted, MatchesTombstone, MatchesLocal, SameLocation
  <2> HIDE DEF n
  <2>6. new \subseteq Pointer /\ tombs \subseteq Tombstone
    BY <2>3, <2>4
  <2>7. \A w \in new : w.id = NoDir => w.selection = "discovered"
    BY <2>3, <2>4
  <2>8. \A v, w \in new : v.path = w.path => v = w
    BY <2>2, <2>4 DEF IInv, OneRoute
  <2>9. \A w \in new, t \in tombs : w.path # t.path
    BY <2>4, <2>5 DEF IInv, SuppressedStaysOut
  <2> HIDE DEF new, tombs
  <2> QED
    BY <2>1, <2>6, <2>7, <2>8, <2>9, CommitKeeps
<1> QED
  BY <1>1, <1>2

-----------------------------------------------------------------------------
\* A pointer that is assigned a group is selected.
LEMMA AssignKeeps ==
  ASSUME IInv, NEW p \in Paths, NEW g \in Groups, Assign(p, g)
  PROVE  IInv'
<1> DEFINE K == Keys(SelectedAt(p))
<1>1. SelectedAt(p) \subseteq workspaces
  BY DEF SelectedAt
<1>2. K \subseteq Keys(workspaces)
  BY <1>1 DEF Keys
<1>3. /\ placement' = [k \in DOMAIN placement \cup K |-> IF k \in K THEN g ELSE placement[k]]
      /\ UNCHANGED <<fs, workspaces, forgotten, focus, cmd>>
  BY DEF Assign
<1>4. placement \in [DOMAIN placement -> Groups] /\ References \subseteq Keys(workspaces)
  BY DEF IInv, TypeOK, OverlaySelected
<1> HIDE DEF K
<1>5. placement' \in [DOMAIN placement' -> Groups]
  BY <1>3, <1>4
<1>6. References' \subseteq Keys(workspaces)
  BY <1>2, <1>3, <1>4 DEF References
<1> QED
  BY <1>3, <1>5, <1>6, OverlayMoves

\* Taking a pointer out of its group, and focusing on a selected one.
LEMMA UnassignKeeps ==
  ASSUME IInv, NEW p \in Paths, Unassign(p)
  PROVE  IInv'
<1>1. /\ placement' = [k \in DOMAIN placement \ Keys(SelectedAt(p)) |-> placement[k]]
      /\ UNCHANGED <<fs, workspaces, forgotten, focus, cmd>>
  BY DEF Unassign
<1>2. placement \in [DOMAIN placement -> Groups] /\ References \subseteq Keys(workspaces)
  BY DEF IInv, TypeOK, OverlaySelected
<1>3. placement' \in [DOMAIN placement' -> Groups]
  BY <1>1, <1>2
<1>4. References' \subseteq Keys(workspaces)
  BY <1>1, <1>2 DEF References
<1> QED
  BY <1>1, <1>3, <1>4, OverlayMoves

LEMMA FocusKeeps ==
  ASSUME IInv, NEW w \in workspaces, Focus(w)
  PROVE  IInv'
<1>1. focus' = Key(w) /\ UNCHANGED <<fs, workspaces, forgotten, placement, cmd>>
  BY DEF Focus
<1>2. placement \in [DOMAIN placement -> Groups] /\ References \subseteq Keys(workspaces)
  BY DEF IInv, TypeOK, OverlaySelected
<1>3. References' \subseteq Keys(workspaces)
  BY <1>1, <1>2 DEF References, Keys
<1> QED
  BY <1>1, <1>2, <1>3, OverlayMoves

-----------------------------------------------------------------------------
\* Every step keeps the invariant.
LEMMA NextInv == IInv /\ [Next]_vars => IInv'
<1> SUFFICES ASSUME IInv, [Next]_vars PROVE IInv'
  OBVIOUS
<1>1. ASSUME NEW p \in Paths, NEW d \in Dirs \cup {NoDir}, Relocate(p, d) PROVE IInv'
  BY <1>1, RelocateKeeps
<1>2. ASSUME NEW op \in {"exact", "recursive"}, NEW roots \in SUBSET Paths, Scan(op, roots)
      PROVE  IInv'
  BY <1>2, ScanKeeps
<1>3. ASSUME NEW p \in Paths, Look(p) PROVE IInv'
  BY <1>3, LookKeeps
<1>4. CASE Read
  BY <1>4, ReadKeeps
<1>5. CASE SaveScan
  BY <1>5, SaveScanKeeps
<1>6. ASSUME NEW p \in Paths, Clear(p) PROVE IInv'
  BY <1>6, ClearKeeps
<1>7. ASSUME NEW p \in Paths, Forget(p) PROVE IInv'
  BY <1>7, ForgetKeeps
<1>8. ASSUME NEW p \in Paths, ReAdd(p) PROVE IInv'
  BY <1>8, ReAddKeeps
<1>9. CASE SaveReAdd
  BY <1>9, SaveReAddKeeps
<1>10. CASE Interrupt
  BY <1>10, RefuseKeeps DEF Interrupt
<1>11. ASSUME NEW p \in Paths, NEW g \in Groups, Assign(p, g) PROVE IInv'
  BY <1>11, AssignKeeps
<1>12. ASSUME NEW p \in Paths, Unassign(p) PROVE IInv'
  BY <1>12, UnassignKeeps
<1>13. ASSUME NEW w \in workspaces, Focus(w) PROVE IInv'
  BY <1>13, FocusKeeps
<1>14. CASE UNCHANGED vars
  <2>1. UNCHANGED <<fs, workspaces, forgotten, cmd, placement, focus>>
    BY <1>14 DEF vars
  <2>2. placement' \in [DOMAIN placement' -> Groups] /\ References' \subseteq Keys(workspaces)
    BY <2>1 DEF IInv, TypeOK, OverlaySelected, References
  <2> QED
    BY <2>1, <2>2, OverlayMoves
<1> QED
  BY <1>1, <1>2, <1>3, <1>4, <1>5, <1>6, <1>7, <1>8, <1>9, <1>10, <1>11, <1>12, <1>13, <1>14
  DEF Next

\* The invariant holds of every behavior of the manager and its directories.
THEOREM RoutingInvariance == Spec => []IInv
<1>1. Init => IInv
  BY InitInv
<1>2. IInv /\ [Next]_vars => IInv'
  BY NextInv
<1> QED
  BY <1>1, <1>2, PTL DEF Spec

\* The registry, the overlay and the command in progress keep their types.
THEOREM RoutingTypeCorrect == Spec => []TypeOK
<1>1. IInv => TypeOK
  BY DEF IInv
<1> QED
  BY <1>1, RoutingInvariance, PTL

\* What the owner forgot is not selected again without a re-add, however the
\* directories are swapped between the looks of a scan (local_suppressed).
THEOREM SuppressedStaysOutHolds == Spec => []SuppressedStaysOut
<1>1. IInv => SuppressedStaysOut
  BY DEF IInv
<1> QED
  BY <1>1, RoutingInvariance, PTL

\* No path and no identity names two pointers (selected_local_pointer).
THEOREM OneRouteHolds == Spec => []OneRoute
<1>1. IInv => OneRoute
  BY DEF IInv
<1> QED
  BY <1>1, RoutingInvariance, PTL

\* The overlay refers to selected pointers only (replace_local_workspaces).
THEOREM OverlaySelectedHolds == Spec => []OverlaySelected
<1>1. IInv => OverlaySelected
  BY DEF IInv
<1> QED
  BY <1>1, RoutingInvariance, PTL

-----------------------------------------------------------------------------
\* A commit that keeps all tombstones gives up none.
LEMMA CommitDrops ==
  ASSUME NEW new, NEW tombs, Commit(new, tombs), NEW t \in forgotten, t \notin forgotten'
  PROVE  workspaces' = new /\ forgotten' = tombs /\ t \notin tombs /\ UNCHANGED fs
  BY DEF Commit, registry

\* A tombstone is given up only for a pointer to its place or directory.
THEOREM TombstonesAnsweredHolds == Spec => TombstonesAnswered
<1> DEFINE Answered ==
      \A t \in forgotten \ forgotten' :
         \E w \in workspaces' : w.id = t.id \/ SameLocation(w.path, t.path)
<1>1. ASSUME [Next]_vars PROVE Answered
  <2> SUFFICES ASSUME NEW t \in forgotten, t \notin forgotten'
               PROVE  \E w \in workspaces' : w.id = t.id \/ SameLocation(w.path, t.path)
    OBVIOUS
  <2>1. SaveReAdd
    <3>1. ~(\E p \in Paths : Clear(p))
      BY CommitDrops DEF Clear
    <3>2. ~(\E p \in Paths : Forget(p))
      <4> SUFFICES ASSUME NEW p \in Paths, Forget(p) PROVE FALSE
        OBVIOUS
      <4>1. PICK T \in SUBSET {TombstoneOf(w, p) : w \in Matched(p)} :
              Commit(workspaces \ Matched(p), forgotten \cup T)
        BY DEF Forget
      <4>2. t \notin forgotten \cup T
        BY <4>1, CommitDrops
      <4> QED
        BY <4>2
    <3>3. ~SaveScan
      BY CommitDrops DEF SaveScan
    <3>4. ~(\E p \in Paths : Look(p)) /\ ~Read /\ ~Interrupt
      BY DEF Look, Read, Interrupt, Refuse, registry
    <3>5. forgotten' # forgotten
      OBVIOUS
    <3>6. /\ ~(\E p \in Paths, d \in Dirs \cup {NoDir} : Relocate(p, d))
          /\ ~(\E op \in {"exact", "recursive"}, roots \in SUBSET Paths : Scan(op, roots))
          /\ ~(\E p \in Paths : ReAdd(p))
          /\ ~(\E p \in Paths, g \in Groups : Assign(p, g))
          /\ ~(\E p \in Paths : Unassign(p))
          /\ ~(\E w \in workspaces : Focus(w))
          /\ ~UNCHANGED vars
      BY <3>5 DEF Relocate, Scan, ReAdd, Assign, Unassign, Focus, vars, registry
    <3> QED
      BY <1>1, <3>1, <3>2, <3>3, <3>4, <3>6 DEF Next
  <2> DEFINE n == [path |-> cmd.path, id |-> fs[cmd.path], selection |-> "exact"]
  <2>2. ~Refuse
    BY DEF Refuse, registry
  <2>3. Commit((workspaces \ cmd.found) \cup {n}, forgotten \ Lifted(cmd.path))
    BY <2>1, <2>2 DEF SaveReAdd
  <2>4. n \in workspaces' /\ t \in Lifted(cmd.path)
    BY <2>3, CommitDrops
  <2>5. n.id = t.id \/ SameLocation(n.path, t.path)
    BY <2>4 DEF Lifted, MatchesTombstone, MatchesLocal, SameLocation
  <2> QED
    BY <2>4, <2>5
<1>2. [Next]_vars => [Answered]_vars
  BY <1>1
<1> QED
  BY <1>2, PTL DEF Spec, TombstonesAnswered

-----------------------------------------------------------------------------
\* A step after which each placement is of the directory it was of.
Follows ==
    \A k \in DOMAIN placement' :
       \/ k \in DOMAIN placement /\ placement'[k] = placement[k]
       \/ workspaces' = workspaces
       \/ /\ k \in Dirs
          /\ \E w \in workspaces :
                /\ w.id = NoDir /\ w.path \in DOMAIN placement
                /\ \/ fs[w.path] = k
                   \/ \E n \in workspaces' : Key(n) = k /\ n.path = w.path
                /\ placement'[k] = placement[w.path]

\* A reference is carried over to itself, or from a version 1 pointer to what
\* is at its path or is selected there.
LEMMA SuccessorIs ==
  ASSUME IInv, NEW new, new \subseteq Pointer, NEW j \in DOMAIN placement,
         NEW k \in Successors(j, new), k # j
  PROVE  /\ k \in Dirs
         /\ \E w \in workspaces :
               /\ w.id = NoDir /\ w.path = j
               /\ \/ fs[w.path] = k
                  \/ \E n \in new : Key(n) = k /\ n.path = w.path
<1> DEFINE o == CHOOSE o \in workspaces : Key(o) = j
<1>1. j \notin Keys(new)
  BY DEF Successors
<1>2. k \in Keys({n \in new : IF o.id # NoDir THEN n.id = o.id
                                ELSE n.path = o.path \/ (fs[o.path] # NoDir /\ n.id = fs[o.path])})
  BY <1>1 DEF Successors
<1>3. o \in workspaces /\ Key(o) = j
  <2>1. j \in Keys(workspaces)
    BY DEF IInv, OverlaySelected, References
  <2>2. \E w \in workspaces : Key(w) = j
    BY <2>1 DEF Keys
  <2> QED
    BY <2>2
<1> HIDE DEF o
<1>4. PICK n \in new :
         /\ Key(n) = k
         /\ IF o.id # NoDir THEN n.id = o.id
            ELSE n.path = o.path \/ (fs[o.path] # NoDir /\ n.id = fs[o.path])
  BY <1>2 DEF Keys
<1>5. k \in Keys(new)
  BY <1>4 DEF Keys
<1>6. o.id = NoDir /\ o.path = j
  BY <1>1, <1>3, <1>4, <1>5 DEF Key
<1>7. n.id # NoDir
  BY <1>1, <1>4, <1>5, <1>6 DEF Key
<1>8. n.id \in Dirs /\ k = n.id
  BY <1>4, <1>7 DEF Pointer, Key
<1> QED
  BY <1>3, <1>4, <1>6, <1>8

\* A command that replaces the selection carries the placements over.
LEMMA CommitFollows ==
  ASSUME IInv, TypeOK', NEW new, NEW tombs, Commit(new, tombs)
  PROVE  Follows
<1>1. CASE ~Accepted(new, tombs)
  BY <1>1 DEF Commit, registry, Follows
<1>2. CASE Accepted(new, tombs)
  <2>1. workspaces' = new /\ placement' = Carry(new) /\ new \subseteq Pointer
    BY <1>2 DEF Commit, TypeOK
  <2> SUFFICES ASSUME NEW k \in DOMAIN placement'
               PROVE  \/ k \in DOMAIN placement /\ placement'[k] = placement[k]
                      \/ /\ k \in Dirs
                         /\ \E w \in workspaces :
                               /\ w.id = NoDir /\ w.path \in DOMAIN placement
                               /\ \/ fs[w.path] = k
                                  \/ \E n \in workspaces' : Key(n) = k /\ n.path = w.path
                               /\ placement'[k] = placement[w.path]
    BY DEF Follows
  <2> DEFINE j == CHOOSE j \in DOMAIN placement : k \in Successors(j, new)
  <2>2. \E i \in DOMAIN placement : k \in Successors(i, new)
    BY <2>1 DEF Carry
  <2>3. j \in DOMAIN placement /\ k \in Successors(j, new)
    BY <2>2
  <2>4. placement'[k] = placement[j]
    BY <2>1 DEF Carry
  <2> HIDE DEF j
  <2>5. CASE k = j
    BY <2>3, <2>4, <2>5
  <2>6. CASE k # j
    BY <2>1, <2>3, <2>4, <2>6, SuccessorIs
  <2> QED
    BY <2>5, <2>6
<1> QED
  BY <1>1, <1>2

\* A placement follows one directory, and what is selected anew is in no group
\* (local_pointer_remap, replace_local_workspaces).
THEOREM PlacementFollowsHolds == Spec => PlacementFollows
<1>1. ASSUME IInv, TypeOK', [Next]_vars PROVE Follows
  <2>1. ASSUME UNCHANGED workspaces PROVE Follows
    BY <2>1 DEF Follows
  <2>2. CASE Refuse
    BY <2>1, <2>2 DEF Refuse, registry
  <2>3. ASSUME NEW p \in Paths, Look(p) PROVE Follows
    BY <2>1, <2>2, <2>3 DEF Look, registry
  <2>4. CASE Read
    BY <2>1, <2>2, <2>4 DEF Read, registry
  <2>5. CASE SaveScan
    BY <1>1, <2>5, CommitFollows DEF SaveScan
  <2>6. ASSUME NEW p \in Paths, Clear(p) PROVE Follows
    BY <1>1, <2>6, CommitFollows DEF Clear
  <2>7. ASSUME NEW p \in Paths, Forget(p) PROVE Follows
    <3>1. PICK T \in SUBSET {TombstoneOf(w, p) : w \in Matched(p)} :
            Commit(workspaces \ Matched(p), forgotten \cup T)
      BY <2>7 DEF Forget
    <3> QED
      BY <1>1, <3>1, CommitFollows
  <2>8. CASE SaveReAdd
    BY <1>1, <2>2, <2>8, CommitFollows DEF SaveReAdd
  <2>9. ASSUME \/ \E p \in Paths, d \in Dirs \cup {NoDir} : Relocate(p, d)
               \/ \E op \in {"exact", "recursive"}, roots \in SUBSET Paths : Scan(op, roots)
               \/ \E p \in Paths : ReAdd(p)
               \/ \E p \in Paths, g \in Groups : Assign(p, g)
               \/ \E p \in Paths : Unassign(p)
               \/ \E w \in workspaces : Focus(w)
               \/ UNCHANGED vars
        PROVE  Follows
    BY <2>1, <2>9 DEF Relocate, Scan, ReAdd, Assign, Unassign, Focus, vars, registry
  <2> QED
    BY <1>1, <2>2, <2>3, <2>4, <2>5, <2>6, <2>7, <2>8, <2>9 DEF Next, Interrupt
<1>2. IInv /\ [Next]_vars => TypeOK'
  BY NextInv DEF IInv
<1>3. IInv /\ [Next]_vars => [Follows]_vars
  BY <1>1, <1>2
<1> QED
  BY <1>3, RoutingInvariance, PTL DEF Spec, PlacementFollows, Follows
=============================================================================
