-------------------------- MODULE ProviderPartition --------------------------
(***************************************************************************)
(* One provider's partition of a manager's registry and the commands that  *)
(* change it (tools/workspace_manager.py: refresh_provider,                *)
(* provider_action, remap_native_identities; tools/native_ai.py:           *)
(* scan_provider and Copilot's checkpointed inventory, _copilot).          *)
(*                                                                         *)
(* manager_lock lets one command run at a time.  The profile directories   *)
(* belong to the native program and to the owner: they are moved, replaced *)
(* and aliased, and sessions come and go, between any two looks.  A        *)
(* provider that is read at once is the case of a Batch that takes it all. *)
(* GrokBot's observations, the words of the status and the metadata of a   *)
(* session are left out.                                                   *)
(***************************************************************************)
EXTENDS Naturals, FiniteSets

CONSTANTS Paths,      \* absolute spellings of profile roots
          Dirs,       \* filesystem identities of directories
          Names,      \* native session identifiers
          NoDir,      \* no directory there; no identity recorded
          NoPending,  \* no checkpoint
          Batch,      \* sessions read by one refresh; batch_size in the code
          MaxHistory, \* namespaces remembered: 64 in the code
          MaxTurns    \* a bound on moves, sessions, choices and refreshes

ASSUME PartitionAssumption ==
    /\ NoDir \notin Dirs /\ Paths \cap Dirs = {} /\ NoDir \notin Paths
    /\ Batch \in Nat \ {0} /\ MaxHistory \in Nat /\ MaxTurns \in Nat

VARIABLES fs,        \* fs[p]: the directory found at p
          sessions,  \* sessions[d]: names of the native sessions in directory d
          catalog,   \* the last good candidates
          selected,  \* keys the owner selected
          forgotten, \* keys the owner suppressed
          known,     \* profileRoots, each with its saved identity, NoDir for none
          history,   \* profileHistory
          pending,   \* checkpoint of the inventory of requestedRoots in progress
          cmd,       \* the refresh that holds manager_lock
          turns      \* moves, sessions, choices and refreshes so far

world == <<fs, sessions>>
lastGood == <<catalog, selected, forgotten, known, history>>
partition == <<lastGood, pending>>
vars == <<world, partition, cmd, turns>>

(***************************************************************************)
(* A version 1 key hashes the spelling of the profile root, a version 2    *)
(* key its identity; both hash the native session's own identifier.        *)
(***************************************************************************)
KeyOf(space, n) == [space |-> space, name |-> n]
AllKeys == [space : Paths \cup Dirs, name : Names]
Item == [root : Paths, id : Dirs \cup {NoDir}, name : Names]
Key(i) == KeyOf(IF i.id = NoDir THEN i.root ELSE i.id, i.name)
Keys(S) == {Key(i) : i \in S}

Namespace == [path : Paths, id : Dirs \cup {NoDir}]
Inventory == [dir : Dirs, names : SUBSET Names]

Present(p) == fs[p] # NoDir
SameLocation(p, q) == p = q \/ (fs[p] # NoDir /\ fs[p] = fs[q])

\* One directory under each of these roots: unique_directories.
OnePerDirectory(roots) == \A p, q \in roots : fs[p] = fs[q] => p = q

NoCommand == [step |-> "none", asked |-> {}, roots |-> {}, ids |-> <<>>, inv |-> <<>>,
              staged |-> {}]

\* A provider nobody refreshed yet, or a partition of version 1: choices made
\* under spellings, whose sessions the last refresh no longer found.
Init ==
    /\ fs \in [Paths -> Dirs \cup {NoDir}]
    /\ sessions \in [Dirs -> SUBSET Names]
    /\ \E roots \in SUBSET Paths, sel, gone \in SUBSET [space : Paths, name : Names] :
          /\ sel \cap gone = {}
          /\ known = [p \in roots |-> NoDir]
          /\ selected = sel /\ forgotten = gone
    /\ catalog = {} /\ history = {}
    /\ pending = NoPending
    /\ cmd = NoCommand
    /\ turns = 0

Turn == turns < MaxTurns /\ turns' = turns + 1

Relocate(p, d) ==
    /\ fs[p] # d
    /\ Turn
    /\ fs' = [fs EXCEPT ![p] = d]
    /\ UNCHANGED <<sessions, partition, cmd>>

\* The native program starts a session, or drops one.
Session(d, n) ==
    /\ Turn
    /\ sessions' = [sessions EXCEPT ![d] = IF n \in @ THEN @ \ {n} ELSE @ \cup {n}]
    /\ UNCHANGED <<fs, partition, cmd>>

-----------------------------------------------------------------------------
(***************************************************************************)
(* refresh_provider takes the lock with the roots that were supplied or    *)
(* requested before; scan_provider keeps one of the spellings of each      *)
(* directory and records the identity of each root.                        *)
(***************************************************************************)
Begin(asked) ==
    /\ cmd.step = "none" /\ Turn
    /\ cmd' = [NoCommand EXCEPT !.step = "resolve", !.asked = asked]
    /\ UNCHANGED <<world, partition>>

Resolve ==
    /\ cmd.step = "resolve"
    /\ cmd.asked # {}
    /\ \A p \in cmd.asked : Present(p)
    /\ \E roots \in SUBSET cmd.asked :
          /\ OnePerDirectory(roots)
          /\ {fs[p] : p \in roots} = {fs[p] : p \in cmd.asked}
          /\ cmd' = [cmd EXCEPT !.step = "identify", !.roots = roots]
    /\ UNCHANGED <<world, partition, turns>>

Identify ==
    /\ cmd.step = "identify"
    /\ \A r \in cmd.roots : Present(r)
    /\ cmd' = [cmd EXCEPT !.step = "list", !.ids = [r \in cmd.roots |-> fs[r]]]
    /\ UNCHANGED <<world, partition, turns>>

\* The checkpoint is of the roots that are asked for: it goes on from there.
Resumable == pending # NoPending /\ cmd.asked = DOMAIN pending.inv

Resume ==
    /\ cmd.step = "list" /\ Resumable
    /\ cmd.roots = DOMAIN pending.inv
    /\ cmd' = [cmd EXCEPT !.step = "verify", !.inv = pending.inv, !.staged = pending.staged]
    /\ UNCHANGED <<world, partition, turns>>

\* A slip: what a checkpoint read is kept when its inventory is made anew.
ListAnew(r) ==
    /\ cmd.step = "list" /\ ~Resumable /\ \A q \in cmd.roots : Present(q)
    /\ cmd' = [cmd EXCEPT !.inv = [q \in cmd.roots |-> [dir |-> fs[q], names |-> sessions[fs[q]]]],
                          !.staged = IF pending = NoPending THEN {}
                                     ELSE {e \in pending.staged : e[1] \in cmd.roots},
                          !.step = "verify"]
    /\ UNCHANGED <<world, partition, turns>>
\* child_directories of a root, then its identity: one look, since Verify never
\* accepts the names of one directory with the identity of another.
List(r) ==
    /\ cmd.step = "list" /\ ~Resumable
    /\ r \in cmd.roots \ DOMAIN cmd.inv /\ Present(r)
    /\ LET inv == [q \in DOMAIN cmd.inv \cup {r} |->
                      IF q = r THEN [dir |-> fs[r], names |-> sessions[fs[r]]] ELSE cmd.inv[q]]
       IN  cmd' = [cmd EXCEPT !.inv = inv,
                              !.step = IF DOMAIN inv = cmd.roots THEN "verify" ELSE "list"]
    /\ UNCHANGED <<world, partition, turns>>

\* The root is, and holds, what was inventoried.  The code compares the stamps
\* of session-state, so it also refuses a session that went and came back.
Unchanged(r, i) == fs[r] = i.dir /\ sessions[i.dir] = i.names

\* The inventories are compared with the directories before they are used ...
Verify ==
    /\ cmd.step = "verify"
    /\ \A r \in cmd.roots : Unchanged(r, cmd.inv[r])
    /\ cmd' = [cmd EXCEPT !.step = "read"]
    /\ UNCHANGED <<world, partition, turns>>

Entries(inv) == UNION {{<<r, n>> : n \in inv[r].names} : r \in DOMAIN inv}
Least(a, b) == IF a <= b THEN a ELSE b

\* One batch of metadata files, each read or found missing.
ReadBatch ==
    /\ cmd.step = "read"
    /\ LET todo == Entries(cmd.inv) \ cmd.staged
       IN  \E B \in SUBSET todo :
              /\ Cardinality(B) = Least(Batch, Cardinality(todo))
              /\ cmd' = [cmd EXCEPT !.step = "check", !.staged = @ \cup B]
    /\ UNCHANGED <<world, partition, turns>>

\* ... and again afterwards.
Check ==
    /\ cmd.step = "check"
    /\ \A r \in cmd.roots : Unchanged(r, cmd.inv[r])
    /\ cmd' = [cmd EXCEPT !.step = "confirm"]
    /\ UNCHANGED <<world, partition, turns>>

Candidates == {[root |-> e[1], id |-> cmd.inv[e[1]].dir, name |-> e[2]] : e \in cmd.staged}

\* A slip: an inventory is complete once it has read something.
CompleteEnough == cmd.staged # {} \/ Entries(cmd.inv) = {}
\* Whether every entry of every root's inventory was read.
Complete == cmd.staged = Entries(cmd.inv)

\* A slip: the keys of the candidates are not compared.
ConfirmKeyless ==
    /\ cmd.step = "confirm"
    /\ \A i \in Candidates : i.id = cmd.ids[i.root]
    /\ \A r \in cmd.roots : fs[r] = cmd.ids[r]
    /\ cmd' = [cmd EXCEPT !.step = "merge"]
    /\ UNCHANGED <<world, partition, turns>>
\* scan_provider's last looks: no session twice, and every root still the one
\* it was when the scan began.
Confirm ==
    /\ cmd.step = "confirm"
    /\ Complete => \A i, j \in Candidates : Key(i) = Key(j) => i = j
    /\ \A i \in Candidates : i.id = cmd.ids[i.root]
    /\ \A r \in cmd.roots : fs[r] = cmd.ids[r]
    /\ cmd' = [cmd EXCEPT !.step = "merge"]
    /\ UNCHANGED <<world, partition, turns>>

-----------------------------------------------------------------------------
(***************************************************************************)
(* remap_native_identities: what the owner selected or suppressed under a  *)
(* spelling of a profile root is carried over to its identity.             *)
(***************************************************************************)
Remembered ==
    history
    \cup {[path |-> p, id |-> known[p]] : p \in DOMAIN known}
    \cup {[path |-> r, id |-> cmd.ids[r]] : r \in cmd.roots}

Recorded(p) == {h.id : h \in {x \in Remembered : x.path = p}} \ {NoDir}

\* A slip: one identity recorded for a spelling is as good as another.
DoubtfulNever(p, r) == FALSE
\* Whether the spelling p says nothing certain of the directory at root r.
Doubtful(p, r) ==
    \/ \E d, e \in Recorded(p) : d # e
    \/ /\ SameLocation(p, r)
       /\ \E h \in Remembered : h.id \notin {NoDir, cmd.ids[r]} /\ SameLocation(h.path, r)

Equivalent(r) ==
    {h.path : h \in {x \in Remembered :
        /\ ~Doubtful(x.path, r)
        /\ x.id = cmd.ids[r] \/ (x.id = NoDir /\ SameLocation(x.path, r))}}
Uncertain(r) ==
    {h.path : h \in {x \in Remembered :
        Doubtful(x.path, r) /\ (x.id = cmd.ids[r] \/ SameLocation(x.path, r))}}

\* The keys a candidate may have been selected or suppressed under.
Sources(i) == {Key(i)} \cup {KeyOf(p, i.name) : p \in Equivalent(i.root)}

\* A slip: only two claims to one key are ambiguous.
AmbiguousClaims ==
    \E i, j \in Candidates :
       Key(i) # Key(j) /\ Sources(i) \cap Sources(j) \cap (forgotten \cup selected) # {}
\* native-identity-ambiguous
Ambiguous ==
    \/ \E i \in Candidates : \E p \in Uncertain(i.root) : KeyOf(p, i.name) \in forgotten
    \/ \E i, j \in Candidates :
          Key(i) # Key(j) /\ Sources(i) \cap Sources(j) \cap (forgotten \cup selected) # {}

Migrated(S) ==
    (S \ UNION {Sources(i) : i \in Candidates})
    \cup {Key(i) : i \in {c \in Candidates : Sources(c) \cap S # {}}}

\* The partition is replaced after a complete scan of all roots ...
Replace ==
    /\ cmd.step = "merge" /\ Complete
    /\ ~Ambiguous /\ Cardinality(Remembered) <= MaxHistory
    /\ forgotten' = Migrated(forgotten)
    /\ selected' = Migrated(selected) \ forgotten'
    /\ catalog' = {i \in Candidates : Key(i) \notin forgotten'}
    /\ known' = cmd.ids
    /\ history' = Remembered
    /\ pending' = NoPending
    /\ cmd' = NoCommand
    /\ UNCHANGED <<world, turns>>

\* ... an incomplete one is put aside ...
PutAside ==
    /\ cmd.step = "merge" /\ ~Complete
    /\ pending' = [inv |-> cmd.inv, staged |-> cmd.staged]
    /\ cmd' = NoCommand
    /\ UNCHANGED <<world, lastGood, turns>>

\* ... and whatever goes wrong, a budget or a size included, the last good
\* candidates and choices stay.
Fail ==
    /\ cmd.step # "none"
    /\ pending' = NoPending
    /\ cmd' = NoCommand
    /\ UNCHANGED <<world, lastGood, turns>>

\* The process dies before registry.json is replaced.
Interrupt ==
    /\ cmd.step # "none"
    /\ cmd' = NoCommand
    /\ UNCHANGED <<world, partition, turns>>

-----------------------------------------------------------------------------
(***************************************************************************)
(* provider_action: the owner's choices.                                   *)
(***************************************************************************)
Select(k) ==
    /\ cmd.step = "none" /\ Turn
    /\ k \in Keys(catalog) \ forgotten
    /\ selected' = selected \cup {k}
    /\ UNCHANGED <<world, catalog, forgotten, known, history, pending, cmd>>

ReAdd(k) ==
    /\ cmd.step = "none" /\ Turn
    /\ k \in Keys(catalog) \cup forgotten
    /\ forgotten' = forgotten \ {k}
    /\ selected' = selected \cup {k}
    /\ UNCHANGED <<world, catalog, known, history, pending, cmd>>

\* clear, clear-cache and forget of some keys, or of all there are.
Drop(targets, tombs) ==
    /\ cmd.step = "none" /\ Turn
    /\ catalog' = {i \in catalog : Key(i) \notin targets}
    /\ selected' = selected \ targets
    /\ forgotten' = forgotten \cup tombs
    /\ pending' = NoPending
    /\ UNCHANGED <<world, known, history, cmd>>

Clear(k) == k \in Keys(catalog) \cup selected /\ Drop({k}, {})
Forget(k) == k \in Keys(catalog) \cup selected /\ Drop({k}, {k})
ClearAll == Drop(Keys(catalog) \cup selected, {})
ForgetAll == Drop(Keys(catalog) \cup selected, Keys(catalog) \cup selected)

(***************************************************************************)
(* validate_registry and validate_pending.  A refusal would end a command  *)
(* with nothing saved; the steps above save without asking, and            *)
(* PartitionLoads says that there is never anything to refuse.             *)
(***************************************************************************)
Valid ==
    /\ selected \cap forgotten = {}
    /\ Keys(catalog) \cap forgotten = {}
    /\ \A i, j \in catalog : Key(i) = Key(j) => i = j
    /\ \A i \in catalog : i.root \in DOMAIN known /\ (i.id # NoDir => known[i.root] = i.id)
    /\ Cardinality(history) <= MaxHistory

ValidPending == pending.staged \subseteq Entries(pending.inv)

Refreshing ==
    \/ Resolve \/ Identify \/ Resume \/ Verify \/ ReadBatch \/ Check \/ Confirm
    \/ Replace \/ PutAside
    \/ \E r \in Paths : List(r)

Next ==
    \/ \E p \in Paths, d \in Dirs \cup {NoDir} : Relocate(p, d)
    \/ \E d \in Dirs, n \in Names : Session(d, n)
    \/ \E asked \in SUBSET Paths : Begin(asked)
    \/ Refreshing \/ Fail \/ Interrupt
    \/ \E k \in AllKeys : Select(k) \/ ReAdd(k) \/ Clear(k) \/ Forget(k)
    \/ ClearAll \/ ForgetAll

Spec == Init /\ [][Next]_vars

-----------------------------------------------------------------------------
TypeOK ==
    /\ fs \in [Paths -> Dirs \cup {NoDir}]
    /\ sessions \in [Dirs -> SUBSET Names]
    /\ catalog \subseteq Item
    /\ selected \subseteq AllKeys /\ forgotten \subseteq AllKeys
    /\ known \in [DOMAIN known -> Dirs \cup {NoDir}] /\ DOMAIN known \subseteq Paths
    /\ history \subseteq Namespace
    /\ pending = NoPending \/
          /\ DOMAIN pending = {"inv", "staged"}
          /\ pending.inv \in [DOMAIN pending.inv -> Inventory]
          /\ pending.staged \subseteq Entries(pending.inv)
    /\ cmd.step \in {"none", "resolve", "identify", "list", "verify", "read",
                    "check", "confirm", "merge"}

\* What every command saves passes validate_registry, which save_registry calls
\* first and the next load again: no command is lost at its last step, and no
\* manager is left that cannot be loaded.
PartitionLoads == Valid /\ (pending # NoPending => ValidPending)

\* A suppression is never lost: it ends by a re-add of its key, or a refresh
\* carries it over from a spelling to the one directory ever recorded for it.
SuppressionKept ==
    [][\A k \in forgotten \ forgotten' :
          \/ k \in selected'
          \/ /\ k.space \in Paths
             /\ \E d \in Dirs : /\ KeyOf(d, k.name) \in forgotten'
                                /\ Recorded(k.space) \subseteq {d}]_vars

\* A refresh gives nobody what it was not given: a key that becomes selected
\* or suppressed was so under a spelling for which no other directory was ever
\* recorded ("replacement objects do not inherit acceptance").
ChoiceFollowsIdentity ==
    [][Replace =>
          \A k \in (selected' \ selected) \cup (forgotten' \ forgotten) :
             \E p \in Paths :
                /\ KeyOf(p, k.name) \in (IF k \in selected' THEN selected ELSE forgotten)
                /\ Recorded(p) \subseteq {k.space}]_vars

\* What a completed refresh lists is not suppressed under the spelling of its
\* root either, whichever version the suppression is of.
NothingSuppressedListed ==
    [][Replace => \A i \in catalog' : KeyOf(i.root, i.name) \notin forgotten']_vars

\* A refresh that fails, is put aside or goes over several turns loses nothing of
\* the last good one, and one that completes only what it can account for.  A
\* selection is carried over to the one directory ever recorded for its spelling
\* or gives way to a suppression; it survives its session.  A candidate is found
\* suppressed, or a whole inventory, of all its batches, shows that its root was
\* not asked for, is another directory or has lost the session.
LastGoodKept ==
    [][cmd.step # "none" =>
          /\ \A k \in selected \ selected' :
                \/ k \in forgotten'
                \/ /\ k.space \in Paths
                   /\ \E d \in Dirs : /\ KeyOf(d, k.name) \in selected' \cup forgotten'
                                      /\ Recorded(k.space) \subseteq {d}
          /\ \A i \in catalog \ catalog' :
                \/ Key(i) \in forgotten'
                \/ i.root \notin cmd.roots
                \/ i.id # cmd.inv[i.root].dir
                \/ i.name \notin cmd.inv[i.root].names]_vars
=============================================================================
