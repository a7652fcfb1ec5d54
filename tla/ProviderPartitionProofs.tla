----------------------- MODULE ProviderPartitionProofs -----------------------
(***************************************************************************)
(* Proofs about ProviderPartition for any spellings, directories and       *)
(* sessions, any size of a batch and any limit of the history.             *)
(*                                                                         *)
(* The invariant says that the partition is one that loads, and that the   *)
(* refresh under way holds identities and inventories of the roots it is   *)
(* of.  What a refresh carries over rests on one lemma: whoever has an     *)
(* equivalent spelling has no identity recorded there but the root's own.  *)
(***************************************************************************)
EXTENDS ProviderPartition, FiniteSetTheorems, TLAPS

\* The steps of a refresh that have the roots' identities, and an inventory.
Inventoried == {"verify", "read", "check", "confirm", "merge"}
Identified == {"list"} \cup Inventoried

\* What Confirm has looked at.
Confirmed ==
    /\ Complete => \A i, j \in Candidates : Key(i) = Key(j) => i = j
    /\ \A i \in Candidates : i.id = cmd.ids[i.root]

\* The refresh under way: some of the roots asked for, an identity for each,
\* an inventory for each, and candidates out of it.
CommandOK ==
    /\ cmd = [step |-> cmd.step, asked |-> cmd.asked, roots |-> cmd.roots, ids |-> cmd.ids,
              inv |-> cmd.inv, staged |-> cmd.staged]
    /\ cmd.asked \subseteq Paths /\ cmd.roots \subseteq cmd.asked
    /\ cmd.step \in {"resolve", "identify"} => cmd.inv = <<>>
    /\ cmd.step \in {"resolve", "identify", "list"} => cmd.staged = {}
    /\ cmd.step \in Identified => cmd.ids \in [cmd.roots -> Dirs]
    /\ cmd.step = "list" => /\ cmd.inv \in [DOMAIN cmd.inv -> Inventory]
                            /\ DOMAIN cmd.inv \subseteq cmd.roots
    /\ cmd.step \in Inventoried => /\ cmd.inv \in [cmd.roots -> Inventory]
                                   /\ cmd.staged \subseteq Entries(cmd.inv)
    /\ cmd.step = "merge" => Confirmed

PartitionInv == TypeOK /\ PartitionLoads /\ CommandOK

-----------------------------------------------------------------------------
\* An entry is a session's name under the root that was inventoried.
LEMMA EntriesAre ==
  ASSUME NEW inv, NEW e
  PROVE  e \in Entries(inv) <=> \E r \in DOMAIN inv : \E n \in inv[r].names : e = <<r, n>>
BY DEF Entries

\* A candidate is a session that was read, with the identity inventoried.
LEMMA CandidatesAre ==
  ASSUME NEW i
  PROVE  i \in Candidates <=>
            \E e \in cmd.staged : i = [root |-> e[1], id |-> cmd.inv[e[1]].dir, name |-> e[2]]
BY DEF Candidates

\* The inventories of an inventoried refresh make candidates with the identity
\* of a directory, under a root, each with a version 2 key.
LEMMA CandidatesTyped ==
  ASSUME PartitionInv, cmd.step \in Inventoried, NEW i \in Candidates
  PROVE  /\ i \in Item /\ i.root \in cmd.roots /\ i.id \in Dirs /\ i.id = cmd.inv[i.root].dir
         /\ i.name \in cmd.inv[i.root].names
         /\ Key(i) = KeyOf(i.id, i.name) /\ Key(i) \in AllKeys
<1>1. PICK e \in cmd.staged :
         i = [root |-> e[1], id |-> cmd.inv[e[1]].dir, name |-> e[2]]
  BY CandidatesAre
<1>2. e \in Entries(cmd.inv) /\ cmd.inv \in [cmd.roots -> Inventory] /\ cmd.roots \subseteq Paths
  BY <1>1 DEF PartitionInv, CommandOK
<1>3. PICK r \in DOMAIN cmd.inv : \E n \in cmd.inv[r].names : e = <<r, n>>
  BY <1>2, EntriesAre
<1>4. PICK n \in cmd.inv[r].names : e = <<r, n>>
  BY <1>3
<1>5. r \in cmd.roots /\ cmd.inv[r] \in Inventory /\ i.root = r /\ i.name = n
      /\ i = [root |-> r, id |-> cmd.inv[r].dir, name |-> n]
  BY <1>1, <1>2, <1>3, <1>4
<1>6. i.id = cmd.inv[r].dir /\ i.id \in Dirs /\ n \in Names /\ n \in cmd.inv[r].names
  BY <1>4, <1>5 DEF Inventory
<1>7. i \in Item /\ i.root \in cmd.roots
  BY <1>2, <1>5, <1>6 DEF Item
<1>8. i.id # NoDir
  BY <1>6, PartitionAssumption
<1>9. Key(i) = KeyOf(i.id, i.name) /\ Key(i) \in AllKeys
  BY <1>5, <1>6, <1>8 DEF Key, KeyOf, AllKeys
<1> QED
  BY <1>5, <1>6, <1>7, <1>9

\* What is remembered is of spellings, and every root is.
LEMMA RememberedTyped ==
  ASSUME PartitionInv, cmd.step \in Identified
  PROVE  /\ Remembered \subseteq Namespace
         /\ \A r \in cmd.roots : [path |-> r, id |-> cmd.ids[r]] \in Remembered
<1>1. cmd.ids \in [cmd.roots -> Dirs] /\ cmd.roots \subseteq Paths
  BY DEF PartitionInv, CommandOK
<1>2. known \in [DOMAIN known -> Dirs \cup {NoDir}] /\ DOMAIN known \subseteq Paths
      /\ history \subseteq Namespace
  BY DEF PartitionInv, TypeOK
<1>3. \A p \in DOMAIN known : [path |-> p, id |-> known[p]] \in Namespace
  BY <1>2 DEF Namespace
<1>4. \A r \in cmd.roots : [path |-> r, id |-> cmd.ids[r]] \in Namespace
  BY <1>1 DEF Namespace
<1> QED
  BY <1>2, <1>3, <1>4 DEF Remembered

\* An equivalent spelling is remembered, and certain.
LEMMA EquivalentAre ==
  ASSUME NEW r, NEW p
  PROVE  p \in Equivalent(r) <=>
            \E h \in Remembered :
               /\ h.path = p /\ ~Doubtful(p, r)
               /\ h.id = cmd.ids[r] \/ (h.id = NoDir /\ SameLocation(p, r))
BY DEF Equivalent

\* No other directory was ever recorded for an equivalent spelling: it was
\* recorded for this one, or is this one now and no other was found there.
LEMMA EquivalentRecorded ==
  ASSUME PartitionInv, cmd.step \in Identified, NEW r \in cmd.roots, NEW p \in Equivalent(r)
  PROVE  p \in Paths /\ Recorded(p) \subseteq {cmd.ids[r]}
<1>1. PICK h \in Remembered :
         /\ h.path = p /\ ~Doubtful(p, r)
         /\ h.id = cmd.ids[r] \/ (h.id = NoDir /\ SameLocation(p, r))
  BY EquivalentAre
<1>2. p \in Paths /\ cmd.ids[r] \in Dirs /\ cmd.ids[r] # NoDir
  BY <1>1, RememberedTyped, PartitionAssumption DEF Namespace, PartitionInv, CommandOK
<1>3. \A d \in Recorded(p) : \E g \in Remembered : g.path = p /\ g.id = d /\ d # NoDir
  BY DEF Recorded
<1>4. CASE h.id = cmd.ids[r]
  <2>1. cmd.ids[r] \in Recorded(p)
    BY <1>1, <1>2, <1>4 DEF Recorded
  <2> QED
    BY <1>1, <1>2, <2>1 DEF Doubtful
<1>5. CASE SameLocation(p, r)
  BY <1>1, <1>2, <1>3, <1>5 DEF Doubtful
<1> QED
  BY <1>1, <1>2, <1>4, <1>5

\* The sources of a candidate's key: the key, and its name under equivalents.
LEMMA SourcesAre ==
  ASSUME NEW i, NEW k
  PROVE  k \in Sources(i) <=>
            k = Key(i) \/ \E p \in Equivalent(i.root) : k = KeyOf(p, i.name)
BY DEF Sources

\* What is migrated is what no candidate has a claim to, and the candidates'
\* keys that have a source there.
LEMMA MigratedIs ==
  ASSUME NEW S, NEW k
  PROVE  k \in Migrated(S) <=>
            \/ k \in S /\ \A i \in Candidates : k \notin Sources(i)
            \/ \E i \in Candidates : k = Key(i) /\ Sources(i) \cap S # {}
BY DEF Migrated

-----------------------------------------------------------------------------
\* A partition nobody refreshed loads.
LEMMA InitPartition == Init => PartitionInv
<1> SUFFICES ASSUME Init PROVE PartitionInv
  OBVIOUS
<1>1. PICK roots \in SUBSET Paths, sel \in SUBSET [space : Paths, name : Names],
           gone \in SUBSET [space : Paths, name : Names] :
        /\ sel \cap gone = {} /\ known = [p \in roots |-> NoDir]
        /\ selected = sel /\ forgotten = gone
  BY DEF Init
<1>2. /\ fs \in [Paths -> Dirs \cup {NoDir}] /\ sessions \in [Dirs -> SUBSET Names]
      /\ catalog = {} /\ history = {} /\ pending = NoPending /\ cmd = NoCommand
  BY DEF Init
<1>3. selected \subseteq AllKeys /\ forgotten \subseteq AllKeys
  BY <1>1 DEF AllKeys
<1>4. known \in [DOMAIN known -> Dirs \cup {NoDir}] /\ DOMAIN known \subseteq Paths
  BY <1>1
<1>5. TypeOK
  BY <1>2, <1>3, <1>4 DEF TypeOK, NoCommand
<1>6. Cardinality(history) \in Nat /\ Cardinality(history) = 0
  BY <1>2, FS_EmptySet
<1>7. PartitionLoads
  BY <1>1, <1>2, <1>6, PartitionAssumption DEF PartitionLoads, Valid, Keys
<1>8. CommandOK
  BY <1>2 DEF CommandOK, NoCommand, Identified, Inventoried
<1> QED
  BY <1>5, <1>7, <1>8 DEF PartitionInv

\* The refresh that is over, or never was, holds nothing.
LEMMA NoCommandOK ==
  ASSUME cmd' = NoCommand
  PROVE  CommandOK' /\ cmd'.step = "none"
BY DEF CommandOK, NoCommand, Identified, Inventoried

\* Directories and sessions change under the manager's feet.
LEMMA WorldStep ==
  ASSUME PartitionInv, UNCHANGED <<partition, cmd>>,
         fs' \in [Paths -> Dirs \cup {NoDir}], sessions' \in [Dirs -> SUBSET Names]
  PROVE  PartitionInv'
<1>1. TypeOK'
  BY DEF PartitionInv, TypeOK, partition, lastGood
<1>2. PartitionLoads'
  BY DEF PartitionInv, PartitionLoads, Valid, ValidPending, partition, lastGood
<1>3. CommandOK'
  BY DEF PartitionInv, CommandOK, Confirmed, Complete, Candidates
<1> QED
  BY <1>1, <1>2, <1>3 DEF PartitionInv

\* A step of a refresh that saves nothing.
LEMMA RefreshStep ==
  ASSUME PartitionInv, UNCHANGED <<world, partition>>, CommandOK',
         cmd'.step \in {"none", "resolve", "identify", "list", "verify", "read",
                        "check", "confirm", "merge"}
  PROVE  PartitionInv'
<1>1. TypeOK'
  BY DEF PartitionInv, TypeOK, world, partition, lastGood
<1>2. PartitionLoads'
  BY DEF PartitionInv, PartitionLoads, Valid, ValidPending, partition, lastGood
<1> QED
  BY <1>1, <1>2 DEF PartitionInv

\* The roots that are kept are some of those asked for.
LEMMA ResolveStep == ASSUME PartitionInv, Resolve PROVE PartitionInv'
<1>1. PICK roots \in SUBSET cmd.asked :
        cmd' = [cmd EXCEPT !.step = "identify", !.roots = roots]
  BY DEF Resolve
<1>2. cmd.step = "resolve" /\ UNCHANGED <<world, partition>> /\ CommandOK
  BY DEF Resolve, PartitionInv
<1>3. /\ cmd'.step = "identify" /\ cmd'.roots = roots /\ cmd'.asked = cmd.asked
      /\ cmd'.ids = cmd.ids /\ cmd'.inv = cmd.inv /\ cmd'.staged = cmd.staged
      /\ cmd' = [step |-> "identify", asked |-> cmd.asked, roots |-> roots, ids |-> cmd.ids,
                 inv |-> cmd.inv, staged |-> cmd.staged]
  BY <1>1, <1>2 DEF CommandOK
<1>4. CommandOK'
  BY <1>1, <1>2, <1>3 DEF CommandOK, Identified, Inventoried
<1> QED
  BY <1>2, <1>3, <1>4, RefreshStep

\* Each root is given the identity of the directory found there.
LEMMA IdentifyStep == ASSUME PartitionInv, Identify PROVE PartitionInv'
<1>1. /\ cmd.step = "identify" /\ \A r \in cmd.roots : fs[r] # NoDir
      /\ cmd' = [cmd EXCEPT !.step = "list", !.ids = [r \in cmd.roots |-> fs[r]]]
      /\ UNCHANGED <<world, partition>> /\ CommandOK
  BY DEF Identify, Present, PartitionInv
<1>2. /\ cmd'.step = "list" /\ cmd'.roots = cmd.roots /\ cmd'.asked = cmd.asked
      /\ cmd'.ids = [r \in cmd.roots |-> fs[r]] /\ cmd'.inv = cmd.inv /\ cmd'.staged = cmd.staged
      /\ cmd' = [step |-> "list", asked |-> cmd.asked, roots |-> cmd.roots,
                 ids |-> [r \in cmd.roots |-> fs[r]], inv |-> cmd.inv, staged |-> cmd.staged]
  BY <1>1 DEF CommandOK
<1>3. cmd'.ids \in [cmd.roots -> Dirs]
  BY <1>1, <1>2 DEF CommandOK, PartitionInv, TypeOK
<1>4. <<>> \in [DOMAIN <<>> -> Inventory] /\ DOMAIN <<>> \subseteq cmd.roots
  OBVIOUS
<1>5. CommandOK'
  BY <1>1, <1>2, <1>3, <1>4 DEF CommandOK, Identified, Inventoried
<1> QED
  BY <1>1, <1>2, <1>5, RefreshStep

\* A checkpoint is an inventory of the roots, and candidates out of it.
LEMMA ResumeStep == ASSUME PartitionInv, Resume PROVE PartitionInv'
<1>1. /\ cmd.step = "list" /\ cmd.roots = DOMAIN pending.inv /\ pending # NoPending
      /\ cmd' = [cmd EXCEPT !.step = "verify", !.inv = pending.inv, !.staged = pending.staged]
      /\ UNCHANGED <<world, partition>> /\ CommandOK
  BY DEF Resume, Resumable, PartitionInv
<1>2. pending.inv \in [cmd.roots -> Inventory] /\ pending.staged \subseteq Entries(pending.inv)
  BY <1>1 DEF PartitionInv, TypeOK
<1>3. /\ cmd'.step = "verify" /\ cmd'.roots = cmd.roots /\ cmd'.asked = cmd.asked
      /\ cmd'.ids = cmd.ids /\ cmd'.inv = pending.inv /\ cmd'.staged = pending.staged
      /\ cmd' = [step |-> "verify", asked |-> cmd.asked, roots |-> cmd.roots,
                 ids |-> cmd.ids, inv |-> pending.inv, staged |-> pending.staged]
  BY <1>1 DEF CommandOK
<1>4. CommandOK'
  BY <1>1, <1>2, <1>3 DEF CommandOK, Identified, Inventoried
<1> QED
  BY <1>1, <1>3, <1>4, RefreshStep

\* One more root is inventoried, until all are.
LEMMA ListStep == ASSUME PartitionInv, NEW r \in Paths, List(r) PROVE PartitionInv'
<1> DEFINE inv == [q \in DOMAIN cmd.inv \cup {r} |->
                     IF q = r THEN [dir |-> fs[r], names |-> sessions[fs[r]]] ELSE cmd.inv[q]]
           step == IF DOMAIN inv = cmd.roots THEN "verify" ELSE "list"
<1>1. /\ cmd.step = "list" /\ r \in cmd.roots /\ fs[r] # NoDir
      /\ cmd' = [cmd EXCEPT !.inv = inv, !.step = step]
      /\ UNCHANGED <<world, partition>> /\ CommandOK
  BY DEF List, Present, PartitionInv
<1>2. [dir |-> fs[r], names |-> sessions[fs[r]]] \in Inventory
  BY <1>1 DEF PartitionInv, TypeOK, Inventory
<1>3. cmd.inv \in [DOMAIN cmd.inv -> Inventory] /\ DOMAIN cmd.inv \subseteq cmd.roots
  BY <1>1 DEF CommandOK
<1>4. inv \in [DOMAIN inv -> Inventory] /\ DOMAIN inv \subseteq cmd.roots
  BY <1>1, <1>2, <1>3
<1> HIDE DEF inv
<1>5. /\ step = "verify" => inv \in [cmd.roots -> Inventory]
      /\ step \in {"list", "verify"}
  BY <1>4
<1>6. /\ cmd'.step = step /\ cmd'.roots = cmd.roots /\ cmd'.asked = cmd.asked
      /\ cmd'.ids = cmd.ids /\ cmd'.inv = inv /\ cmd'.staged = cmd.staged
      /\ cmd' = [step |-> step, asked |-> cmd.asked, roots |-> cmd.roots,
                 ids |-> cmd.ids, inv |-> inv, staged |-> cmd.staged]
  BY <1>1 DEF CommandOK
<1> HIDE DEF step
<1>7. CommandOK'
  BY <1>1, <1>4, <1>5, <1>6 DEF CommandOK, Identified, Inventoried
<1> QED
  BY <1>1, <1>5, <1>6, <1>7, RefreshStep

\* Looking again changes nothing but the step.
LEMMA LookStep ==
  ASSUME PartitionInv, Verify \/ Check
  PROVE  PartitionInv'
<1>1. PICK step \in {"read", "confirm"} : cmd' = [cmd EXCEPT !.step = step]
  BY DEF Verify, Check
<1>2. cmd.step \in {"verify", "check"} /\ UNCHANGED <<world, partition>> /\ CommandOK
  BY DEF Verify, Check, PartitionInv
<1>3. /\ cmd'.step = step /\ cmd'.roots = cmd.roots /\ cmd'.asked = cmd.asked
      /\ cmd'.ids = cmd.ids /\ cmd'.inv = cmd.inv /\ cmd'.staged = cmd.staged
      /\ cmd' = [step |-> step, asked |-> cmd.asked, roots |-> cmd.roots,
                 ids |-> cmd.ids, inv |-> cmd.inv, staged |-> cmd.staged]
  BY <1>1, <1>2 DEF CommandOK
<1>4. CommandOK'
  BY <1>1, <1>2, <1>3 DEF CommandOK, Identified, Inventoried
<1> QED
  BY <1>1, <1>2, <1>3, <1>4, RefreshStep

\* A batch is of entries of the inventory.
LEMMA ReadBatchStep == ASSUME PartitionInv, ReadBatch PROVE PartitionInv'
<1>1. PICK B \in SUBSET (Entries(cmd.inv) \ cmd.staged) :
        cmd' = [cmd EXCEPT !.step = "check", !.staged = @ \cup B]
  BY DEF ReadBatch
<1>2. cmd.step = "read" /\ UNCHANGED <<world, partition>> /\ CommandOK
  BY DEF ReadBatch, PartitionInv
<1>3. /\ cmd'.step = "check" /\ cmd'.roots = cmd.roots /\ cmd'.asked = cmd.asked
      /\ cmd'.ids = cmd.ids /\ cmd'.inv = cmd.inv /\ cmd'.staged = cmd.staged \cup B
      /\ cmd' = [step |-> "check", asked |-> cmd.asked, roots |-> cmd.roots,
                 ids |-> cmd.ids, inv |-> cmd.inv, staged |-> cmd.staged \cup B]
  BY <1>1, <1>2 DEF CommandOK
<1>4. cmd'.staged \subseteq Entries(cmd'.inv)
  BY <1>1, <1>2, <1>3 DEF CommandOK, Inventoried
<1>5. CommandOK'
  BY <1>1, <1>2, <1>3, <1>4 DEF CommandOK, Identified, Inventoried
<1> QED
  BY <1>2, <1>3, <1>5, RefreshStep

\* What is merged was confirmed.
LEMMA ConfirmStep == ASSUME PartitionInv, Confirm PROVE PartitionInv'
<1>1. /\ cmd.step = "confirm" /\ cmd' = [cmd EXCEPT !.step = "merge"]
      /\ UNCHANGED <<world, partition>> /\ CommandOK /\ Confirmed
  BY DEF Confirm, Confirmed, PartitionInv
<1>2. /\ cmd'.step = "merge" /\ cmd'.roots = cmd.roots /\ cmd'.asked = cmd.asked
      /\ cmd'.ids = cmd.ids /\ cmd'.inv = cmd.inv /\ cmd'.staged = cmd.staged
      /\ cmd' = [step |-> "merge", asked |-> cmd.asked, roots |-> cmd.roots,
                 ids |-> cmd.ids, inv |-> cmd.inv, staged |-> cmd.staged]
  BY <1>1 DEF CommandOK
<1>3. Candidates' = Candidates /\ (Complete' <=> Complete)
  BY <1>2 DEF Candidates, Complete
<1>4. Confirmed'
  BY <1>1, <1>2, <1>3 DEF Confirmed
<1>5. CommandOK'
  BY <1>1, <1>2, <1>4 DEF CommandOK, Identified, Inventoried
<1> QED
  BY <1>1, <1>2, <1>5, RefreshStep

\* A completed refresh leaves a partition that loads: one candidate for each
\* key, under a root that is known, and nothing that is suppressed.
LEMMA ReplaceStep == ASSUME PartitionInv, Replace PROVE PartitionInv'
<1>1. /\ cmd.step = "merge" /\ Complete /\ Cardinality(Remembered) <= MaxHistory
      /\ forgotten' = Migrated(forgotten) /\ selected' = Migrated(selected) \ forgotten'
      /\ catalog' = {i \in Candidates : Key(i) \notin forgotten'}
      /\ known' = cmd.ids /\ history' = Remembered /\ pending' = NoPending
      /\ cmd' = NoCommand /\ UNCHANGED <<fs, sessions>>
  BY DEF Replace, world
<1>2. Confirmed /\ cmd.ids \in [cmd.roots -> Dirs] /\ cmd.roots \subseteq Paths
  BY <1>1 DEF PartitionInv, CommandOK, Identified, Inventoried
<1>3. \A i \in Candidates : i \in Item /\ i.root \in cmd.roots /\ Key(i) \in AllKeys
  BY <1>1, CandidatesTyped DEF Inventoried
<1>4. forgotten \subseteq AllKeys /\ selected \subseteq AllKeys
  BY DEF PartitionInv, TypeOK
<1>5. forgotten' \subseteq AllKeys /\ selected' \subseteq AllKeys
  BY <1>1, <1>3, <1>4, MigratedIs
<1>6. Remembered \subseteq Namespace
  BY <1>1, RememberedTyped DEF Identified, Inventoried
<1>7. known' \in [DOMAIN known' -> Dirs \cup {NoDir}] /\ DOMAIN known' \subseteq Paths
  BY <1>1, <1>2
<1>8. CommandOK' /\ cmd'.step = "none"
  BY <1>1, NoCommandOK
<1>9. TypeOK'
  BY <1>1, <1>3, <1>5, <1>6, <1>7, <1>8 DEF PartitionInv, TypeOK
<1>10. \A i \in catalog' : i.root \in DOMAIN known' /\ known'[i.root] = i.id
  BY <1>1, <1>2, <1>3 DEF Confirmed
<1>11. \A i, j \in catalog' : Key(i) = Key(j) => i = j
  BY <1>1, <1>2 DEF Confirmed
<1>12. PartitionLoads'
  BY <1>1, <1>10, <1>11 DEF PartitionLoads, Valid, Keys
<1> QED
  BY <1>8, <1>9, <1>12 DEF PartitionInv

\* What is put aside is an inventory, and entries of it.
LEMMA PutAsideStep == ASSUME PartitionInv, PutAside PROVE PartitionInv'
<1>1. /\ cmd.step = "merge" /\ pending' = [inv |-> cmd.inv, staged |-> cmd.staged]
      /\ cmd' = NoCommand /\ UNCHANGED <<fs, sessions, catalog, selected, forgotten, known, history>>
  BY DEF PutAside, world, lastGood
<1>2. cmd.inv \in [cmd.roots -> Inventory] /\ cmd.staged \subseteq Entries(cmd.inv)
  BY <1>1 DEF PartitionInv, CommandOK, Inventoried
<1>3. CommandOK' /\ cmd'.step = "none"
  BY <1>1, NoCommandOK
<1>4. /\ DOMAIN pending' = {"inv", "staged"}
      /\ pending'.inv \in [DOMAIN pending'.inv -> Inventory]
      /\ pending'.staged \subseteq Entries(pending'.inv)
  BY <1>1, <1>2
<1>5. TypeOK'
  BY <1>1, <1>3, <1>4 DEF PartitionInv, TypeOK
<1>6. PartitionLoads'
  BY <1>1, <1>4 DEF PartitionInv, PartitionLoads, Valid, ValidPending
<1> QED
  BY <1>3, <1>5, <1>6 DEF PartitionInv

\* A refresh that ends with nothing, or without its checkpoint.
LEMMA GiveUpStep ==
  ASSUME PartitionInv, cmd' = NoCommand, UNCHANGED <<world, lastGood>>,
         pending' \in {pending, NoPending}
  PROVE  PartitionInv'
<1>1. CommandOK' /\ cmd'.step = "none"
  BY NoCommandOK
<1>2. TypeOK'
  BY <1>1 DEF PartitionInv, TypeOK, world, lastGood
<1>3. PartitionLoads'
  BY DEF PartitionInv, PartitionLoads, Valid, ValidPending, lastGood
<1> QED
  BY <1>1, <1>2, <1>3 DEF PartitionInv

\* A new refresh has the roots that were asked for.
LEMMA BeginStep == ASSUME PartitionInv, NEW asked \in SUBSET Paths, Begin(asked) PROVE PartitionInv'
<1>1. /\ cmd' = [step |-> "resolve", asked |-> asked, roots |-> {}, ids |-> <<>>,
                 inv |-> <<>>, staged |-> {}]
      /\ UNCHANGED <<world, partition>>
  BY DEF Begin, NoCommand
<1>2. CommandOK' /\ cmd'.step = "resolve"
  BY <1>1 DEF CommandOK, Identified, Inventoried
<1> QED
  BY <1>1, <1>2, RefreshStep

\* The owner's choices move keys between the two sets, and take candidates out.
LEMMA ChoiceStep ==
  ASSUME PartitionInv, UNCHANGED <<world, known, history, cmd>>,
         pending' \in {pending, NoPending}, catalog' \subseteq catalog,
         selected' \subseteq AllKeys, forgotten' \subseteq AllKeys,
         selected' \cap forgotten' = {}, \A i \in catalog' : Key(i) \notin forgotten'
  PROVE  PartitionInv'
<1>1. TypeOK'
  BY DEF PartitionInv, TypeOK, world
<1>2. PartitionLoads'
  BY DEF PartitionInv, PartitionLoads, Valid, ValidPending, Keys
<1>3. CommandOK'
  BY DEF PartitionInv, CommandOK, Confirmed, Complete, Candidates
<1> QED
  BY <1>1, <1>2, <1>3 DEF PartitionInv

\* Dropping keys of the partition, some of them for good.
LEMMA DropStep ==
  ASSUME PartitionInv, NEW targets, NEW tombs, tombs \subseteq targets,
         tombs \subseteq AllKeys, Drop(targets, tombs)
  PROVE  PartitionInv'
<1>1. /\ catalog' = {i \in catalog : Key(i) \notin targets} /\ selected' = selected \ targets
      /\ forgotten' = forgotten \cup tombs /\ pending' = NoPending
      /\ UNCHANGED <<world, known, history, cmd>>
  BY DEF Drop
<1>2. selected \cap forgotten = {} /\ \A i \in catalog : Key(i) \notin forgotten
  BY DEF PartitionInv, PartitionLoads, Valid, Keys
<1>3. selected' \subseteq AllKeys /\ forgotten' \subseteq AllKeys
  BY <1>1 DEF PartitionInv, TypeOK
<1> QED
  BY <1>1, <1>2, <1>3, ChoiceStep

\* The owner's actions.
LEMMA OwnerStep ==
  ASSUME PartitionInv,
         \/ \E k \in AllKeys : Select(k) \/ ReAdd(k) \/ Clear(k) \/ Forget(k)
         \/ ClearAll \/ ForgetAll
  PROVE  PartitionInv'
<1>1. /\ selected \subseteq AllKeys /\ forgotten \subseteq AllKeys /\ selected \cap forgotten = {}
      /\ \A i \in catalog : Key(i) \notin forgotten
  BY DEF PartitionInv, TypeOK, PartitionLoads, Valid, Keys
<1>2. ASSUME NEW k \in AllKeys, Select(k) PROVE PartitionInv'
  BY <1>1, <1>2, ChoiceStep DEF Select
<1>3. ASSUME NEW k \in AllKeys, ReAdd(k) PROVE PartitionInv'
  BY <1>1, <1>3, ChoiceStep DEF ReAdd
<1>4. ASSUME NEW k \in AllKeys, Clear(k) \/ Forget(k) PROVE PartitionInv'
  BY <1>4, DropStep DEF Clear, Forget
<1>5. Keys(catalog) \cup selected \subseteq AllKeys
  BY <1>1, PartitionAssumption DEF PartitionInv, TypeOK, Keys, Key, KeyOf, Item, AllKeys
<1>6. ASSUME ClearAll \/ ForgetAll PROVE PartitionInv'
  BY <1>5, <1>6, DropStep DEF ClearAll, ForgetAll
<1> QED
  BY <1>2, <1>3, <1>4, <1>6

\* Every step keeps the invariant.
LEMMA NextPartition == PartitionInv /\ [Next]_vars => PartitionInv'
<1> SUFFICES ASSUME PartitionInv, [Next]_vars PROVE PartitionInv'
  OBVIOUS
<1>1. CASE UNCHANGED vars
  <2>1. UNCHANGED <<world, partition, cmd>>
    BY <1>1 DEF vars
  <2>2. fs' \in [Paths -> Dirs \cup {NoDir}] /\ sessions' \in [Dirs -> SUBSET Names]
    BY <2>1 DEF PartitionInv, TypeOK, world
  <2> QED
    BY <2>1, <2>2, WorldStep
<1>2. ASSUME NEW p \in Paths, NEW d \in Dirs \cup {NoDir}, Relocate(p, d) PROVE PartitionInv'
  BY <1>2, WorldStep DEF Relocate, PartitionInv, TypeOK
<1>3. ASSUME NEW d \in Dirs, NEW n \in Names, Session(d, n) PROVE PartitionInv'
  BY <1>3, WorldStep DEF Session, PartitionInv, TypeOK
<1>4. ASSUME \E asked \in SUBSET Paths : Begin(asked) PROVE PartitionInv'
  BY <1>4, BeginStep
<1>5. ASSUME Refreshing PROVE PartitionInv'
  BY <1>5, ResolveStep, IdentifyStep, ResumeStep, ListStep, LookStep, ReadBatchStep,
     ConfirmStep, ReplaceStep, PutAsideStep DEF Refreshing
<1>6. ASSUME Fail \/ Interrupt PROVE PartitionInv'
  BY <1>6, GiveUpStep DEF Fail, Interrupt, partition
<1> QED
  BY <1>1, <1>2, <1>3, <1>4, <1>5, <1>6, OwnerStep DEF Next

\* The invariant holds whatever is moved, replaced or started meanwhile.
THEOREM PartitionInvariance == Spec => []PartitionInv
BY InitPartition, NextPartition, PTL DEF Spec

\* The partition and the refresh under way keep their types.
THEOREM PartitionTypeCorrect == Spec => []TypeOK
<1>1. PartitionInv => TypeOK
  BY DEF PartitionInv
<1> QED
  BY <1>1, PartitionInvariance, PTL

\* What every command saves is accepted by the next load.
THEOREM PartitionLoadsHolds == Spec => []PartitionLoads
<1>1. PartitionInv => PartitionLoads
  BY DEF PartitionInv
<1> QED
  BY <1>1, PartitionInvariance, PTL

-----------------------------------------------------------------------------
\* A suppression ends by a re-add or by a refresh.
LEMMA WhoUnforgets ==
  ASSUME [Next]_vars, NEW k \in forgotten \ forgotten', k \notin selected'
  PROVE  Replace
<1>1. forgotten' # forgotten
  OBVIOUS
<1>2. ASSUME NEW j \in AllKeys, ReAdd(j) PROVE k \in selected'
  BY <1>2 DEF ReAdd
<1>3. ~\E targets, tombs : Drop(targets, tombs)
  BY DEF Drop
<1>4. CASE UNCHANGED vars
  BY <1>1, <1>4 DEF vars, partition, lastGood
<1>5. ASSUME \/ \E p \in Paths, d \in Dirs \cup {NoDir} : Relocate(p, d)
             \/ \E d \in Dirs, n \in Names : Session(d, n)
             \/ \E asked \in SUBSET Paths : Begin(asked)
             \/ Fail \/ Interrupt
      PROVE  FALSE
  BY <1>1, <1>5 DEF Relocate, Session, Begin, Fail, Interrupt, partition, lastGood
<1>6. ASSUME Refreshing PROVE Replace
  BY <1>1, <1>6 DEF Refreshing, Resolve, Identify, Resume, List, Verify, ReadBatch, Check,
                    Confirm, PutAside, partition, lastGood
<1>7. ASSUME NEW j \in AllKeys, Select(j) PROVE FALSE
  BY <1>1, <1>7 DEF Select
<1> QED
  BY <1>2, <1>3, <1>4, <1>5, <1>6, <1>7 DEF Next, Clear, Forget, ClearAll, ForgetAll

\* A key that a refresh carries over ends at the key of the one directory ever
\* recorded for its spelling.
LEMMA CarriedOver ==
  ASSUME PartitionInv, Replace, NEW i \in Candidates, NEW k \in Sources(i), k # Key(i)
  PROVE  /\ k.space \in Paths /\ k = KeyOf(k.space, i.name) /\ i.id \in Dirs
         /\ Key(i) = KeyOf(i.id, i.name) /\ Recorded(k.space) \subseteq {i.id}
<1>1. cmd.step = "merge" /\ cmd.step \in Inventoried /\ cmd.step \in Identified
  BY DEF Replace, Inventoried, Identified
<1>2. PICK p \in Equivalent(i.root) : k = KeyOf(p, i.name)
  BY SourcesAre
<1>3. i.root \in cmd.roots /\ i.id \in Dirs /\ Key(i) = KeyOf(i.id, i.name)
  BY <1>1, CandidatesTyped
<1>4. i.id = cmd.ids[i.root]
  BY <1>1 DEF PartitionInv, CommandOK, Confirmed
<1>5. p \in Paths /\ Recorded(p) \subseteq {cmd.ids[i.root]}
  BY <1>1, <1>3, EquivalentRecorded
<1>6. k.space = p
  BY <1>2 DEF KeyOf
<1> QED
  BY <1>2, <1>3, <1>4, <1>5, <1>6

\* What a refresh takes away it gives to the directory.
LEMMA ReplaceKeeps ==
  ASSUME PartitionInv, Replace, NEW k \in forgotten \ forgotten'
  PROVE  /\ k.space \in Paths
         /\ \E d \in Dirs : KeyOf(d, k.name) \in forgotten' /\ Recorded(k.space) \subseteq {d}
<1>1. forgotten' = Migrated(forgotten)
  BY DEF Replace
<1>2. PICK i \in Candidates : k \in Sources(i)
  BY <1>1, MigratedIs
<1>3. Sources(i) \cap forgotten # {}
  BY <1>2
<1>4. Key(i) \in forgotten'
  BY <1>1, <1>3, MigratedIs
<1>5. /\ k.space \in Paths /\ k = KeyOf(k.space, i.name) /\ i.id \in Dirs
      /\ Key(i) = KeyOf(i.id, i.name) /\ Recorded(k.space) \subseteq {i.id}
  BY <1>2, <1>4, CarriedOver
<1>6. k.name = i.name
  BY <1>5 DEF KeyOf
<1> QED
  BY <1>4, <1>5, <1>6

\* No suppression is lost, whatever moved between any two looks.
THEOREM SuppressionKeptHolds == Spec => SuppressionKept
<1>1. PartitionInv /\ [Next]_vars =>
        [\A k \in forgotten \ forgotten' :
            \/ k \in selected'
            \/ /\ k.space \in Paths
               /\ \E d \in Dirs : /\ KeyOf(d, k.name) \in forgotten'
                                  /\ Recorded(k.space) \subseteq {d}]_vars
  BY WhoUnforgets, ReplaceKeeps
<1> QED
  BY <1>1, PartitionInvariance, PTL DEF Spec, SuppressionKept

\* What a refresh gives a key was its own, or a spelling's of its directory.
LEMMA MigratedFrom ==
  ASSUME PartitionInv, Replace, NEW S, NEW k \in Migrated(S), k \notin S
  PROVE  \E p \in Paths : KeyOf(p, k.name) \in S /\ Recorded(p) \subseteq {k.space}
<1>1. PICK i \in Candidates : k = Key(i) /\ Sources(i) \cap S # {}
  BY MigratedIs
<1>2. PICK j \in Sources(i) : j \in S
  BY <1>1
<1>3. j # Key(i)
  BY <1>1, <1>2
<1>4. /\ j.space \in Paths /\ j = KeyOf(j.space, i.name)
      /\ Key(i) = KeyOf(i.id, i.name) /\ Recorded(j.space) \subseteq {i.id}
  BY <1>2, <1>3, CarriedOver
<1>5. k.name = i.name /\ k.space = i.id
  BY <1>1, <1>4 DEF KeyOf
<1> QED
  BY <1>2, <1>4, <1>5

\* Choices follow directories: a replaced one inherits none.
THEOREM ChoiceFollowsIdentityHolds == Spec => ChoiceFollowsIdentity
<1>1. ASSUME PartitionInv, Replace,
             NEW k \in (selected' \ selected) \cup (forgotten' \ forgotten)
      PROVE  \E p \in Paths :
                /\ KeyOf(p, k.name) \in (IF k \in selected' THEN selected ELSE forgotten)
                /\ Recorded(p) \subseteq {k.space}
  <2>1. forgotten' = Migrated(forgotten) /\ selected' = Migrated(selected) \ forgotten'
    BY <1>1 DEF Replace
  <2>2. CASE k \in selected'
    <3>1. k \in Migrated(selected) /\ k \notin selected
      BY <1>1, <2>1, <2>2
    <3> QED
      BY <1>1, <2>2, <3>1, MigratedFrom
  <2>3. CASE k \notin selected'
    <3>1. k \in Migrated(forgotten) /\ k \notin forgotten
      BY <1>1, <2>1, <2>3
    <3> QED
      BY <1>1, <2>3, <3>1, MigratedFrom
  <2> QED
    BY <2>2, <2>3
<1>2. PartitionInv /\ [Next]_vars =>
        [Replace =>
          \A k \in (selected' \ selected) \cup (forgotten' \ forgotten) :
             \E p \in Paths :
                /\ KeyOf(p, k.name) \in (IF k \in selected' THEN selected ELSE forgotten)
                /\ Recorded(p) \subseteq {k.space}]_vars
  BY <1>1
<1> QED
  BY <1>2, PartitionInvariance, PTL DEF Spec, ChoiceFollowsIdentity

\* The root's own spelling is equivalent to it or uncertain, and so no listed
\* session is suppressed under it.
THEOREM NothingSuppressedListedHolds == Spec => NothingSuppressedListed
<1>1. ASSUME PartitionInv, Replace, NEW i \in catalog'
      PROVE  KeyOf(i.root, i.name) \notin forgotten'
  <2> DEFINE k == KeyOf(i.root, i.name)
  <2>1. /\ forgotten' = Migrated(forgotten) /\ i \in Candidates /\ ~Ambiguous
        /\ cmd.step = "merge" /\ cmd.step \in Inventoried /\ cmd.step \in Identified
    BY <1>1 DEF Replace, Inventoried, Identified
  <2>2. i.root \in cmd.roots /\ i.root \in Paths /\ i.id = cmd.ids[i.root]
    BY <1>1, <2>1, CandidatesTyped DEF PartitionInv, CommandOK, Confirmed
  <2>3. [path |-> i.root, id |-> cmd.ids[i.root]] \in Remembered
    BY <1>1, <2>1, <2>2, RememberedTyped
  <2>4. ASSUME Doubtful(i.root, i.root) PROVE k \notin forgotten
    <3>1. i.root \in Uncertain(i.root)
      BY <2>3, <2>4 DEF Uncertain
    <3> QED
      BY <2>1, <3>1 DEF Ambiguous
  <2>5. ASSUME ~Doubtful(i.root, i.root) PROVE k \in Sources(i)
    <3>1. i.root \in Equivalent(i.root)
      BY <2>3, <2>5 DEF Equivalent
    <3> QED
      BY <3>1 DEF Sources
  <2>6. \A j \in Candidates : Key(j) # k
    <3> SUFFICES ASSUME NEW j \in Candidates PROVE Key(j) # k
      OBVIOUS
    <3>1. Key(j) = KeyOf(j.id, j.name) /\ j.id \in Dirs
      BY <1>1, <2>1, CandidatesTyped
    <3> QED
      BY <2>2, <3>1, PartitionAssumption DEF KeyOf
  <2> HIDE DEF k
  <2>7. k \notin Migrated(forgotten)
    BY <2>1, <2>4, <2>5, <2>6, MigratedIs
  <2> QED
    BY <2>1, <2>7 DEF k
<1>2. PartitionInv /\ [Next]_vars =>
        [Replace => \A i \in catalog' : KeyOf(i.root, i.name) \notin forgotten']_vars
  BY <1>1
<1> QED
  BY <1>2, PartitionInvariance, PTL DEF Spec, NothingSuppressedListed

\* Outside the owner's own commands, only the end of a refresh changes what was
\* found and chosen.
LEMMA WhoReplaces ==
  ASSUME [Next]_vars, cmd.step # "none", ~UNCHANGED <<catalog, selected>>
  PROVE  Replace
<1>1. CASE UNCHANGED vars
  BY <1>1 DEF vars, partition, lastGood
<1>2. ASSUME \/ \E p \in Paths, d \in Dirs \cup {NoDir} : Relocate(p, d)
             \/ \E d \in Dirs, n \in Names : Session(d, n)
             \/ \E asked \in SUBSET Paths : Begin(asked)
             \/ Fail \/ Interrupt
      PROVE  FALSE
  BY <1>2 DEF Relocate, Session, Begin, Fail, Interrupt, partition, lastGood
<1>3. ASSUME Refreshing PROVE Replace
  BY <1>3 DEF Refreshing, Resolve, Identify, Resume, List, Verify, ReadBatch, Check,
              Confirm, PutAside, partition, lastGood
<1>4. \A k \in AllKeys : ~Select(k) /\ ~ReAdd(k)
  BY DEF Select, ReAdd
<1>5. ~\E targets, tombs : Drop(targets, tombs)
  BY DEF Drop
<1> QED
  BY <1>1, <1>2, <1>3, <1>4, <1>5 DEF Next, Clear, Forget, ClearAll, ForgetAll

\* No refresh loses a choice or a candidate that it cannot account for, however
\* many turns it takes and wherever it stops.
THEOREM LastGoodKeptHolds == Spec => LastGoodKept
<1>1. ASSUME PartitionInv, Replace, NEW k \in selected \ selected', k \notin forgotten'
      PROVE  /\ k.space \in Paths
             /\ \E d \in Dirs : /\ KeyOf(d, k.name) \in selected' \cup forgotten'
                                /\ Recorded(k.space) \subseteq {d}
  <2>1. selected' = Migrated(selected) \ forgotten'
    BY <1>1 DEF Replace
  <2>2. k \notin Migrated(selected)
    BY <1>1, <2>1
  <2>3. PICK i \in Candidates : k \in Sources(i)
    BY <1>1, <2>2, MigratedIs
  <2>4. Key(i) \in Migrated(selected)
    BY <1>1, <2>3, MigratedIs
  <2>5. Key(i) \in selected' \cup forgotten' /\ k # Key(i)
    BY <2>1, <2>2, <2>4
  <2>6. /\ k.space \in Paths /\ k = KeyOf(k.space, i.name) /\ i.id \in Dirs
        /\ Key(i) = KeyOf(i.id, i.name) /\ Recorded(k.space) \subseteq {i.id}
    BY <1>1, <2>3, <2>5, CarriedOver
  <2>7. k.name = i.name
    BY <2>6 DEF KeyOf
  <2> QED
    BY <2>5, <2>6, <2>7
<1>2. ASSUME PartitionInv, Replace, NEW i \in catalog \ catalog', i.root \in cmd.roots,
             i.id = cmd.inv[i.root].dir, i.name \in cmd.inv[i.root].names
      PROVE  Key(i) \in forgotten'
  <2>1. /\ cmd.step \in Inventoried /\ cmd.staged = Entries(cmd.inv)
        /\ catalog' = {c \in Candidates : Key(c) \notin forgotten'}
    BY <1>2 DEF Replace, Complete, Inventoried
  <2>2. cmd.inv \in [cmd.roots -> Inventory] /\ i \in Item
    BY <1>2, <2>1 DEF PartitionInv, CommandOK, TypeOK
  <2>3. <<i.root, i.name>> \in cmd.staged
    BY <1>2, <2>1, <2>2, EntriesAre
  <2>4. i = [root |-> i.root, id |-> cmd.inv[i.root].dir, name |-> i.name]
    BY <1>2, <2>2 DEF Item
  <2>5. i \in Candidates
    <3> DEFINE e == <<i.root, i.name>>
    <3>1. e[1] = i.root /\ e[2] = i.name
      OBVIOUS
    <3>2. i = [root |-> e[1], id |-> cmd.inv[e[1]].dir, name |-> e[2]]
      BY <2>4
    <3> QED
      BY <2>3, <3>2, CandidatesAre
  <2> QED
    BY <1>2, <2>1, <2>5
<1>3. ASSUME PartitionInv, [Next]_vars, cmd.step # "none"
      PROVE  /\ \A k \in selected \ selected' :
                   \/ k \in forgotten'
                   \/ /\ k.space \in Paths
                      /\ \E d \in Dirs : /\ KeyOf(d, k.name) \in selected' \cup forgotten'
                                         /\ Recorded(k.space) \subseteq {d}
             /\ \A i \in catalog \ catalog' :
                   \/ Key(i) \in forgotten'
                   \/ i.root \notin cmd.roots
                   \/ i.id # cmd.inv[i.root].dir
                   \/ i.name \notin cmd.inv[i.root].names
  <2>1. CASE UNCHANGED <<catalog, selected>>
    BY <2>1
  <2>2. CASE ~UNCHANGED <<catalog, selected>>
    <3>1. Replace
      BY <1>3, <2>2, WhoReplaces
    <3> QED
      BY <1>1, <1>2, <1>3, <3>1
  <2> QED
    BY <2>1, <2>2
<1>4. PartitionInv /\ [Next]_vars =>
        [cmd.step # "none" =>
          /\ \A k \in selected \ selected' :
                \/ k \in forgotten'
                \/ /\ k.space \in Paths
                   /\ \E d \in Dirs : /\ KeyOf(d, k.name) \in selected' \cup forgotten'
                                      /\ Recorded(k.space) \subseteq {d}
          /\ \A i \in catalog \ catalog' :
                \/ Key(i) \in forgotten'
                \/ i.root \notin cmd.roots
                \/ i.id # cmd.inv[i.root].dir
                \/ i.name \notin cmd.inv[i.root].names]_vars
  BY <1>3
<1> QED
  BY <1>4, PartitionInvariance, PTL DEF Spec, LastGoodKept
=============================================================================
