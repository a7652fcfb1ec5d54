------------------------- MODULE GenesisStreamProofs -------------------------
(***************************************************************************)
(* Proofs about GenesisStream for any processes and identities.            *)
(*                                                                         *)
(* Two arguments.  Where operators run --genesis one at a time, whoever is *)
(* in it finds what the step before left, so frames/ holds one sequence-0  *)
(* file at most, and that of rappid.json.  However --genesis races, frames *)
(* are never removed, so all listings of frames/ are comparable, and two   *)
(* of one file each are the same.                                          *)
(***************************************************************************)
EXTENDS GenesisStream, FiniteSetTheorems, TLAPS

\* Who has minted an identity has one, and frames/ is a finite directory.
Minted == \A p \in Procs : pc[p] \in {"store", "first"} => mine[p] \in Rids
Finite == IsFiniteSet(first) /\ \A p \in Procs : IsFiniteSet(seen[p])

\* What a process listed, and what it verified as the only file, frames/ has.
Comparable(A, B) == A \subseteq B \/ B \subseteq A
Listed ==
    \A p \in Procs :
        /\ seen[p] \subseteq first
        /\ told[p] \in Rids => told[p] \in first

\* Listings, and single files that were verified, are snapshots of one history.
OneHistory ==
    \A p, q \in Procs :
        /\ Comparable(seen[p], seen[q])
        /\ told[p] \in Rids => Comparable({told[p]}, seen[q])
        /\ told[p] \in Rids /\ told[q] \in Rids => told[p] = told[q]

\* Alone, a process in --genesis finds what it left at its last step.
AloneInGenesis ==
    solo => \A p \in Procs :
        /\ \A q \in Procs : InGenesis(p) /\ InGenesis(q) => p = q
        /\ pc[p] = "mint" => identity = "absent"
        /\ pc[p] = "store" => identity = "partial"
        /\ pc[p] = "first" => identity = mine[p]
        /\ InGenesis(p) => first = {}

\* Alone, the only first frame there ever is is that of rappid.json.
OneFirst ==
    solo => first = {} \/ (identity \in Rids /\ first = {identity})

GenesisInv ==
    TypeOK /\ Minted /\ Finite /\ Listed /\ OneHistory /\ AloneInGenesis /\ OneFirst /\ OneIdentity

-----------------------------------------------------------------------------
\* A verification succeeds for the only listed file, when it is that of the
\* identity; for nothing, or that file, it reports neither fork nor breach.
LEMMA VerdictIs ==
  ASSUME NEW f, IsFiniteSet(f), NEW id
  PROVE  /\ \/ Verdict(f, id) \in {"forked", "unreadable", "no genesis", "broken"}
            \/ f = {id} /\ id \notin Unreadable /\ Verdict(f, id) = id
         /\ f = {} => Verdict(f, id) \in {"unreadable", "no genesis"}
         /\ f = {id} /\ id \notin Unreadable => Verdict(f, id) = id
<1>1. Cardinality(f) \in Nat /\ (Cardinality(f) = 0 <=> f = {})
  BY FS_CardinalityType, FS_EmptySet
<1>2. f = {id} => Cardinality(f) = 1
  BY FS_Singleton
<1>3. CASE Cardinality(f) > 1
  <2>1. ~(Cardinality(f) <= 1) /\ Cardinality(f) # 1 /\ f # {}
    BY <1>1, <1>3
  <2>2. Verdict(f, id) = "forked"
    BY <1>3, <2>1, Zenon DEF Verdict
  <2> QED
    BY <1>2, <2>1, <2>2
<1>4. CASE Cardinality(f) <= 1 /\ id \in Unreadable
  <2>1. ~(Cardinality(f) > 1)
    BY <1>1, <1>4
  <2>2. Verdict(f, id) = "unreadable"
    BY <1>4, <2>1, Zenon DEF Verdict
  <2> QED
    BY <1>4, <2>2
<1>5. CASE f = {} /\ id \notin Unreadable
  <2>1. ~(Cardinality(f) > 1) /\ Cardinality(f) # 1
    BY <1>1, <1>5
  <2>2. Verdict(f, id) = "no genesis"
    BY <1>5, <2>1, Zenon DEF Verdict
  <2> QED
    BY <1>5, <2>2
<1>6. CASE Cardinality(f) = 1 /\ id \notin Unreadable
  <2>1. ~(Cardinality(f) > 1) /\ f # {}
    BY <1>1, <1>6
  <2>2. Verdict(f, id) = IF f = {id} THEN id ELSE "broken"
    BY <1>6, <2>1, Zenon DEF Verdict
  <2> QED
    BY <1>6, <2>1, <2>2
<1>7. \/ Cardinality(f) > 1
      \/ Cardinality(f) <= 1 /\ id \in Unreadable
      \/ f = {} /\ id \notin Unreadable
      \/ Cardinality(f) = 1 /\ id \notin Unreadable
  BY <1>1
<1> QED
  BY <1>3, <1>4, <1>5, <1>6, <1>7, Zenon

\* Before anything is minted there is nothing to list.
LEMMA InitGenesis == Init => GenesisInv
<1> SUFFICES ASSUME Init PROVE GenesisInv
  OBVIOUS
<1>1. IsFiniteSet({})
  BY FS_EmptySet
<1>2. TypeOK /\ Minted /\ Finite
  BY <1>1 DEF Init, TypeOK, Minted, Finite, Unreadable
<1>3. Listed /\ OneHistory /\ AloneInGenesis /\ OneFirst /\ OneIdentity
  BY GenesisAssumption
     DEF Init, Listed, OneHistory, Comparable, AloneInGenesis, InGenesis, OneFirst, OneIdentity
<1> QED
  BY <1>2, <1>3 DEF GenesisInv

\* --genesis begins where there is no rappid.json, and so no frame.
LEMMA AskGenesisStep ==
  ASSUME GenesisInv, NEW p \in Procs, AskGenesis(p)
  PROVE  GenesisInv'
<1>1. /\ pc[p] = "idle"
      /\ solo => \A q \in Procs : ~InGenesis(q)
      /\ \/ pc'[p] = "idle" /\ told'[p] = "already exists" /\ mine' = mine
         \/ /\ pc'[p] = "mint" /\ told'[p] = "nothing" /\ identity = "absent"
            /\ mine' = [mine EXCEPT ![p] = NoRid]
      /\ \A q \in Procs \ {p} : pc'[q] = pc[q] /\ told'[q] = told[q]
      /\ UNCHANGED <<solo, identity, first, seen>>
  BY DEF GenesisInv, TypeOK, AskGenesis, Tell, Go, Exists
<1>2. TypeOK'
  BY DEF GenesisInv, TypeOK, AskGenesis, Tell, Go
<1>3. Minted' /\ Finite'
  BY <1>1 DEF GenesisInv, TypeOK, Minted, Finite
<1>4. Listed' /\ OneHistory' /\ OneIdentity'
  BY <1>1, GenesisAssumption DEF GenesisInv, Listed, OneHistory, OneIdentity
<1>5. AloneInGenesis' /\ OneFirst'
  BY <1>1, GenesisAssumption DEF GenesisInv, TypeOK, AloneInGenesis, InGenesis, OneFirst
<1> QED
  BY <1>2, <1>3, <1>4, <1>5 DEF GenesisInv

\* rappid.json is opened.
LEMMA OpenIdentityStep ==
  ASSUME GenesisInv, NEW p \in Procs, OpenIdentity(p)
  PROVE  GenesisInv'
<1>1. PICK r \in Rids : mine' = [mine EXCEPT ![p] = r]
  BY DEF OpenIdentity
<1>2. /\ pc[p] = "mint" /\ pc'[p] = "store" /\ identity' = "partial"
      /\ \A q \in Procs \ {p} : pc'[q] = pc[q]
      /\ UNCHANGED <<solo, first, seen, told>>
  BY DEF GenesisInv, TypeOK, OpenIdentity, Go
<1>3. TypeOK'
  BY <1>1, <1>2 DEF GenesisInv, TypeOK, OpenIdentity, Go, Unreadable
<1>4. Minted' /\ Finite'
  BY <1>1, <1>2 DEF GenesisInv, TypeOK, Minted, Finite
<1>5. Listed' /\ OneHistory' /\ OneIdentity'
  BY <1>2 DEF GenesisInv, Listed, OneHistory, OneIdentity
<1>6. AloneInGenesis' /\ OneFirst'
  BY <1>2 DEF GenesisInv, AloneInGenesis, InGenesis, OneFirst
<1> QED
  BY <1>3, <1>4, <1>5, <1>6 DEF GenesisInv

\* Alone, what is stored is the whole identity.
LEMMA StoreIdentityStep ==
  ASSUME GenesisInv, NEW p \in Procs, StoreIdentity(p)
  PROVE  GenesisInv'
<1>1. /\ pc[p] = "store" /\ pc'[p] = "first" /\ mine[p] \in Rids
      /\ identity' = mine[p] \/ (identity \in Rids /\ identity' = "partial")
      /\ \A q \in Procs \ {p} : pc'[q] = pc[q]
      /\ UNCHANGED <<solo, first, mine, seen, told>>
  BY DEF GenesisInv, TypeOK, Minted, StoreIdentity, Go
<1>2. TypeOK'
  BY <1>1 DEF GenesisInv, TypeOK, StoreIdentity, Go, Unreadable
<1>3. Minted' /\ Finite'
  BY <1>1 DEF GenesisInv, Minted, Finite
<1>4. Listed' /\ OneHistory' /\ OneIdentity'
  BY <1>1 DEF GenesisInv, Listed, OneHistory, OneIdentity
<1>5. AloneInGenesis' /\ OneFirst'
  BY <1>1, GenesisAssumption DEF GenesisInv, AloneInGenesis, InGenesis, OneFirst
<1> QED
  BY <1>2, <1>3, <1>4, <1>5 DEF GenesisInv

\* Alone, the first frame is the only one, and of the stored identity.
LEMMA WriteFirstStep ==
  ASSUME GenesisInv, NEW p \in Procs, WriteFirst(p)
  PROVE  GenesisInv'
<1>1. /\ pc[p] = "first" /\ pc'[p] = "idle" /\ mine[p] \in Rids
      /\ first' = first \cup {mine[p]} /\ told'[p] = "created"
      /\ \A q \in Procs \ {p} : pc'[q] = pc[q] /\ told'[q] = told[q]
      /\ UNCHANGED <<solo, identity, mine, seen>>
  BY DEF GenesisInv, TypeOK, Minted, WriteFirst, Tell, Go
<1>2. TypeOK'
  BY <1>1 DEF GenesisInv, TypeOK, WriteFirst, Tell, Go
<1>3. Minted' /\ Finite'
  BY <1>1, FS_AddElement DEF GenesisInv, Minted, Finite
<1>4. Listed' /\ OneHistory' /\ OneIdentity'
  BY <1>1, GenesisAssumption DEF GenesisInv, Listed, OneHistory, OneIdentity
<1>5. AloneInGenesis' /\ OneFirst'
  BY <1>1 DEF GenesisInv, AloneInGenesis, InGenesis, OneFirst
<1> QED
  BY <1>2, <1>3, <1>4, <1>5 DEF GenesisInv

\* A new listing is of all there is, and so comparable with every other.
LEMMA ListFramesStep ==
  ASSUME GenesisInv, NEW p \in Procs, ListFrames(p)
  PROVE  GenesisInv'
<1>1. /\ pc[p] = "idle" /\ pc'[p] = "verify" /\ told'[p] = "nothing" /\ seen'[p] = first
      /\ \A q \in Procs \ {p} : pc'[q] = pc[q] /\ told'[q] = told[q] /\ seen'[q] = seen[q]
      /\ UNCHANGED <<solo, identity, first, mine>>
  BY DEF GenesisInv, TypeOK, ListFrames, Go
<1>2. TypeOK'
  BY <1>1 DEF GenesisInv, TypeOK, ListFrames, Go
<1>3. Minted' /\ Finite' /\ Listed' /\ OneIdentity'
  BY <1>1, GenesisAssumption DEF GenesisInv, Minted, Finite, Listed, OneIdentity
<1>4. OneHistory'
  <2>1. \A q \in Procs :
          /\ Comparable(first, seen[q]) /\ Comparable(seen[q], first)
          /\ told[q] \in Rids => Comparable({told[q]}, first)
    BY DEF GenesisInv, Listed, Comparable
  <2>2. Comparable(first, first) /\ told'[p] \notin Rids
    BY <1>1, GenesisAssumption DEF Comparable
  <2>3. \A q \in Procs : seen'[q] = (IF q = p THEN first ELSE seen[q])
                         /\ told'[q] = (IF q = p THEN told'[p] ELSE told[q])
    BY <1>1
  <2> QED
    BY <2>1, <2>2, <2>3 DEF GenesisInv, OneHistory
<1>5. AloneInGenesis' /\ OneFirst'
  BY <1>1 DEF GenesisInv, AloneInGenesis, InGenesis, OneFirst
<1> QED
  BY <1>2, <1>3, <1>4, <1>5 DEF GenesisInv

\* Whatever a process is told at its end, if an identity, is of the single
\* file it listed.
LEMMA EndStep ==
  ASSUME GenesisInv, NEW p \in Procs, NEW word,
         Tell(p, word), seen' = [seen EXCEPT ![p] = {}],
         UNCHANGED <<solo, identity, first, mine>>,
         \/ word \in {"nothing", "forked", "unreadable", "no genesis", "broken"}
         \/ word \in Rids /\ seen[p] = {word},
         solo => word \notin {"forked", "broken"}
  PROVE  GenesisInv'
<1>1. /\ pc'[p] = "idle" /\ told'[p] = word /\ seen'[p] = {}
      /\ \A q \in Procs \ {p} : pc'[q] = pc[q] /\ told'[q] = told[q] /\ seen'[q] = seen[q]
  BY DEF GenesisInv, TypeOK, Tell, Go
<1>2. TypeOK'
  BY DEF GenesisInv, TypeOK, Tell, Go
<1>3. Minted' /\ Finite'
  BY <1>1, FS_EmptySet DEF GenesisInv, Minted, Finite
<1>4. Listed' /\ OneIdentity'
  BY <1>1, GenesisAssumption DEF GenesisInv, Listed, OneIdentity
<1>5. OneHistory'
  <2>1. word \in Rids => seen[p] = {word}
    BY GenesisAssumption
  <2>2. word \in Rids => \A q \in Procs : Comparable({word}, seen[q])
    BY <2>1 DEF GenesisInv, OneHistory
  <2>3. word \in Rids => \A q \in Procs : told[q] \in Rids => told[q] = word
    BY <2>1 DEF GenesisInv, OneHistory, Comparable
  <2>4. \A A : Comparable({}, A) /\ Comparable(A, {})
    BY DEF Comparable
  <2>5. \A q \in Procs : seen'[q] = (IF q = p THEN {} ELSE seen[q])
                         /\ told'[q] = (IF q = p THEN word ELSE told[q])
    BY <1>1
  <2> QED
    BY <2>2, <2>3, <2>4, <2>5 DEF GenesisInv, OneHistory
<1>6. AloneInGenesis' /\ OneFirst'
  BY <1>1 DEF GenesisInv, AloneInGenesis, InGenesis, OneFirst
<1> QED
  BY <1>2, <1>3, <1>4, <1>5, <1>6 DEF GenesisInv

\* Verification: alone, the listed file, if any, is that of rappid.json.
LEMMA VerifyStep ==
  ASSUME GenesisInv, NEW p \in Procs, Verify(p)
  PROVE  GenesisInv'
<1> DEFINE word == Verdict(seen[p], identity)
<1>1. IsFiniteSet(seen[p]) /\ seen[p] \subseteq first
  BY DEF GenesisInv, Finite, Listed
<1>2. /\ \/ word \in {"forked", "unreadable", "no genesis", "broken"}
         \/ seen[p] = {identity} /\ identity \notin Unreadable /\ word = identity
      /\ seen[p] = {} => word \in {"unreadable", "no genesis"}
      /\ seen[p] = {identity} /\ identity \notin Unreadable => word = identity
  BY <1>1, VerdictIs
<1>3. /\ Tell(p, word) /\ seen' = [seen EXCEPT ![p] = {}]
      /\ UNCHANGED <<solo, identity, first, mine>>
  BY DEF Verify
<1> HIDE DEF word
<1>4. \/ word \in {"nothing", "forked", "unreadable", "no genesis", "broken"}
      \/ word \in Rids /\ seen[p] = {word}
  BY <1>2 DEF GenesisInv, TypeOK
<1>5. solo => word \notin {"forked", "broken"}
  <2>1. solo => seen[p] = {} \/ (identity \in Rids /\ seen[p] = {identity})
    BY <1>1 DEF GenesisInv, OneFirst
  <2>2. identity \in Rids => identity \notin Unreadable \cup {"forked", "broken"}
    BY GenesisAssumption DEF Unreadable
  <2> QED
    BY <1>2, <2>1, <2>2
<1> QED
  BY <1>3, <1>4, <1>5, EndStep

\* A crash leaves the files as they are.
LEMMA CrashStep ==
  ASSUME GenesisInv, NEW p \in Procs, Crash(p)
  PROVE  GenesisInv'
BY EndStep DEF Crash

\* Every step keeps the invariant.
LEMMA NextGenesis == GenesisInv /\ [Next]_vars => GenesisInv'
<1> SUFFICES ASSUME GenesisInv, [Next]_vars PROVE GenesisInv'
  OBVIOUS
<1>1. CASE UNCHANGED vars
  BY <1>1 DEF vars, GenesisInv, TypeOK, Minted, Finite, Listed, OneHistory, AloneInGenesis,
              InGenesis, OneFirst, OneIdentity
<1>2. ASSUME NEW p \in Procs,
             \/ AskGenesis(p) \/ OpenIdentity(p) \/ StoreIdentity(p) \/ WriteFirst(p)
             \/ ListFrames(p) \/ Verify(p) \/ Crash(p)
      PROVE  GenesisInv'
  BY <1>2, AskGenesisStep, OpenIdentityStep, StoreIdentityStep, WriteFirstStep,
     ListFramesStep, VerifyStep, CrashStep
<1> QED
  BY <1>1, <1>2 DEF Next

\* The invariant holds whatever runs of the tool interleave or die.
THEOREM GenesisInvariance == Spec => []GenesisInv
BY InitGenesis, NextGenesis, PTL DEF Spec

\* The files, and what every process knows and was told, keep their types.
THEOREM GenesisTypeCorrect == Spec => []TypeOK
<1>1. GenesisInv => TypeOK
  BY DEF GenesisInv
<1> QED
  BY <1>1, GenesisInvariance, PTL

\* Where --genesis runs one at a time, no crash lets a second identity in.
THEOREM OneIdentityHolds == Spec => []OneIdentity
<1>1. GenesisInv => OneIdentity
  BY DEF GenesisInv
<1> QED
  BY <1>1, GenesisInvariance, PTL

\* However --genesis races, no two verifications are of different identities.
THEOREM OneVerifiedIdentityHolds == Spec => []OneVerifiedIdentity
<1>1. GenesisInv => OneVerifiedIdentity
  BY DEF GenesisInv, OneHistory, OneVerifiedIdentity
<1> QED
  BY <1>1, GenesisInvariance, PTL
=============================================================================
