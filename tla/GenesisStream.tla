---------------------------- MODULE GenesisStream ----------------------------
(***************************************************************************)
(* How a project stream comes to be (genesis in tools/append_frame.py):    *)
(* rappid.json is opened, filled and closed, then the first frame is       *)
(* renamed into frames/; other processes try the same or try to append,    *)
(* and any of them may die between two steps.                              *)
(***************************************************************************)
EXTENDS Naturals, FiniteSets

CONSTANTS Procs,      \* processes that run the tool
          Rids,       \* identities mint_rappid may draw
          NoRid       \* a process that has minted nothing

\* A rappid is none of the other things rappid.json or a run may come to.
ASSUME GenesisAssumption ==
    Rids \cap {"absent", "partial", "nothing", "already exists", "created", "forked",
               "unreadable", "no genesis", "broken"} = {}

VARIABLES solo,      \* whether the operators run --genesis one at a time
          identity,  \* rappid.json: "absent", "partial", or the rappid it holds
          first,     \* rappids of the sequence-0 files under frames/
          pc,        \* pc[p]: the step process p takes next
          mine,      \* mine[p]: the rappid p minted
          seen,      \* seen[p]: the sequence-0 files p listed
          told       \* told[p]: how p's last run ended

vars == <<solo, identity, first, pc, mine, seen, told>>

Unreadable == {"absent", "partial"}
InGenesis(p) == pc[p] \in {"mint", "store", "first"}

Init ==
    /\ solo \in BOOLEAN
    /\ identity = "absent"
    /\ first = {}
    /\ pc = [p \in Procs |-> "idle"]
    /\ mine = [p \in Procs |-> NoRid]
    /\ seen = [p \in Procs |-> {}]
    /\ told = [p \in Procs |-> "nothing"]

Go(p, step) == pc' = [pc EXCEPT ![p] = step]
Tell(p, word) == told' = [told EXCEPT ![p] = word] /\ Go(p, "idle")

\* A slip: --genesis does not look for a stream.
ExistsNever == FALSE

\* Whether --genesis finds the stream already there.
Exists == identity # "absent"

\* --genesis: refused when rappid.json exists, whatever it holds.
AskGenesis(p) ==
    /\ pc[p] = "idle"
    /\ solo => \A q \in Procs : ~InGenesis(q)
    /\ IF Exists
       THEN Tell(p, "already exists") /\ UNCHANGED mine
       ELSE /\ Go(p, "mint")
            /\ mine' = [mine EXCEPT ![p] = NoRid]
            /\ told' = [told EXCEPT ![p] = "nothing"]
    /\ UNCHANGED <<solo, identity, first, seen>>

\* A slip: the file is opened before anything is minted to go into it.
OpenUnminted(p) ==
    /\ pc[p] = "mint"
    /\ identity' = "partial"
    /\ Go(p, "store")
    /\ UNCHANGED <<solo, first, mine, seen, told>>

\* A fresh rappid, and rappid.json opened for writing: truncated.
OpenIdentity(p) ==
    /\ pc[p] = "mint"
    /\ \E r \in Rids \ ({mine[q] : q \in Procs} \cup first \cup {identity}) :
          mine' = [mine EXCEPT ![p] = r]
    /\ identity' = "partial"
    /\ Go(p, "store")
    /\ UNCHANGED <<solo, first, seen, told>>

\* The file is filled.  Over what another process has put there meanwhile, a
\* shorter text leaves the end of the longer one behind.
StoreIdentity(p) ==
    /\ pc[p] = "store"
    /\ identity' \in {mine[p]} \cup (IF identity \in Rids THEN {"partial"} ELSE {})
    /\ Go(p, "first")
    /\ UNCHANGED <<solo, first, mine, seen, told>>

\* write_frame of the sequence-0 frame.
WriteFirst(p) ==
    /\ pc[p] = "first"
    /\ first' = first \cup {mine[p]}
    /\ Tell(p, "created")
    /\ UNCHANGED <<solo, identity, mine, seen>>

\* append: verify_chain lists frames/ ...
ListFrames(p) ==
    /\ pc[p] = "idle"
    /\ seen' = [seen EXCEPT ![p] = first]
    /\ told' = [told EXCEPT ![p] = "nothing"]
    /\ Go(p, "verify")
    /\ UNCHANGED <<solo, identity, first, mine>>

\* A slip: the first file that fits is enough.
VerdictAnyFit(f, id) ==
    CASE id \in Unreadable -> "unreadable"
      [] f = {} /\ id \notin Unreadable -> "no genesis"
      [] f # {} /\ id \notin Unreadable -> IF id \in f THEN id ELSE "broken"

\* What verify_chain and append report of the listed files f and the identity id.
Verdict(f, id) ==
    CASE Cardinality(f) > 1 -> "forked"
      [] Cardinality(f) <= 1 /\ id \in Unreadable -> "unreadable"
      [] f = {} /\ id \notin Unreadable -> "no genesis"
      [] Cardinality(f) = 1 /\ id \notin Unreadable ->
            IF f = {id} THEN id ELSE "broken"

\* ... refuses a fork, then loads rappid.json, then verifies; append wants a
\* first frame last.
Verify(p) ==
    /\ pc[p] = "verify"
    /\ Tell(p, Verdict(seen[p], identity))
    /\ seen' = [seen EXCEPT ![p] = {}]
    /\ UNCHANGED <<solo, identity, first, mine>>

Crash(p) ==
    /\ pc[p] # "idle"
    /\ Tell(p, "nothing")
    /\ seen' = [seen EXCEPT ![p] = {}]
    /\ UNCHANGED <<solo, identity, first, mine>>

Next ==
    \E p \in Procs :
        \/ AskGenesis(p) \/ OpenIdentity(p) \/ StoreIdentity(p) \/ WriteFirst(p)
        \/ ListFrames(p) \/ Verify(p)
        \/ Crash(p)

Spec == Init /\ [][Next]_vars

-----------------------------------------------------------------------------
TypeOK ==
    /\ solo \in BOOLEAN
    /\ identity \in Unreadable \cup Rids
    /\ first \in SUBSET Rids
    /\ pc \in [Procs -> {"idle", "mint", "store", "first", "verify"}]
    /\ mine \in [Procs -> Rids \cup {NoRid}]
    /\ seen \in [Procs -> SUBSET Rids]
    /\ told \in [Procs -> Rids \cup {"nothing", "already exists", "created", "forked",
                                     "unreadable", "no genesis", "broken"}]

\* Where operators run --genesis one at a time, no crash of theirs lets a
\* second identity into the stream ("mint-once"): no verification ever reports
\* a fork or a broken first frame.
OneIdentity == solo => \A p \in Procs : told[p] \notin {"forked", "broken"}

\* However --genesis races with itself and with crashes, two verifications that
\* succeed, at whatever times, are of the same identity.
OneVerifiedIdentity ==
    \A p, q \in Procs : told[p] \in Rids /\ told[q] \in Rids => told[p] = told[q]

\* append's remedy works: whoever is told "no genesis - run --genesis first"
\* can run --genesis, or somebody is about to finish one.
RemedyAvailable ==
    (\E p \in Procs : told[p] = "no genesis") =>
        ~Exists \/ first # {} \/ \E q \in Procs : InGenesis(q)
=============================================================================
