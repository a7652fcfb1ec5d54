----------------------------- MODULE AppendFrame -----------------------------
(***************************************************************************)
(* The writers of one project's frame stream (tools/append_frame.py).      *)
(*                                                                         *)
(* Every clone of the workspace has a frames/ directory and a clock.  Any  *)
(* number of processes run the tool on it with no lock: each reads and     *)
(* verifies the chain, checks the lease against its own clock, builds a    *)
(* frame on the head it read, and renames the frame into the directory.    *)
(* Clones exchange frames through git.                                     *)
(***************************************************************************)
EXTENDS Lease, FiniteSets

CONSTANTS Clones,        \* working copies of the workspace
          Procs,         \* processes that run the tool
          CloneOf,       \* the working copy each process runs in
          Flags,         \* lease events the operators ask for
          LeaseTicks,    \* values --lease-minutes may take; bound: every lease
                         \* asked for ends before MaxClock
          PlainActors,   \* --actor values of appends without a lease flag
          OwnBodies,     \* event and expiry a --payload may carry by itself
          OwnActors,     \* actor a --payload may name by itself
          NoBody,        \* no predecessor: prev of the genesis frame
          MaxSeq,        \* bound on the sequence number of a frame
          MaxClock       \* bound on every clock

ASSUME AppendAssumption ==
    /\ Clones # {}
    /\ CloneOf \in [Procs -> Clones]
    /\ Flags \subseteq LeaseEvents
    /\ LeaseTicks \subseteq Nat
    /\ PlainActors \subseteq Actors \cup {NoActor}
    /\ OwnBodies \subseteq [event : LeaseEvents \cup {"note"}, expires : Expiries]
    /\ OwnActors \subseteq BodyActors
    /\ NoBody \notin Body
    /\ MaxSeq \in Nat /\ MaxClock \in Nat \ {0}

VARIABLES frames,   \* frames[c]: the *.json files under clone c's frames/
          clock,    \* clock[c]: what the host of clone c reads as now
          pc,       \* pc[p]: the step process p takes next
          job,      \* job[p]: event, --actor and body p was asked to append
          seen,     \* seen[p]: the chain verify_chain returned to p
          draft     \* draft[p]: the frame p is about to write

\* History, which no step looks at and no file records: each frame with the
\* --actor of the processes that wrote it.
VARIABLE written

vars == <<frames, clock, pc, job, seen, draft, written>>

(***************************************************************************)
(* A file is named by its sequence number and its content's hash, so the   *)
(* directory is a set of frames.  A frame commits to its predecessor by    *)
(* the hash of that frame's body alone.                                    *)
(***************************************************************************)
Frame == [seq : Nat, utc : Nat, prev : Body \cup {NoBody}, body : Body]

Genesis == [seq |-> 0, utc |-> 0, prev |-> NoBody,
            body |-> [event |-> "note", actor |-> NoActor, expires |-> NoExpiry]]

\* rapp.verify_frame(f, head = g).
Follows(f, g) ==
    /\ f.seq = g.seq + 1
    /\ f.prev = g.body
    /\ f.utc >= g.utc

\* CHAIN FORKED: two files under one sequence number.
Forked(S) == \E f, g \in S : f # g /\ f.seq = g.seq

\* Every file but the genesis one verifies against a file before it.
Linked(S) == \A f \in S : f = Genesis \/ \E g \in S : Follows(f, g)

\* verify_chain succeeds.
Verifies(S) == ~Forked(S) /\ Linked(S)

\* The files of a verified chain before position n, in the order of their names.
Before(S, n) == {f \in S : f.seq < n}
At(S, n) == CHOOSE f \in S : f.seq = n
Bodies(S) == [i \in 1..Cardinality(S) |-> At(S, i - 1).body]
LeaseOf(S) == LeaseState(Bodies(S))
Unreadable(S) == \E f \in S : Raises(f.body)

\* chain[-1]: the frame nothing in S comes after.
IsHead(f, S) == f \in S /\ \A g \in S : g.seq <= f.seq
HeadOf(S) == CHOOSE f \in S : IsHead(f, S)

Idle(p) ==
    /\ pc' = [pc EXCEPT ![p] = "idle"]
    /\ job' = [job EXCEPT ![p] = NoBody]
    /\ seen' = [seen EXCEPT ![p] = {}]
    /\ draft' = [draft EXCEPT ![p] = NoBody]

\* The genesis frame was stamped before any clock here began.
Init ==
    /\ frames = [c \in Clones |-> {Genesis}]
    /\ clock = [c \in Clones |-> 1]
    /\ pc = [p \in Procs |-> "idle"]
    /\ job = [p \in Procs |-> NoBody]
    /\ seen = [p \in Procs |-> {}]
    /\ draft = [p \in Procs |-> NoBody]
    /\ written = {}

(***************************************************************************)
(* One run of the tool begins: append's verify_chain returns the chain, or *)
(* a fork or a broken link ends the process before anything is recorded.   *)
(***************************************************************************)
ReadChain(p, event, actor, body) ==
    LET S == frames[CloneOf[p]]
    IN  /\ pc[p] = "idle"
        /\ Verifies(S)
        /\ pc' = [pc EXCEPT ![p] = "check"]
        /\ job' = [job EXCEPT ![p] = [event |-> event, actor |-> actor, body |-> body]]
        /\ seen' = [seen EXCEPT ![p] = S]
        /\ UNCHANGED <<frames, clock, draft, written>>

(***************************************************************************)
(* main with a lease flag: the actor is required, and the expiry is        *)
(* computed from the process's own clock before the chain is read.  Time   *)
(* that passes in between only shortens the lease: LeaseTicks covers it.   *)
(* Event and expiry replace the payload's; an actor the payload already    *)
(* names stays, whoever --actor is.                                        *)
(***************************************************************************)
LeaseFlag(p) ==
    \E a \in Actors, ev \in Flags, n \in LeaseTicks : \E named \in OwnActors \cup {a} :
        /\ clock[CloneOf[p]] + n < MaxClock
        /\ ReadChain(p, ev, a,
                [event |-> ev, actor |-> named,
                 expires |-> IF ev \in Closers THEN NoExpiry
                                               ELSE clock[CloneOf[p]] + n])

(***************************************************************************)
(* main with --event: the event is not one of the lease events, but what   *)
(* the payload already says about event, actor and expiry survives         *)
(* setdefault.                                                             *)
(***************************************************************************)
PlainEvent(p) ==
    \E a \in PlainActors,
       own \in OwnBodies \cup {[event |-> "note", expires |-> NoExpiry]} :
       \E named \in OwnActors \cup {a} :
        ReadChain(p, "note", a,
                  [event |-> own.event, actor |-> named, expires |-> own.expires])

\* append's check_lease, for --actor and on the chain as it was read: a refusal
\* ends the process, and so does a lease_state that raises.
CheckLease(p) ==
    /\ pc[p] = "check"
    /\ IF /\ ~Unreadable(seen[p])
          /\ Permitted(LeaseOf(seen[p]), clock[CloneOf[p]], job[p].event, job[p].actor)
       THEN /\ pc' = [pc EXCEPT ![p] = "build"]
            /\ UNCHANGED <<job, seen, draft>>
       ELSE Idle(p)
    /\ UNCHANGED <<frames, clock, written>>

\* Slips: the clock alone, with no look at the head; the time of another zone.
StampNow(head, now) == now
StampLocal(head, now) == now - 2

\* The stamp of a frame on this head: the clock, or one tick past the head.
StampAfter(head, now) == IF now <= head.utc THEN head.utc + 1 ELSE now

\* append builds the frame on the head it read, with a second look at the clock.
BuildFrame(p) ==
    LET head == HeadOf(seen[p])
    IN  /\ pc[p] = "build"
        /\ head.seq < MaxSeq
        /\ draft' = [draft EXCEPT ![p] =
              [seq |-> head.seq + 1, utc |-> StampAfter(head, clock[CloneOf[p]]),
               prev |-> head.body, body |-> job[p].body]]
        /\ pc' = [pc EXCEPT ![p] = "write"]
        /\ UNCHANGED <<frames, clock, job, seen, written>>

\* write_frame: the rename makes the frame visible, whatever landed meanwhile.
WriteFrame(p) ==
    /\ pc[p] = "write"
    /\ frames' = [frames EXCEPT ![CloneOf[p]] = @ \cup {draft[p]}]
    /\ written' = written \cup {<<draft[p], job[p].actor>>}
    /\ Idle(p)
    /\ UNCHANGED clock

\* The process dies; a frame it had not renamed is a *.tmp nobody reads.
Crash(p) ==
    /\ pc[p] # "idle"
    /\ Idle(p)
    /\ UNCHANGED <<frames, clock, written>>

\* git merges clone d into clone c: files of different names are all kept.
Merge(c, d) ==
    /\ frames' = [frames EXCEPT ![c] = @ \cup frames[d]]
    /\ UNCHANGED <<clock, pc, job, seen, draft, written>>

Tick(c) ==
    /\ clock[c] < MaxClock
    /\ clock' = [clock EXCEPT ![c] = @ + 1]
    /\ UNCHANGED <<frames, pc, job, seen, draft, written>>

Next ==
    \/ \E p \in Procs :
          \/ LeaseFlag(p) \/ PlainEvent(p)
          \/ CheckLease(p) \/ BuildFrame(p) \/ WriteFrame(p)
          \/ Crash(p)
    \/ \E c, d \in Clones : Merge(c, d)
    \/ \E c \in Clones : Tick(c)

Spec == Init /\ [][Next]_vars

(***************************************************************************)
(* One operator keeps asking for a takeover and nobody kills its process;  *)
(* the others do whatever they like, dying included.                       *)
(***************************************************************************)
Persist(p, a) ==
    \/ \E n \in LeaseTicks :
          ReadChain(p, "work.takeover", a,
              [event |-> "work.takeover", actor |-> a, expires |-> clock[CloneOf[p]] + n])
    \/ CheckLease(p) \/ BuildFrame(p) \/ WriteFrame(p)

PersistNext(p, a) ==
    \/ Persist(p, a)
    \/ \E q \in Procs \ {p} :
          \/ LeaseFlag(q) \/ PlainEvent(q)
          \/ CheckLease(q) \/ BuildFrame(q) \/ WriteFrame(q)
          \/ Crash(q)
    \/ \E c, d \in Clones : Merge(c, d)
    \/ \E c \in Clones : Tick(c)

-----------------------------------------------------------------------------
(***************************************************************************)
(* Everything all clones hold: what one directory holds after every merge. *)
(***************************************************************************)
AllFrames == UNION {frames[c] : c \in Clones}

(***************************************************************************)
(* The writers implement one log with atomic appends, until it forks or    *)
(* its lease cannot be read.                                               *)
(***************************************************************************)
Ended == Forked(AllFrames) \/ Unreadable(AllFrames)

Log == INSTANCE LeaseLog WITH
    lease <- IF Ended THEN NoLease ELSE LeaseOf(AllFrames),
    stamp <- IF Ended THEN 0 ELSE HeadOf(AllFrames).utc,
    ended <- Ended

\* Whether a frame that an operator named actor lands on the chain S obeys the
\* lease of S, judged at the frame's own stamp.
RespectsLease(S, f, actor) == Log!Binding(LeaseOf(S), f.utc) => actor = LeaseOf(S).holder

Lawful(S, f, actor) ==
    LET l == LeaseOf(S)
    IN  CASE f.body.event \in Openers -> ~Log!Binding(l, f.utc)
          [] f.body.event \in LeaseEvents \ Openers -> l.open /\ l.holder = actor
          [] OTHER -> Strict => l.open /\ l.holder = actor

TypeOK ==
    /\ frames \in [Clones -> SUBSET Frame]
    /\ clock \in [Clones -> 0..MaxClock]
    /\ pc \in [Procs -> {"idle", "check", "build", "write"}]
    /\ job \in [Procs -> [event : LeaseEvents \cup {"note"},
                       actor : Actors \cup {NoActor}, body : Body] \cup {NoBody}]
    /\ seen \in [Procs -> SUBSET Frame]
    /\ draft \in [Procs -> Frame \cup {NoBody}]
    /\ written \in SUBSET (Frame \X (Actors \cup {NoActor}))

\* verify_chain on a directory never finds a chain that is BROKEN rather than
\* FORKED: whatever writers, crashes and merges interleave, each frame but the
\* first has its predecessor beside it.
NeverBroken == \A c \in Clones : Linked(frames[c])

\* The lease the code folds out of a chain is what a reader of its history sees:
\* open exactly when the last grant or release is a grant, held by who it was
\* granted to, until the expiry last named since.
LeaseMatchesHistory ==
    \A c \in Clones :
        LET S == frames[c]
            l == LeaseOf(S)
            Turns == {f \in S : f.body.event \in Openers \cup Closers}
            Named(t) == {f \in S : /\ f.body.event = "work.heartbeat"
                                   /\ f.body.expires # NoExpiry
                                   /\ f.seq > t.seq} \cup {t}
        IN  Forked(S) \/
            IF Turns = {} \/ HeadOf(Turns).body.event \in Closers
            THEN ~l.open
            ELSE /\ l.open
                 /\ l.holder = HeadOf(Turns).body.actor
                 /\ l.expires = HeadOf(Named(HeadOf(Turns))).body.expires

\* The frames written at a position that is not yet forked below, each with
\* the --actor it was written under.
Placed == {w \in written : ~Forked(Before(AllFrames, w[1].seq))}

\* Every frame stamped while the lease of the frames before it was active was
\* appended by its holder ("No toe-stepping"), although the writer checked an
\* older copy of the chain at an earlier time, in whatever clone, and although
\* grants name whom their payloads name.  Where the stream forks, this holds of
\* both branches' first frames.
NoToeStepping == \A w \in Placed : RespectsLease(Before(AllFrames, w[1].seq), w[1], w[2])

\* When payloads carry no event of their own, every frame is one check_lease
\* allows after the frames before it: no lease is granted over an active one,
\* and only the holder renews or releases it, whoever the frame names.
LawfulHistory == \A w \in Placed : Lawful(Before(AllFrames, w[1].seq), w[1], w[2])

\* The lease keeps operators from forking each other: where two operators first
\* append at the same position, one of the frames was stamped after the lease
\* before them had ended.
ForksOutsideLease ==
    \A v, w \in Placed :
        /\ v[1].seq = w[1].seq
        /\ v[2] # w[2]
        => \/ ~Log!Binding(LeaseOf(Before(AllFrames, v[1].seq)), v[1].utc)
           \/ ~Log!Binding(LeaseOf(Before(AllFrames, w[1].seq)), w[1].utc)

\* An operator who keeps asking takes the stream over in the end, unless it
\* forks, fills up or holds a grant to an actor that nobody can read: a lease
\* whose holder died, or whose expiry is missing or unreadable, does not outlive
\* its time ("must NEVER create an immortal lease").
TakeoverServed(p, a) ==
    LET S == frames[CloneOf[p]]
    IN  <>(\/ Forked(S)
           \/ Unreadable(S)
           \/ \E f \in S : f.seq = MaxSeq
           \/ \E f \in S : <<f, a>> \in written /\ f.body.event = "work.takeover")

\* Reads, checks, stamps and renames by processes of many clones amount to
\* atomic appends to one log under one lease, or end it.
ImplementsLog == Log!LogSpec
=============================================================================
