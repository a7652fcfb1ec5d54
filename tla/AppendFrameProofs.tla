-------------------------- MODULE AppendFrameProofs --------------------------
(***************************************************************************)
(* Proofs about AppendFrame for any number of clones, processes, actors    *)
(* and frames.  The invariant says what a process between its read and its *)
(* rename knows: its copy of the chain is a gapless, unforked part of the  *)
(* directory, and its check was passed at a time not after its clock.      *)
(* The last two parts are about the lease itself, which is a recursion     *)
(* along a chain: what all writers do implements LeaseLog, and the lease   *)
(* is the one a reader of the history sees.                                *)
(***************************************************************************)
EXTENDS AppendFrame, Induction, FunctionTheorems, FiniteSetTheorems, TLAPS

Job == [event : LeaseEvents \cup {"note"}, actor : Actors \cup {NoActor}, body : Body]

\* A directory: it starts at the genesis frame, has a frame at every position
\* below each of its frames, has a last position, and every link verifies.
Gapless(S) == \A f \in S : \A i \in 0..f.seq : \E g \in S : g.seq = i
HasHead(S) == \E f \in S : IsHead(f, S)
Directory(S) ==
    /\ S \in SUBSET Frame
    /\ Genesis \in S
    /\ Gapless(S)
    /\ HasHead(S)
    /\ Linked(S)

Directories == \A c \in Clones : Directory(frames[c])

\* What a process that has read the chain has at hand.
Reading(p) ==
    pc[p] # "idle" =>
        /\ job[p] \in Job
        /\ seen[p] \subseteq frames[CloneOf[p]]
        /\ Directory(seen[p])
        /\ ~Forked(seen[p])
        /\ OwnBodies = {} => job[p].event = job[p].body.event

\* check_lease passed at time t, on the copy of the chain.
PassedAt(p, t) ==
    /\ t <= clock[CloneOf[p]]
    /\ Permitted(LeaseOf(seen[p]), t, job[p].event, job[p].actor)

Checked(p) == pc[p] = "build" => \E t \in Nat : PassedAt(p, t)

\* The frame f passed check_lease on the chain S under this --actor, at a time
\* not after its stamp; unless payloads name events themselves, as the event it
\* records.
PassedCheck(S, f, actor) ==
    \E t \in Nat, event \in LeaseEvents \cup {"note"} :
        /\ t <= f.utc
        /\ Permitted(LeaseOf(S), t, event, actor)
        /\ OwnBodies = {} => event = f.body.event

\* The frame about to be written extends the copy of the chain.
Drafted(p) ==
    pc[p] = "write" =>
        /\ draft[p] \in Frame
        /\ draft[p].seq = HeadOf(seen[p]).seq + 1
        /\ Follows(draft[p], HeadOf(seen[p]))
        /\ PassedCheck(seen[p], draft[p], job[p].actor)

Process(p) == Reading(p) /\ Checked(p) /\ Drafted(p)

Shape ==
    /\ frames \in [Clones -> SUBSET Frame]
    /\ clock \in [Clones -> 0..MaxClock]
    /\ pc \in [Procs -> {"idle", "check", "build", "write"}]
    /\ job \in [Procs -> Job \cup {NoBody}]
    /\ seen \in [Procs -> SUBSET Frame]
    /\ draft \in [Procs -> Frame \cup {NoBody}]
    /\ written \in SUBSET (Frame \X (Actors \cup {NoActor}))

\* What was written is there.
Recorded == \A w \in written : w[1] \in AllFrames

\* Every frame passed its check on exactly the frames below it, if those are
\* not forked: the race between check and rename shows as a fork or not at all.
Arbitrated ==
    \A w \in Placed : PassedCheck(Before(AllFrames, w[1].seq), w[1], w[2])

IInv ==
    /\ Shape
    /\ Directories
    /\ Recorded
    /\ \A p \in Procs : Process(p)
    /\ Arbitrated

-----------------------------------------------------------------------------
\* The first frame of a stream is a frame.
LEMMA GenesisIsFrame == Genesis \in Frame
BY DEF Genesis, Frame, Body, BodyActors, LeaseEvents, Expiries

\* A directory of one genesis frame is a directory.
LEMMA GenesisDirectory == Directory({Genesis})
<1> DEFINE S == {Genesis}
<1>1. Genesis.seq = 0
  BY DEF Genesis
<1>2. Gapless(S)
  BY <1>1 DEF Gapless
<1>3. HasHead(S)
  BY <1>1 DEF HasHead, IsHead
<1>4. Linked(S)
  BY DEF Linked
<1> QED
  BY <1>2, <1>3, <1>4, GenesisIsFrame DEF Directory

\* chain[-1] of a directory is in it, and no frame of it is later.
LEMMA HeadIsLast ==
  ASSUME NEW S, Directory(S)
  PROVE  IsHead(HeadOf(S), S) /\ HeadOf(S) \in Frame
BY DEF Directory, HasHead, HeadOf, IsHead

\* A directory that takes in a frame on the head of a part of it stays one.
LEMMA AddFrame ==
  ASSUME NEW S, Directory(S), NEW T, Directory(T), T \subseteq S,
         NEW d \in Frame, Follows(d, HeadOf(T))
  PROVE  Directory(S \cup {d})
<1> DEFINE h == HeadOf(T)
           R == S \cup {d}
<1>1. h \in S /\ h \in Frame /\ d.seq = h.seq + 1
  BY HeadIsLast DEF IsHead, Follows
<1>2. Gapless(R)
  <2> SUFFICES ASSUME NEW f \in R, NEW i \in 0..f.seq
               PROVE  \E g \in R : g.seq = i
    BY DEF Gapless
  <2>1. CASE f \in S
    BY <2>1 DEF Directory, Gapless
  <2>2. CASE f = d /\ i = d.seq
    BY <2>2
  <2>3. CASE f = d /\ i # d.seq
    <3>1. i \in 0..h.seq
      BY <2>3, <1>1 DEF Frame
    <3> QED
      BY <3>1, <1>1 DEF Directory, Gapless
  <2> QED
    BY <2>1, <2>2, <2>3
<1>3. HasHead(R)
  <2>1. PICK k \in S : IsHead(k, S)
    BY DEF Directory, HasHead
  <2>2. k.seq \in Nat /\ d.seq \in Nat /\ \A g \in S : g.seq \in Nat
    BY DEF Directory, Frame
  <2>3. CASE d.seq <= k.seq
    BY <2>1, <2>2, <2>3 DEF HasHead, IsHead
  <2>4. CASE k.seq < d.seq
    BY <2>1, <2>2, <2>4 DEF HasHead, IsHead
  <2> QED
    BY <2>2, <2>3, <2>4
<1>4. Linked(R)
  BY <1>1 DEF Directory, Linked
<1> QED
  BY <1>2, <1>3, <1>4 DEF Directory

\* What git merges out of two directories is a directory.
LEMMA MergeDirectories ==
  ASSUME NEW S, Directory(S), NEW T, Directory(T)
  PROVE  Directory(S \cup T)
<1>1. Gapless(S \cup T)
  BY DEF Directory, Gapless
<1>2. HasHead(S \cup T)
  <2>1. PICK h \in S : IsHead(h, S)
    BY DEF Directory, HasHead
  <2>2. PICK k \in T : IsHead(k, T)
    BY DEF Directory, HasHead
  <2>3. h.seq \in Nat /\ k.seq \in Nat /\ \A g \in S \cup T : g.seq \in Nat
    BY DEF Directory, Frame
  <2>4. CASE h.seq <= k.seq
    BY <2>1, <2>2, <2>3, <2>4 DEF HasHead, IsHead
  <2>5. CASE k.seq < h.seq
    BY <2>1, <2>2, <2>3, <2>5 DEF HasHead, IsHead
  <2> QED
    BY <2>3, <2>4, <2>5
<1>3. Linked(S \cup T)
  BY DEF Directory, Linked
<1> QED
  BY <1>1, <1>2, <1>3 DEF Directory

\* A verified copy of the chain that reaches position n is everything an
\* unforked stream holds below n + 1.
LEMMA CopyIsPrefix ==
  ASSUME NEW T, Directory(T), NEW U, U \in SUBSET Frame, T \subseteq U,
         NEW n \in Nat, n = HeadOf(T).seq + 1, ~Forked(Before(U, n))
  PROVE  Before(U, n) = T
<1>1. IsHead(HeadOf(T), T) /\ HeadOf(T) \in Frame
  BY HeadIsLast
<1>2. T \subseteq Before(U, n)
  BY <1>1 DEF Before, IsHead, Directory, Frame
<1>3. ASSUME NEW g \in Before(U, n)
      PROVE  g \in T
  <2>1. g.seq \in 0..HeadOf(T).seq
    BY <1>1 DEF Before, Frame
  <2>2. PICK h \in T : h.seq = g.seq
    BY <2>1, <1>1 DEF Directory, Gapless, IsHead
  <2> QED
    BY <2>2, <1>2 DEF Forked
<1> QED
  BY <1>2, <1>3

\* Initially every directory is the genesis frame and nobody runs.
LEMMA InitInv == Init => IInv
<1> SUFFICES ASSUME Init PROVE IInv
  OBVIOUS
<1>1. 1 \in 0..MaxClock
  BY AppendAssumption
<1>2. Shape
  BY <1>1, GenesisIsFrame DEF Init, Shape
<1>3. Directories
  BY GenesisDirectory DEF Init, Directories
<1>4. \A p \in Procs : Process(p)
  BY DEF Init, Process, Reading, Checked, Drafted
<1>5. Placed = {} /\ Recorded
  BY DEF Init, Placed, Recorded
<1> QED
  BY <1>2, <1>3, <1>4, <1>5 DEF IInv, Arbitrated

\* Everything about a process but the directory it runs in is as it was.
Same(p) ==
    /\ pc'[p] = pc[p] /\ job'[p] = job[p]
    /\ seen'[p] = seen[p] /\ draft'[p] = draft[p]

\* A process keeps what it knows while its directory grows and its clock runs.
LEMMA KeepProcess ==
  ASSUME IInv, NEW p \in Procs, Same(p),
         frames[CloneOf[p]] \subseteq frames'[CloneOf[p]],
         clock'[CloneOf[p]] \in Nat,
         clock[CloneOf[p]] <= clock'[CloneOf[p]]
  PROVE  Process(p)'
<1>1. Reading(p)'
  BY DEF IInv, Process, Reading, Same
<1>2. Checked(p)'
  <2> SUFFICES ASSUME pc[p] = "build" PROVE \E t \in Nat : PassedAt(p, t)'
    BY DEF Checked, Same
  <2>1. PICK t \in Nat : PassedAt(p, t)
    BY DEF IInv, Process, Checked
  <2>2. clock[CloneOf[p]] \in Nat
    BY AppendAssumption DEF IInv, Shape
  <2>3. t <= clock'[CloneOf[p]]
    BY <2>1, <2>2 DEF PassedAt
  <2> QED
    BY <2>1, <2>3 DEF PassedAt, Same
<1>3. Drafted(p)'
  BY DEF IInv, Process, Drafted, Same
<1> QED
  BY <1>1, <1>2, <1>3 DEF Process

\* An idle process knows nothing it could be wrong about.
LEMMA IdleProcess ==
  ASSUME NEW p \in Procs, pc'[p] = "idle"
  PROVE  Process(p)'
BY DEF Process, Reading, Checked, Drafted

\* The clocks are natural numbers.
LEMMA ClockNat ==
  ASSUME Shape, NEW c \in Clones
  PROVE  clock[c] \in Nat
BY AppendAssumption DEF Shape

\* A step of process p alone that leaves directories and clocks alone.
LEMMA OneProcess ==
  ASSUME IInv, NEW p \in Procs, UNCHANGED <<frames, clock, written>>, Shape', Process(p)',
         \A q \in Procs \ {p} : Same(q)
  PROVE  IInv'
<1>1. Directories'
  BY DEF IInv, Directories
<1>2. Arbitrated' /\ Recorded'
  BY DEF IInv, Arbitrated, Placed, Recorded, AllFrames
<1>3. ASSUME NEW q \in Procs PROVE Process(q)'
  <2>1. CASE q = p
    BY <2>1
  <2>2. CASE q # p
    <3>1. CloneOf[q] \in Clones
      BY AppendAssumption
    <3>2. clock[CloneOf[q]] \in Nat
      BY <3>1, ClockNat DEF IInv
    <3> QED
      BY <2>2, <3>2, KeepProcess
  <2> QED
    BY <2>1, <2>2
<1> QED
  BY <1>1, <1>2, <1>3 DEF IInv

\* Reading the chain hands the process a verified copy of its directory.
LEMMA ReadChainInv ==
  ASSUME IInv, NEW p \in Procs, NEW event \in LeaseEvents \cup {"note"},
         NEW actor \in Actors \cup {NoActor}, NEW body \in Body,
         ReadChain(p, event, actor, body),
         OwnBodies = {} => event = body.event
  PROVE  IInv'
<1>1. CloneOf[p] \in Clones
  BY AppendAssumption
<1>2. Shape'
  BY <1>1 DEF IInv, Shape, ReadChain, Job
<1>3. \A q \in Procs \ {p} : Same(q)
  BY DEF IInv, Shape, ReadChain, Same
<1>4. /\ pc'[p] = "check" /\ job'[p] \in Job
      /\ seen'[p] = frames[CloneOf[p]] /\ UNCHANGED <<frames, clock, written>>
  BY DEF IInv, Shape, ReadChain, Job
<1>5. Process(p)'
  <2>1. job'[p].event = event /\ job'[p].body = body
    BY DEF IInv, Shape, ReadChain
  <2> QED
    BY <1>1, <1>4, <2>1 DEF IInv, Directories, Process, Reading, Checked, Drafted,
                            ReadChain, Verifies
<1> QED
  BY <1>2, <1>3, <1>4, <1>5, OneProcess

\* The bodies main builds are bodies.
LEMMA LeaseFlagInv ==
  ASSUME IInv, NEW p \in Procs, LeaseFlag(p)
  PROVE  IInv'
<1>0. PICK a \in Actors, ev \in Flags, n \in LeaseTicks : \E named \in OwnActors \cup {a} :
        ReadChain(p, ev, a,
            [event |-> ev, actor |-> named,
             expires |-> IF ev \in Closers THEN NoExpiry ELSE clock[CloneOf[p]] + n])
  BY DEF LeaseFlag
<1>1. PICK named \in OwnActors \cup {a} :
        ReadChain(p, ev, a,
            [event |-> ev, actor |-> named,
             expires |-> IF ev \in Closers THEN NoExpiry ELSE clock[CloneOf[p]] + n])
  BY <1>0
<1>2. ev \in LeaseEvents /\ n \in Nat /\ clock[CloneOf[p]] \in Nat /\ named \in BodyActors
  BY AppendAssumption, ClockNat DEF IInv, BodyActors
<1> DEFINE e == IF ev \in Closers THEN NoExpiry ELSE clock[CloneOf[p]] + n
<1>3. e \in Expiries
  BY <1>2 DEF Expiries
<1>4. [event |-> ev, actor |-> named, expires |-> e] \in Body
  BY <1>2, <1>3 DEF Body
<1> QED
  BY <1>1, <1>2, <1>4, ReadChainInv

\* A payload's own event and expiry make a body too.
LEMMA PlainEventInv ==
  ASSUME IInv, NEW p \in Procs, PlainEvent(p)
  PROVE  IInv'
<1> DEFINE Own == OwnBodies \cup {[event |-> "note", expires |-> NoExpiry]}
<1>0. PICK a \in PlainActors, own \in Own : \E named \in OwnActors \cup {a} :
        ReadChain(p, "note", a,
            [event |-> own.event, actor |-> named, expires |-> own.expires])
  BY DEF PlainEvent
<1>1. PICK named \in OwnActors \cup {a} :
        ReadChain(p, "note", a,
            [event |-> own.event, actor |-> named, expires |-> own.expires])
  BY <1>0
<1>2. /\ own.event \in LeaseEvents \cup {"note"} /\ own.expires \in Expiries
      /\ a \in Actors \cup {NoActor} /\ named \in BodyActors
  BY AppendAssumption DEF Expiries, BodyActors
<1>3. [event |-> own.event, actor |-> named, expires |-> own.expires] \in Body
  BY <1>2 DEF Body
<1> QED
  BY <1>1, <1>2, <1>3, ReadChainInv

\* Going back to idle changes no other process.
LEMMA IdleShape ==
  ASSUME Shape, NEW p \in Procs, Idle(p)
  PROVE  /\ pc' \in [Procs -> {"idle", "check", "build", "write"}]
         /\ job' \in [Procs -> Job \cup {NoBody}]
         /\ seen' \in [Procs -> SUBSET Frame]
         /\ draft' \in [Procs -> Frame \cup {NoBody}]
         /\ pc'[p] = "idle"
         /\ \A q \in Procs \ {p} : Same(q)
BY DEF Shape, Idle, Same

\* Dying, or being refused, forgets what the process knew.
LEMMA StopInv ==
  ASSUME IInv, NEW p \in Procs, Idle(p), UNCHANGED <<frames, clock, written>>
  PROVE  IInv'
<1>1. Shape
  BY DEF IInv
<1>2. Shape'
  BY <1>1, IdleShape DEF Shape
<1>3. Process(p)' /\ \A q \in Procs \ {p} : Same(q)
  BY <1>1, IdleShape, IdleProcess
<1> QED
  BY <1>2, <1>3, OneProcess

\* A check that passes, passes at the clock it reads.
LEMMA CheckLeaseInv ==
  ASSUME IInv, NEW p \in Procs, CheckLease(p)
  PROVE  IInv'
<1> DEFINE now == clock[CloneOf[p]]
           pass == /\ ~Unreadable(seen[p])
                   /\ Permitted(LeaseOf(seen[p]), now, job[p].event, job[p].actor)
<1>1. CASE ~pass
  BY <1>1, StopInv DEF CheckLease
<1>2. CASE pass
  <2>1. /\ pc[p] = "check" /\ pc' = [pc EXCEPT ![p] = "build"]
        /\ UNCHANGED <<job, seen, draft, frames, clock, written>>
    BY <1>2 DEF CheckLease
  <2>2. Shape' /\ pc'[p] = "build" /\ \A q \in Procs \ {p} : Same(q)
    BY <2>1 DEF IInv, Shape, Same
  <2>3. now \in Nat
    BY AppendAssumption, ClockNat DEF IInv
  <2>4. PassedAt(p, now)'
    BY <1>2, <2>1, <2>3 DEF PassedAt
  <2>5. Checked(p)' /\ Drafted(p)'
    BY <2>2, <2>3, <2>4, <2>1 DEF Checked, Drafted, PassedAt
  <2>6. Reading(p)'
    BY <2>1 DEF IInv, Process, Reading
  <2> QED
    BY <2>1, <2>2, <2>5, <2>6, OneProcess DEF Process
<1> QED
  BY <1>1, <1>2

\* The frame built on the head of the copy of the chain obeys its lease.
LEMMA BuildFrameInv ==
  ASSUME IInv, NEW p \in Procs, BuildFrame(p)
  PROVE  IInv'
<1> DEFINE now == clock[CloneOf[p]]
           h == HeadOf(seen[p])
           u == StampAfter(h, now)
           d == [seq |-> h.seq + 1, utc |-> u, prev |-> h.body, body |-> job[p].body]
<1>1. /\ pc[p] = "build"
      /\ draft' = [draft EXCEPT ![p] = d]
      /\ pc' = [pc EXCEPT ![p] = "write"]
      /\ UNCHANGED <<frames, clock, job, seen, written>>
  BY DEF BuildFrame
<1>2. now \in Nat
  BY AppendAssumption, ClockNat DEF IInv
<1>3. Reading(p) /\ job[p] \in Job /\ Directory(seen[p])
  BY <1>1 DEF IInv, Process, Reading
<1>4. h \in Frame
  BY <1>3, HeadIsLast
<1>5. h.seq \in Nat /\ h.utc \in Nat /\ h.body \in Body /\ job[p].body \in Body
  BY <1>3, <1>4 DEF Frame, Job
<1>6. u \in Nat /\ u >= now /\ u >= h.utc
  BY <1>2, <1>5 DEF StampAfter
<1>7. d \in Frame /\ Follows(d, h)
  BY <1>5, <1>6 DEF Frame, Follows
<1>8. PassedCheck(seen[p], d, job[p].actor)
  <2>1. PICK t \in Nat : PassedAt(p, t)
    BY <1>1 DEF IInv, Process, Checked
  <2>2. t <= u
    BY <2>1, <1>2, <1>6 DEF PassedAt
  <2>3. job[p].event \in LeaseEvents \cup {"note"}
    BY <1>3 DEF Job
  <2>4. OwnBodies = {} => job[p].event = d.body.event
    BY <1>3, <1>1 DEF Reading
  <2> QED
    BY <2>1, <2>2, <2>3, <2>4 DEF PassedCheck, PassedAt
<1>9. Shape' /\ pc'[p] = "write" /\ draft'[p] = d /\ \A q \in Procs \ {p} : Same(q)
  BY <1>1, <1>7 DEF IInv, Shape, Same
<1>10. Drafted(p)'
  BY <1>1, <1>7, <1>8, <1>9 DEF Drafted
<1>11. Reading(p)' /\ Checked(p)'
  BY <1>1, <1>3, <1>9 DEF Reading, Checked
<1> QED
  BY <1>1, <1>9, <1>10, <1>11, OneProcess DEF Process

-----------------------------------------------------------------------------
\* Every position below a frame of the stream is taken.
LEMMA NoGapBelow ==
  ASSUME IInv, NEW f \in AllFrames, NEW i \in 0..f.seq
  PROVE  \E g \in AllFrames : g.seq = i
BY DEF IInv, Directories, Directory, Gapless, AllFrames

\* Everything all clones hold is frames.
LEMMA AllAreFrames == ASSUME IInv PROVE AllFrames \in SUBSET Frame
BY DEF IInv, Shape, AllFrames

\* The frame that lands obeys the lease of everything below it, unless the
\* stream is forked below it.
LEMMA LandedRespects ==
  ASSUME IInv, NEW p \in Procs, pc[p] = "write",
         ~Forked(Before(AllFrames, draft[p].seq))
  PROVE  Before(AllFrames, draft[p].seq) = seen[p]
<1>1. Reading(p) /\ Drafted(p) /\ CloneOf[p] \in Clones
  BY AppendAssumption DEF IInv, Process
<1>2. seen[p] \subseteq AllFrames
  BY <1>1 DEF Reading, AllFrames
<1>3. Directory(seen[p]) /\ draft[p].seq = HeadOf(seen[p]).seq + 1 /\ draft[p].seq \in Nat
  BY <1>1 DEF Reading, Drafted, Frame
<1> QED
  BY <1>2, <1>3, AllAreFrames, CopyIsPrefix

\* The rename: the directory grows by one frame that obeys the lease below it;
\* what any older frame has below it does not change, or is forked now.
LEMMA WriteFrameInv ==
  ASSUME IInv, NEW p \in Procs, WriteFrame(p)
  PROVE  IInv'
<1> DEFINE c == CloneOf[p]
           d == draft[p]
           a == job[p].actor
           U == AllFrames
<1>1. c \in Clones /\ pc[p] = "write" /\ Idle(p) /\ UNCHANGED clock
      /\ frames' = [frames EXCEPT ![c] = @ \cup {d}]
      /\ written' = written \cup {<<d, a>>}
  BY AppendAssumption DEF WriteFrame
<1>2. Shape /\ Directories /\ Reading(p) /\ Drafted(p)
  BY DEF IInv, Process
<1>3. d \in Frame /\ Follows(d, HeadOf(seen[p])) /\ PassedCheck(seen[p], d, a)
      /\ a \in Actors \cup {NoActor}
  BY <1>1, <1>2 DEF Drafted, Reading, Job
<1>4. Shape'
  BY <1>1, <1>2, <1>3, IdleShape DEF Shape
<1>5. Directories'
  <2> SUFFICES ASSUME NEW e \in Clones PROVE Directory(frames'[e])
    BY DEF Directories
  <2>1. CASE e = c
    <3>1. Directory(frames[c]) /\ Directory(seen[p]) /\ seen[p] \subseteq frames[c]
      BY <1>1, <1>2 DEF Directories, Reading
    <3>2. frames'[c] = frames[c] \cup {d}
      BY <1>1, <1>2 DEF Shape
    <3> QED
      BY <2>1, <3>1, <3>2, <1>3, AddFrame
  <2>2. CASE e # c
    BY <2>2, <1>1, <1>2 DEF Directories, Shape
  <2> QED
    BY <2>1, <2>2
<1>6. \A q \in Procs : Process(q)'
  <2> TAKE q \in Procs
  <2>1. CASE q = p
    BY <1>1, <1>2, <2>1, IdleShape, IdleProcess
  <2>2. CASE q # p
    <3>1. Same(q)
      BY <1>1, <1>2, <2>2, IdleShape
    <3>2. CloneOf[q] \in Clones
      BY AppendAssumption
    <3>3. frames[CloneOf[q]] \subseteq frames'[CloneOf[q]]
      BY <1>1, <1>2, <3>2 DEF Shape
    <3>4. clock[CloneOf[q]] \in Nat
      BY <3>2, <1>2, ClockNat
    <3>5. clock'[CloneOf[q]] \in Nat /\ clock[CloneOf[q]] <= clock'[CloneOf[q]]
      BY <1>1, <3>4
    <3> QED
      BY <3>1, <3>3, <3>5, KeepProcess
  <2> QED
    BY <2>1, <2>2
<1>7. AllFrames' = U \cup {d}
  BY <1>1, <1>2 DEF AllFrames, Shape
<1>8. Recorded'
  BY <1>1, <1>7 DEF IInv, Recorded
<1>9. Arbitrated'
  <2> SUFFICES ASSUME NEW w \in written \cup {<<d, a>>},
                      ~Forked(Before(U \cup {d}, w[1].seq))
               PROVE  PassedCheck(Before(U \cup {d}, w[1].seq), w[1], w[2])
    BY <1>1, <1>7 DEF Arbitrated, Placed
  <2> DEFINE f == w[1]
             B == Before(U \cup {d}, f.seq)
  <2>1. U \in SUBSET Frame /\ d.seq \in Nat
    BY <1>3, AllAreFrames DEF Frame
  <2>2. CASE w = <<d, a>>
    <3>1. B = Before(U, d.seq) /\ f = d /\ w[2] = a
      BY <2>1, <2>2 DEF Before
    <3>2. B = seen[p]
      BY <3>1, <1>1, LandedRespects
    <3> QED
      BY <3>1, <3>2, <1>3
  <2>3. CASE w \in written
    <3>0. f \in U /\ f.seq \in Nat
      BY <2>1, <2>3 DEF IInv, Recorded, Frame
    <3>1. CASE d.seq < f.seq
      <4>1. PICK h \in U : h.seq = d.seq
        BY <2>1, <3>0, <3>1, NoGapBelow
      <4>2. h \in B /\ d \in B
        BY <4>1, <3>1 DEF Before
      <4>3. h = d
        BY <4>1, <4>2 DEF Forked
      <4>4. U \cup {d} = U
        BY <4>1, <4>3
      <4> QED
        BY <4>4, <2>3 DEF IInv, Arbitrated, Placed
    <3>2. CASE ~(d.seq < f.seq)
      <4>1. B = Before(U, f.seq)
        BY <3>2 DEF Before
      <4> QED
        BY <4>1, <2>3 DEF IInv, Arbitrated, Placed
    <3> QED
      BY <3>1, <3>2
  <2> QED
    BY <2>2, <2>3
<1> QED
  BY <1>4, <1>5, <1>6, <1>8, <1>9 DEF IInv

\* git only moves frames the stream already has.
LEMMA MergeInv ==
  ASSUME IInv, NEW c \in Clones, NEW d \in Clones, Merge(c, d)
  PROVE  IInv'
<1>1. frames' = [frames EXCEPT ![c] = @ \cup frames[d]]
      /\ UNCHANGED <<clock, pc, job, seen, draft, written>>
  BY DEF Merge
<1>2. Shape'
  BY <1>1 DEF IInv, Shape
<1>3. \A e \in Clones : frames'[e] = IF e = c THEN frames[c] \cup frames[d] ELSE frames[e]
  BY <1>1 DEF IInv, Shape
<1>4. Directories'
  BY <1>3, MergeDirectories DEF IInv, Directories
<1>5. AllFrames' = AllFrames
  BY <1>1, <1>3 DEF AllFrames
<1>6. Arbitrated' /\ Recorded'
  BY <1>1, <1>5 DEF IInv, Arbitrated, Placed, Recorded
<1>7. \A q \in Procs : Process(q)'
  <2> TAKE q \in Procs
  <2>1. CloneOf[q] \in Clones
    BY AppendAssumption
  <2>2. clock[CloneOf[q]] \in Nat
    BY <2>1, ClockNat DEF IInv
  <2>3. Same(q)
    BY <1>1 DEF Same
  <2> QED
    BY <1>1, <1>3, <2>1, <2>2, <2>3, KeepProcess
<1> QED
  BY <1>2, <1>4, <1>6, <1>7 DEF IInv

\* Time runs forward.
LEMMA TickInv ==
  ASSUME IInv, NEW c \in Clones, Tick(c)
  PROVE  IInv'
<1>1. /\ clock[c] < MaxClock /\ clock' = [clock EXCEPT ![c] = @ + 1]
      /\ UNCHANGED <<frames, pc, job, seen, draft, written>>
  BY DEF Tick
<1>2. \A e \in Clones : clock[e] \in Nat
  BY ClockNat DEF IInv
<1>3. \A e \in Clones : clock'[e] = IF e = c THEN clock[c] + 1 ELSE clock[e]
  BY <1>1 DEF IInv, Shape
<1>4. Shape'
  BY <1>1, <1>2, <1>3, AppendAssumption DEF IInv, Shape
<1>5. Directories' /\ Arbitrated' /\ Recorded'
  BY <1>1 DEF IInv, Directories, Arbitrated, Placed, Recorded, AllFrames
<1>6. \A q \in Procs : Process(q)'
  <2> TAKE q \in Procs
  <2>1. CloneOf[q] \in Clones
    BY AppendAssumption
  <2>2. clock'[CloneOf[q]] \in Nat /\ clock[CloneOf[q]] <= clock'[CloneOf[q]]
    BY <2>1, <1>2, <1>3
  <2>3. Same(q) /\ frames[CloneOf[q]] \subseteq frames'[CloneOf[q]]
    BY <1>1 DEF Same
  <2> QED
    BY <2>2, <2>3, KeepProcess
<1> QED
  BY <1>4, <1>5, <1>6 DEF IInv

\* A step of something else changes nothing the invariant speaks of.
LEMMA StutterInv == ASSUME IInv, UNCHANGED vars PROVE IInv'
<1>1. Shape' /\ Directories' /\ Recorded'
  BY DEF IInv, Shape, Directories, Recorded, AllFrames, vars
<1>2. AllFrames' = AllFrames /\ written' = written
  BY DEF AllFrames, vars
<1>3. Arbitrated'
  BY <1>2 DEF IInv, Arbitrated, Placed
<1>4. \A q \in Procs : Process(q)'
  BY DEF IInv, Process, Reading, Checked, PassedAt, Drafted, PassedCheck, vars
<1> QED
  BY <1>1, <1>3, <1>4 DEF IInv

\* One case for each action of Next.
LEMMA NextInv == IInv /\ [Next]_vars => IInv'
<1> SUFFICES ASSUME IInv, [Next]_vars PROVE IInv'
  OBVIOUS
<1>1. ASSUME NEW p \in Procs, LeaseFlag(p) \/ PlainEvent(p) PROVE IInv'
  BY <1>1, LeaseFlagInv, PlainEventInv
<1>2. ASSUME NEW p \in Procs, CheckLease(p) \/ BuildFrame(p) \/ WriteFrame(p) PROVE IInv'
  BY <1>2, CheckLeaseInv, BuildFrameInv, WriteFrameInv
<1>3. ASSUME NEW p \in Procs, Crash(p) PROVE IInv'
  BY <1>3, StopInv DEF Crash
<1>4. ASSUME NEW c \in Clones, NEW d \in Clones, Merge(c, d) PROVE IInv'
  BY <1>4, MergeInv
<1>5. ASSUME NEW c \in Clones, Tick(c) PROVE IInv'
  BY <1>5, TickInv
<1>6. CASE UNCHANGED vars
  BY <1>6, StutterInv
<1> QED
  BY <1>1, <1>2, <1>3, <1>4, <1>5, <1>6 DEF Next

\* Whatever the writers, their crashes and git do, the invariant holds.
THEOREM Invariance == Spec => []IInv
BY InitInv, NextInv, PTL DEF Spec

-----------------------------------------------------------------------------
\* The variables keep their types: no clock, stamp or position goes negative,
\* and a process between its steps holds a job and a frame of the right form.
THEOREM TypeCorrect == Spec => []TypeOK
<1>1. IInv => TypeOK
  BY DEF IInv, Shape, TypeOK, Job
<1> QED
  BY <1>1, Invariance, PTL

\* No interleaving of writers, crashes and merges leaves a broken chain.
THEOREM NeverBrokenHolds == Spec => []NeverBroken
<1>1. IInv => NeverBroken
  BY DEF IInv, Directories, Directory, NeverBroken
<1> QED
  BY <1>1, Invariance, PTL

\* A check passed at one time covers every later stamp: a lease only runs out.
LEMMA CheckCoversStamp ==
  ASSUME NEW l, NEW t \in Nat, NEW u \in Nat, t <= u, NEW event, NEW actor,
         Permitted(l, t, event, actor),
         Log!Binding(l, u)
  PROVE  actor = l.holder /\ event \notin Openers
BY LeaseAssumption DEF Permitted, Active, Log!Binding, LeaseEvents

\* A renewal, a release, or anything in strict mode passes only under the
\* appender's own open lease.
LEMMA CheckNeedsHolder ==
  ASSUME NEW l, NEW t, NEW event, NEW actor,
         Permitted(l, t, event, actor), event \notin Openers,
         Strict \/ event \in LeaseEvents
  PROVE  l.open /\ l.holder = actor
BY DEF Permitted, Active

\* The stamps of the frames that were written are times.
LEMMA PlacedStamps ==
  ASSUME IInv, NEW w \in Placed
  PROVE  w[1].utc \in Nat /\ w[1].body \in Body
BY DEF IInv, Shape, Placed, Frame

\* Frames stamped under an active lease were written by its holder, up to the
\* first fork and whoever they name.
THEOREM NoToeSteppingHolds == Spec => []NoToeStepping
<1>1. ASSUME IInv, NEW w \in Placed
      PROVE  RespectsLease(Before(AllFrames, w[1].seq), w[1], w[2])
  <2> DEFINE l == LeaseOf(Before(AllFrames, w[1].seq))
  <2>1. w[1].utc \in Nat
    BY <1>1, PlacedStamps
  <2>2. PICK t \in Nat, event \in LeaseEvents \cup {"note"} :
          t <= w[1].utc /\ Permitted(l, t, event, w[2])
    BY <1>1 DEF IInv, Arbitrated, PassedCheck
  <2> QED
    BY <2>1, <2>2, CheckCoversStamp DEF RespectsLease
<1>2. IInv => NoToeStepping
  BY <1>1 DEF NoToeStepping
<1> QED
  BY <1>2, Invariance, PTL

\* With payloads that name no event of their own, but any actor, the stream is
\* up to its first fork a history the lease rules allow frame by frame.
THEOREM LawfulHistoryHolds == OwnBodies = {} => (Spec => []LawfulHistory)
<1> SUFFICES ASSUME OwnBodies = {} PROVE Spec => []LawfulHistory
  OBVIOUS
<1>1. ASSUME IInv, NEW w \in Placed
      PROVE  Lawful(Before(AllFrames, w[1].seq), w[1], w[2])
  <2> DEFINE l == LeaseOf(Before(AllFrames, w[1].seq))
             event == w[1].body.event
  <2>1. w[1].utc \in Nat /\ event \in LeaseEvents \cup {"note"}
    BY <1>1, PlacedStamps DEF Body
  <2>2. PICK t \in Nat : t <= w[1].utc /\ Permitted(l, t, event, w[2])
    BY <1>1 DEF IInv, Arbitrated, PassedCheck
  <2>3. CASE event \in Openers
    BY <2>1, <2>2, <2>3, CheckCoversStamp DEF Lawful
  <2>4. CASE event \in LeaseEvents \ Openers
    BY <2>2, <2>4, CheckNeedsHolder DEF Lawful
  <2>5. CASE event \notin LeaseEvents
    BY <2>2, <2>5, CheckNeedsHolder DEF Lawful, LeaseEvents
  <2> QED
    BY <2>3, <2>4, <2>5
<1>2. IInv => LawfulHistory
  BY <1>1 DEF LawfulHistory
<1> QED
  BY <1>2, Invariance, PTL

\* Different operators fork the stream only where the lease had ended.
THEOREM ForksOutsideLeaseHolds == Spec => []ForksOutsideLease
<1>1. NoToeStepping => ForksOutsideLease
  BY DEF NoToeStepping, ForksOutsideLease, RespectsLease
<1> QED
  BY <1>1, NoToeSteppingHolds, PTL

-----------------------------------------------------------------------------
(***************************************************************************)
(* The lease, turn by turn.  lease_state is a recursive function along the *)
(* positions of a chain; the lemmas of Induction say that it exists and    *)
(* what one more frame does to it.                                         *)
(***************************************************************************)

\* Every turn of lease_state's loop takes a lease to a lease.
LEMMA AdvanceType ==
  ASSUME NEW l \in LeaseStates, NEW b \in Body
  PROVE  Advance(l, b) \in LeaseStates
BY DEF Advance, LeaseStates, Body, BodyActors

\* The loop begins with a lease nobody holds.
LEMMA NoLeaseType == NoLease \in LeaseStates
BY DEF NoLease, LeaseStates, Expiries, BodyActors

\* The loop of lease_state, turn by turn.
Turns(f, n, bodies) ==
    /\ f \in [0..n -> LeaseStates]
    /\ f[0] = NoLease
    /\ \A i \in 1..n : f[i] = Advance(f[i - 1], bodies[i])

\* The recursion of lease_state has a solution, and LeaseState is its last value.
LEMMA LeaseStateTurns ==
  ASSUME NEW n \in Nat, NEW bodies \in [1..n -> Body], Len(bodies) = n
  PROVE  \E f : Turns(f, n, bodies) /\ LeaseState(bodies) = f[n]
<1> DEFINE step == [i \in 1..n |-> [l \in LeaseStates |-> Advance(l, bodies[i])]]
           Solves(g) == g = [k \in 0..n |-> IF k = 0 THEN NoLease
                                            ELSE Advance(g[k - 1], bodies[k])]
           after == CHOOSE g : Solves(g)
<1>1. step \in [1..n -> [LeaseStates -> LeaseStates]]
  BY AdvanceType
<1>2. PICK f \in [0..n -> LeaseStates] : Along(f, n, NoLease, step)
  <2> HIDE DEF step
  <2> QED
    BY <1>1, NoLeaseType, AlongExists
<1>3. ASSUME NEW k \in 0..n
            PROVE  f[k] = IF k = 0 THEN NoLease ELSE Advance(f[k - 1], bodies[k])
  <2>1. CASE k = 0
    BY <1>2, <2>1 DEF Along
  <2>2. CASE k # 0
    <3>1. k \in 1..n /\ k - 1 \in 0..n /\ f[k - 1] \in LeaseStates
      BY <2>2, <1>2
    <3>2. f[k] = step[k][f[k - 1]]
      <4> HIDE DEF step
      <4> QED
        BY <3>1, <1>2 DEF Along
    <3> QED
      BY <2>2, <3>1, <3>2
  <2> QED
    BY <2>1, <2>2
<1>4. Solves(f)
  BY <1>2, <1>3
<1>5. Solves(after)
  <2> HIDE DEF Solves
  <2> QED
    BY <1>4
<1>6. LeaseState(bodies) = after[n]
  BY DEF LeaseState
<1> HIDE DEF after
<1>7. \A k \in 0..n : after[k] = f[k]
  <2> DEFINE S == {k \in Nat : k <= n => after[k] = f[k]}
  <2>1. 0 \in S
    BY <1>5, <1>3
  <2>2. ASSUME NEW k \in Nat, k \in S
        PROVE  k + 1 \in S
    BY <2>2, <1>5, <1>3
  <2> HIDE DEF S
  <2>3. Nat \subseteq S
    BY <2>1, <2>2, SetInduction
  <2> QED
    BY <2>3 DEF S
<1>8. Turns(f, n, bodies)
  BY <1>3 DEF Turns
<1> QED
  BY <1>6, <1>7, <1>8

\* One more body takes the lease one turn further.
LEMMA LeaseStateNext ==
  ASSUME NEW n \in Nat, NEW old \in [1..n -> Body], NEW new \in [1..(n + 1) -> Body],
         Len(old) = n, Len(new) = n + 1, \A i \in 1..n : new[i] = old[i]
  PROVE  LeaseState(new) = Advance(LeaseState(old), new[n + 1])
<1>1. PICK f : Turns(f, n, old) /\ LeaseState(old) = f[n]
  BY LeaseStateTurns
<1>2. PICK g : Turns(g, n + 1, new) /\ LeaseState(new) = g[n + 1]
  BY LeaseStateTurns
<1> DEFINE S == {k \in Nat : k <= n => f[k] = g[k]}
<1>3. 0 \in S
  BY <1>1, <1>2 DEF Turns
<1>4. ASSUME NEW k \in Nat, k \in S
      PROVE  k + 1 \in S
  <2> SUFFICES ASSUME k + 1 <= n PROVE f[k + 1] = g[k + 1]
    OBVIOUS
  <2>1. k + 1 \in 1..n /\ k + 1 \in 1..(n + 1) /\ (k + 1) - 1 = k /\ f[k] = g[k]
    BY <1>4
  <2> QED
    BY <2>1, <1>1, <1>2 DEF Turns
<1> HIDE DEF S
<1>5. Nat \subseteq S
  BY <1>3, <1>4, SetInduction
<1>6. f[n] = g[n]
  BY <1>5 DEF S
<1>7. n + 1 \in 1..(n + 1) /\ (n + 1) - 1 = n
  OBVIOUS
<1>8. g[n + 1] = Advance(g[n], new[n + 1])
  BY <1>2, <1>7 DEF Turns
<1> QED
  BY <1>1, <1>2, <1>6, <1>8

\* A chain as verify_chain returns it: a directory that is not forked.
Chain(S) == Directory(S) /\ ~Forked(S)

\* A chain has one frame at each position up to its head, and no other.
LEMMA ChainPositions ==
  ASSUME NEW S, Chain(S)
  PROVE  /\ HeadOf(S).seq \in Nat
         /\ S \in SUBSET Frame
         /\ \A f \in S : f.seq \in 0..HeadOf(S).seq
         /\ \A i \in 0..HeadOf(S).seq : At(S, i) \in S /\ At(S, i).seq = i
         /\ \A f \in S : At(S, f.seq) = f
<1>1. IsHead(HeadOf(S), S) /\ HeadOf(S) \in Frame /\ S \in SUBSET Frame
  BY HeadIsLast DEF Chain, Directory
<1>2. HeadOf(S).seq \in Nat /\ \A f \in S : f.seq \in Nat
  BY <1>1 DEF Frame
<1>3. \A f \in S : f.seq \in 0..HeadOf(S).seq
  BY <1>1, <1>2 DEF IsHead
<1>4. ASSUME NEW i \in 0..HeadOf(S).seq
      PROVE  At(S, i) \in S /\ At(S, i).seq = i
  <2>1. \E f \in S : f.seq = i
    BY <1>1 DEF Chain, Directory, Gapless, IsHead
  <2> QED
    BY <2>1 DEF At
<1>5. \A f \in S : At(S, f.seq) = f
  BY <1>3, <1>4 DEF Chain, Forked
<1> QED
  BY <1>1, <1>2, <1>3, <1>4, <1>5

\* It has as many frames as positions.
LEMMA ChainSize ==
  ASSUME NEW S, Chain(S)
  PROVE  IsFiniteSet(S) /\ Cardinality(S) = HeadOf(S).seq + 1
<1> DEFINE n == HeadOf(S).seq
           place == [f \in S |-> f.seq]
<1>1. n \in Nat /\ (\A f \in S : f.seq \in 0..n)
  BY ChainPositions
<1>2. place \in Bijection(S, 0..n)
  <2>1. place \in [S -> 0..n]
    BY <1>1
  <2>2. \A f, g \in S : place[f] = place[g] => f = g
    BY DEF Chain, Forked
  <2>3. \A i \in 0..n : \E f \in S : place[f] = i
    BY ChainPositions
  <2> HIDE DEF place
  <2> QED
    BY <2>1, <2>2, <2>3, Fun_IsBij
<1>3. IsFiniteSet(0..n) /\ Cardinality(0..n) = n + 1
  BY <1>1, FS_Interval
<1>4. ExistsBijection(S, 0..n)
  BY <1>2 DEF ExistsBijection
<1> QED
  BY <1>3, <1>4, FS_Bijection, Fun_ExistsBijSymmetric

\* The bodies of a chain, in the order of its positions.
LEMMA ChainBodies ==
  ASSUME NEW S, Chain(S)
  PROVE  LET n == HeadOf(S).seq + 1
         IN  /\ n \in Nat
             /\ Bodies(S) \in [1..n -> Body]
             /\ Len(Bodies(S)) = n
             /\ \A f \in S : f.seq + 1 \in 1..n /\ Bodies(S)[f.seq + 1] = f.body
<1> DEFINE n == HeadOf(S).seq + 1
<1>1. n \in Nat /\ Cardinality(S) = n
  BY ChainPositions, ChainSize
<1>2. Bodies(S) = [i \in 1..n |-> At(S, i - 1).body]
  BY <1>1 DEF Bodies
<1>3. \A i \in 1..n : At(S, i - 1) \in Frame
  <2> TAKE i \in 1..n
  <2>1. i - 1 \in 0..HeadOf(S).seq
    BY <1>1, ChainPositions
  <2> QED
    BY <2>1, ChainPositions
<1>4. Bodies(S) \in [1..n -> Body]
  BY <1>2, <1>3 DEF Frame
<1>5. Len(Bodies(S)) = n
  BY <1>1, <1>2
<1>6. ASSUME NEW f \in S
      PROVE  f.seq + 1 \in 1..n /\ Bodies(S)[f.seq + 1] = f.body
  <2>1. f.seq \in 0..HeadOf(S).seq /\ At(S, f.seq) = f /\ HeadOf(S).seq \in Nat
    BY ChainPositions
  <2>2. f.seq + 1 \in 1..n /\ (f.seq + 1) - 1 = f.seq
    BY <2>1
  <2> QED
    BY <1>2, <2>1, <2>2
<1> QED
  BY <1>1, <1>4, <1>5, <1>6

\* The head of a directory is its only frame that nothing in it comes after.
LEMMA ChainHead ==
  ASSUME NEW S, Chain(S), NEW h, IsHead(h, S)
  PROVE  HeadOf(S) = h
<1>1. IsHead(HeadOf(S), S) /\ S \in SUBSET Frame
  BY HeadIsLast DEF Chain, Directory
<1>2. HeadOf(S).seq \in Nat /\ h.seq \in Nat /\ HeadOf(S).seq = h.seq
  BY <1>1 DEF IsHead, Frame
<1> QED
  BY <1>1, <1>2 DEF IsHead, Chain, Forked

\* A frame at the next position makes a longer chain, and takes its lease on.
LEMMA ChainGrows ==
  ASSUME NEW S, Chain(S), NEW d \in Frame, d.seq = HeadOf(S).seq + 1,
         Follows(d, HeadOf(S))
  PROVE  /\ Chain(S \cup {d})
         /\ HeadOf(S \cup {d}) = d
         /\ LeaseOf(S \cup {d}) = Advance(LeaseOf(S), d.body)
<1> DEFINE R == S \cup {d}
           n == HeadOf(S).seq + 1
<1>1. n \in Nat /\ S \in SUBSET Frame /\ \A f \in S : f.seq \in Nat /\ f.seq < n
  BY ChainPositions
<1>2. Chain(R)
  <2>1. Directory(R)
    BY AddFrame DEF Chain
  <2>2. ~Forked(R)
    BY <1>1 DEF Chain, Forked
  <2> QED
    BY <2>1, <2>2 DEF Chain
<1>3. IsHead(d, R)
  BY <1>1 DEF IsHead
<1>4. HeadOf(R) = d
  BY <1>2, <1>3, ChainHead
<1> HIDE DEF R
<1>5. /\ Bodies(R) \in [1..(n + 1) -> Body] /\ Len(Bodies(R)) = n + 1
      /\ \A f \in R : f.seq + 1 \in 1..(n + 1) /\ Bodies(R)[f.seq + 1] = f.body
  BY <1>2, <1>4, ChainBodies
<1>6. /\ Bodies(S) \in [1..n -> Body] /\ Len(Bodies(S)) = n
      /\ \A f \in S : f.seq + 1 \in 1..n /\ Bodies(S)[f.seq + 1] = f.body
  BY ChainBodies
<1>7. ASSUME NEW i \in 1..n
      PROVE  Bodies(R)[i] = Bodies(S)[i]
  <2>1. i - 1 \in 0..HeadOf(S).seq
    BY <1>1, ChainPositions
  <2>2. PICK f \in S : f.seq = i - 1
    BY <2>1, ChainPositions
  <2>3. f \in R /\ f.seq + 1 = i
    BY <2>2 DEF R
  <2> QED
    BY <1>5, <1>6, <2>2, <2>3
<1>8. Bodies(R)[n + 1] = d.body
  BY <1>5 DEF R
<1>9. LeaseState(Bodies(R)) = Advance(LeaseState(Bodies(S)), Bodies(R)[n + 1])
  BY <1>1, <1>5, <1>6, <1>7, LeaseStateNext
<1> QED
  BY <1>2, <1>4, <1>8, <1>9 DEF LeaseOf, R

\* A lease that has gone through a chain is a lease.
LEMMA LeaseOfType ==
  ASSUME NEW S, Chain(S)
  PROVE  LeaseOf(S) \in LeaseStates
<1> DEFINE n == HeadOf(S).seq + 1
<1>1. n \in Nat /\ Bodies(S) \in [1..n -> Body] /\ Len(Bodies(S)) = n
  BY ChainBodies
<1>2. PICK f : Turns(f, n, Bodies(S)) /\ LeaseState(Bodies(S)) = f[n]
  BY <1>1, LeaseStateTurns
<1> QED
  BY <1>1, <1>2 DEF Turns, LeaseOf

\* The genesis frame grants nothing.
LEMMA GenesisLease ==
  /\ Chain({Genesis})
  /\ HeadOf({Genesis}) = Genesis
  /\ LeaseOf({Genesis}) = NoLease
<1> DEFINE S == {Genesis}
<1>1. Chain(S)
  BY GenesisDirectory DEF Chain, Forked
<1>2. HeadOf(S) = Genesis
  BY DEF HeadOf, IsHead, Genesis
<1>3. HeadOf(S).seq + 1 = 1
  BY <1>2 DEF Genesis
<1>4. /\ Bodies(S) \in [1..1 -> Body] /\ Len(Bodies(S)) = 1
      /\ Bodies(S)[1] = Genesis.body
  <2>1. Genesis.seq + 1 = 1
    BY DEF Genesis
  <2> QED
    BY <1>1, <1>3, <2>1, ChainBodies
<1>5. PICK f : Turns(f, 1, Bodies(S)) /\ LeaseState(Bodies(S)) = f[1]
  BY <1>4, LeaseStateTurns
<1>6. f[1] = Advance(NoLease, Genesis.body)
  BY <1>4, <1>5 DEF Turns
<1>7. Advance(NoLease, Genesis.body) = NoLease
  BY DEF Advance, Genesis, Openers, Closers
<1> QED
  BY <1>1, <1>2, <1>5, <1>6, <1>7 DEF LeaseOf

-----------------------------------------------------------------------------
(***************************************************************************)
(* The refinement.  Everything all clones hold together is a directory,    *)
(* and until it forks every copy of the chain is the beginning of it.      *)
(***************************************************************************)

\* A frame about to be written is the job's and is stamped after the head of the
\* copy it is built on; a job that is a lease event is an operator's.
Composed(p) ==
    pc[p] # "idle" =>
        /\ job[p].body.event \in LeaseEvents => job[p].actor \in Actors
        /\ pc[p] = "write" => /\ draft[p].body = job[p].body
                              /\ draft[p].utc > HeadOf(seen[p]).utc

LogInv == IInv /\ HasHead(AllFrames) /\ \A p \in Procs : Composed(p)

\* Initially the genesis frame is all there is.
LEMMA LogInitial == Init => LogInv /\ AllFrames = {Genesis}
<1> SUFFICES ASSUME Init PROVE LogInv /\ AllFrames = {Genesis}
  OBVIOUS
<1>1. AllFrames = {Genesis}
  BY AppendAssumption DEF Init, AllFrames
<1>2. HasHead(AllFrames)
  BY <1>1, GenesisDirectory DEF Directory
<1>3. \A p \in Procs : Composed(p)
  BY DEF Init, Composed
<1> QED
  BY <1>1, <1>2, <1>3, InitInv DEF LogInv

\* A process keeps what it composed while others run.
LEMMA KeepComposed ==
  ASSUME NEW p \in Procs, Composed(p), Same(p)
  PROVE  Composed(p)'
BY DEF Composed, Same

\* A job with no event of the payload's own is an operator's when it is a lease
\* event.
LEMMA ReadComposed ==
  ASSUME IInv, NEW p \in Procs, NEW event, NEW actor, NEW body,
         ReadChain(p, event, actor, body),
         body.event \in LeaseEvents => actor \in Actors
  PROVE  /\ \A q \in Procs \ {p} : Same(q)
         /\ Composed(p)'
<1>1. pc'[p] = "check" /\ job'[p].body = body /\ job'[p].actor = actor
  BY DEF IInv, Shape, ReadChain
<1> QED
  BY <1>1 DEF IInv, Shape, ReadChain, Same, Composed

\* Every step keeps every process's draft composed.
LEMMA ComposedNext ==
  ASSUME OwnBodies = {}, LogInv, [Next]_vars, NEW q \in Procs
  PROVE  Composed(q)'
<1>1. IInv /\ Shape /\ Composed(q)
  BY DEF LogInv, IInv
<1>2. ASSUME NEW p \in Procs, LeaseFlag(p)
      PROVE  Composed(q)'
  <2>0. PICK a \in Actors, ev \in Flags, n \in LeaseTicks : \E named \in OwnActors \cup {a} :
          ReadChain(p, ev, a,
              [event |-> ev, actor |-> named,
               expires |-> IF ev \in Closers THEN NoExpiry ELSE clock[CloneOf[p]] + n])
    BY <1>2 DEF LeaseFlag
  <2>1. PICK named \in OwnActors \cup {a} :
          ReadChain(p, ev, a,
              [event |-> ev, actor |-> named,
               expires |-> IF ev \in Closers THEN NoExpiry ELSE clock[CloneOf[p]] + n])
    BY <2>0
  <2> QED
    BY <1>1, <2>1, ReadComposed, KeepComposed
<1>3. ASSUME NEW p \in Procs, PlainEvent(p)
      PROVE  Composed(q)'
  <2>0. PICK a \in PlainActors : \E named \in OwnActors \cup {a} :
          ReadChain(p, "note", a, [event |-> "note", actor |-> named, expires |-> NoExpiry])
    BY <1>3 DEF PlainEvent
  <2>1. PICK named \in OwnActors \cup {a} :
          ReadChain(p, "note", a, [event |-> "note", actor |-> named, expires |-> NoExpiry])
    BY <2>0
  <2>2. "note" \notin LeaseEvents
    BY DEF LeaseEvents, Openers, Closers
  <2> QED
    BY <1>1, <2>1, <2>2, ReadComposed, KeepComposed
<1>4. ASSUME NEW p \in Procs, Idle(p)
      PROVE  Composed(q)'
  <2>1. pc'[p] = "idle" /\ \A r \in Procs \ {p} : Same(r)
    BY <1>1, <1>4, IdleShape
  <2> QED
    BY <1>1, <2>1, KeepComposed DEF Composed
<1>5. ASSUME NEW p \in Procs, CheckLease(p)
      PROVE  Composed(q)'
  <2>1. CASE Idle(p)
    BY <1>4, <2>1
  <2>2. CASE ~Idle(p)
    <3>1. pc[p] = "check" /\ pc' = [pc EXCEPT ![p] = "build"] /\ UNCHANGED <<job, seen, draft>>
      BY <1>5, <2>2 DEF CheckLease
    <3> QED
      BY <1>1, <3>1 DEF Shape, Composed
  <2> QED
    BY <2>1, <2>2
<1>6. ASSUME NEW p \in Procs, BuildFrame(p)
      PROVE  Composed(q)'
  <2> DEFINE h == HeadOf(seen[p])
             now == clock[CloneOf[p]]
  <2>1. /\ pc[p] = "build" /\ pc' = [pc EXCEPT ![p] = "write"]
        /\ draft'[p].body = job[p].body /\ draft'[p].utc = StampAfter(h, now)
        /\ \A r \in Procs \ {p} : draft'[r] = draft[r]
        /\ UNCHANGED <<job, seen>>
    BY <1>1, <1>6 DEF BuildFrame, Shape
  <2>2. h \in Frame /\ now \in Nat
    BY <1>1, <2>1, HeadIsLast, ClockNat, AppendAssumption DEF IInv, Process, Reading
  <2>3. StampAfter(h, now) > h.utc
    BY <2>2 DEF StampAfter, Frame
  <2>4. CASE q = p
    BY <1>1, <2>1, <2>3, <2>4 DEF Shape, Composed
  <2>5. CASE q # p
    BY <1>1, <2>1, <2>5, KeepComposed DEF Shape, Same
  <2> QED
    BY <2>4, <2>5
<1>7. ASSUME UNCHANGED <<pc, job, seen, draft>>
      PROVE  Composed(q)'
  BY <1>1, <1>7 DEF Composed
<1> QED
  BY <1>2, <1>3, <1>4, <1>5, <1>6, <1>7 DEF Next, WriteFrame, Crash, Merge, Tick, vars

\* What all clones hold together is a directory.
LEMMA AllDirectory == ASSUME LogInv PROVE Directory(AllFrames)
<1>1. \A c \in Clones : Directory(frames[c])
  BY DEF LogInv, IInv, Directories
<1>2. AllFrames \in SUBSET Frame /\ Genesis \in AllFrames
  BY <1>1, AppendAssumption DEF Directory, AllFrames
<1>3. Gapless(AllFrames) /\ Linked(AllFrames)
  BY <1>1 DEF Directory, Gapless, Linked, AllFrames
<1> QED
  BY <1>2, <1>3 DEF Directory, LogInv

\* Only the rename adds a frame to what all clones hold.
LEMMA AllFramesNext ==
  ASSUME IInv, [Next]_vars
  PROVE  \/ AllFrames' = AllFrames
         \/ \E p \in Procs : /\ WriteFrame(p)
                             /\ AllFrames' = AllFrames \cup {draft[p]}
<1>1. CASE UNCHANGED frames
  BY <1>1 DEF AllFrames
<1>2. ASSUME NEW p \in Procs, WriteFrame(p)
      PROVE  AllFrames' = AllFrames \cup {draft[p]}
  <2>1. CloneOf[p] \in Clones /\ frames' = [frames EXCEPT ![CloneOf[p]] = @ \cup {draft[p]}]
    BY <1>2, AppendAssumption DEF WriteFrame
  <2> QED
    BY <2>1 DEF AllFrames, IInv, Shape
<1>3. ASSUME NEW c \in Clones, NEW d \in Clones, Merge(c, d)
      PROVE  AllFrames' = AllFrames
  BY <1>3 DEF Merge, AllFrames, IInv, Shape
<1>4. ASSUME NEW p \in Procs, \/ LeaseFlag(p) \/ PlainEvent(p) \/ CheckLease(p)
                              \/ BuildFrame(p) \/ Crash(p)
      PROVE  UNCHANGED frames
  BY <1>4 DEF LeaseFlag, PlainEvent, ReadChain, CheckLease, BuildFrame, Crash
<1> QED
  BY <1>1, <1>2, <1>3, <1>4 DEF Next, Tick, vars

\* The frame that is written is the next one of its writer's copy of the chain.
LEMMA Written ==
  ASSUME LogInv, NEW p \in Procs, WriteFrame(p)
  PROVE  /\ pc[p] = "write" /\ Composed(p)
         /\ draft[p] \in Frame /\ Directory(seen[p]) /\ seen[p] \subseteq AllFrames
         /\ draft[p].seq = HeadOf(seen[p]).seq + 1
         /\ Follows(draft[p], HeadOf(seen[p]))
         /\ PassedCheck(seen[p], draft[p], job[p].actor)
         /\ job[p].actor \in Actors \cup {NoActor}
<1>1. pc[p] = "write" /\ Process(p) /\ Composed(p) /\ CloneOf[p] \in Clones
  BY AppendAssumption DEF WriteFrame, LogInv, IInv
<1> QED
  BY <1>1 DEF Process, Reading, Drafted, AllFrames, Job

\* A stream with a frame at every position still has a last one.
LEMMA HeadNext == ASSUME LogInv, [Next]_vars PROVE HasHead(AllFrames)'
<1>1. CASE AllFrames' = AllFrames
  BY <1>1 DEF LogInv, HasHead, IsHead
<1>2. ASSUME NEW p \in Procs, WriteFrame(p), AllFrames' = AllFrames \cup {draft[p]}
      PROVE  HasHead(AllFrames)'
  <2>1. PICK k \in AllFrames : IsHead(k, AllFrames)
    BY DEF LogInv, HasHead
  <2>2. draft[p] \in Frame /\ \A f \in AllFrames : f \in Frame
    BY <1>2, Written, AllDirectory DEF Directory
  <2>3. k.seq \in Nat /\ draft[p].seq \in Nat /\ \A f \in AllFrames : f.seq \in Nat
    BY <2>2 DEF Frame
  <2>4. CASE draft[p].seq <= k.seq
    BY <1>2, <2>1, <2>3, <2>4 DEF HasHead, IsHead
  <2>5. CASE k.seq < draft[p].seq
    BY <1>2, <2>1, <2>3, <2>5 DEF HasHead, IsHead
  <2> QED
    BY <2>3, <2>4, <2>5
<1> QED
  BY <1>1, <1>2, AllFramesNext DEF LogInv

\* All of that stays as it is in every step.
LEMMA LogInvNext == ASSUME OwnBodies = {}, LogInv, [Next]_vars PROVE LogInv'
BY NextInv, HeadNext, ComposedNext DEF LogInv

\* While the stream is not forked, a frame lands at a taken position or right
\* after the head, built on everything there is.
LEMMA Landing ==
  ASSUME LogInv, NEW p \in Procs, WriteFrame(p), ~Forked(AllFrames),
         \A g \in AllFrames : g.seq # draft[p].seq
  PROVE  seen[p] = AllFrames
<1> DEFINE U == AllFrames
           d == draft[p]
<1>1. Chain(U)
  BY AllDirectory DEF Chain
<1>2. /\ HeadOf(U).seq \in Nat /\ U \in SUBSET Frame
      /\ \A f \in U : f.seq \in 0..HeadOf(U).seq
      /\ \A i \in 0..HeadOf(U).seq : \E f \in U : f.seq = i
  BY <1>1, ChainPositions
<1>3. d.seq \in Nat
  BY Written DEF Frame
<1>4. ~(d.seq \in 0..HeadOf(U).seq)
  BY <1>2
<1>5. Before(U, d.seq) = U
  BY <1>2, <1>3, <1>4 DEF Before
<1> QED
  BY <1>5, Written, LandedRespects DEF LogInv

\* What check_lease lets through under the lease l for operator a is a grant, a
\* renewal, a release or a note of the log, judged at any later time u.  A grant
\* is to whoever the body names.
LEMMA LawfulTurn ==
  ASSUME NEW l \in LeaseStates, NEW b \in Body, NEW t \in Nat, NEW u \in Nat, t <= u,
         NEW a \in Actors \cup {NoActor}, Permitted(l, t, b.event, a),
         b.event \in LeaseEvents => a \in Actors, ~Raises(b),
         NEW after, after = Advance(l, b)
  PROVE  \/ /\ b.actor \in Actors \cup {NoActor} /\ ~Log!Binding(l, u)
            /\ after = [holder |-> b.actor, expires |-> after.expires, open |-> TRUE]
         \/ /\ Log!Holds(l, a)
            /\ \/ after = [l EXCEPT !.expires = after.expires]
               \/ after = [l EXCEPT !.open = FALSE]
         \/ /\ Log!Binding(l, u) => Log!Holds(l, a)
            /\ Strict => Log!Holds(l, a)
            /\ after = l
<1>1. /\ b.event \in LeaseEvents \cup {"note"} /\ b.actor \in BodyActors
      /\ l = [l EXCEPT !.expires = l.expires]
  BY DEF Body, LeaseStates
<1>2. b.event \notin Openers => /\ b.event \in LeaseEvents \/ Strict \/ Log!Binding(l, u)
                                     => Log!Holds(l, a)
  <2> SUFFICES ASSUME b.event \notin Openers,
                      b.event \in LeaseEvents \/ Strict \/ Log!Binding(l, u)
               PROVE  Log!Holds(l, a)
    OBVIOUS
  <2>1. Active(l, t) /\ a = l.holder
    BY LeaseAssumption DEF Permitted, Active, Log!Binding
  <2> QED
    BY <2>1 DEF Active, Log!Holds
<1>3. CASE b.event \in Openers
  <2>1. ~Log!Binding(l, u)
    BY <1>3, CheckCoversStamp
  <2>2. after = [holder |-> b.actor, expires |-> b.expires, open |-> TRUE]
    BY <1>3, Zenon DEF Advance, Openers, Closers
  <2>3. b.actor \in Actors \cup {NoActor}
    BY <1>1, <1>3 DEF Raises, BodyActors
  <2> QED
    BY <2>1, <2>2, <2>3
<1>4. CASE b.event \in Closers
  <2>1. after = [l EXCEPT !.open = FALSE]
    BY <1>4, Zenon DEF Advance, Openers, Closers
  <2>2. b.event \in LeaseEvents /\ b.event \notin Openers
    BY <1>4 DEF LeaseEvents, Openers, Closers
  <2> QED
    BY <2>1, <2>2, <1>2
<1>5. CASE b.event = "work.heartbeat"
  <2>1. after = l \/ after = [l EXCEPT !.expires = b.expires]
    BY <1>5, Zenon DEF Advance, Openers, Closers
  <2>2. b.event \in LeaseEvents /\ b.event \notin Openers
    BY <1>5 DEF LeaseEvents, Openers
  <2>3. after = [l EXCEPT !.expires = after.expires]
    BY <2>1, <1>1 DEF LeaseStates
  <2> QED
    BY <2>2, <2>3, <1>2
<1>6. CASE b.event = "note"
  <2>1. after = l
    BY <1>6, Zenon DEF Advance, Openers, Closers
  <2>2. b.event \notin Openers
    BY <1>6 DEF Openers
  <2> QED
    BY <2>1, <2>2, <1>1, <1>2
<1> QED
  BY <1>1, <1>3, <1>4, <1>5, <1>6 DEF LeaseEvents

\* A frame right after the head that everybody can read is one entry of the log
\* that the lease allows.
LEMMA EntryStep ==
  ASSUME OwnBodies = {}, LogInv, NEW p \in Procs, WriteFrame(p),
         ~Ended, seen[p] = AllFrames, ~Raises(draft[p].body),
         AllFrames' = AllFrames \cup {draft[p]}
  PROVE  Log!LogNext
<1> DEFINE U == AllFrames
           d == draft[p]
           l == LeaseOf(U)
           b == d.body
           a == job[p].actor
<1>1. Chain(U)
  BY AllDirectory DEF Chain, Ended
<1>2. /\ d \in Frame /\ d.seq = HeadOf(U).seq + 1 /\ Follows(d, HeadOf(U))
      /\ PassedCheck(U, d, a) /\ d.utc > HeadOf(U).utc
      /\ b.event \in LeaseEvents => a \in Actors
      /\ a \in Actors \cup {NoActor}
  BY Written DEF Composed
<1>3. Chain(U \cup {d}) /\ HeadOf(U \cup {d}) = d /\ LeaseOf(U \cup {d}) = Advance(l, b)
  BY <1>1, <1>2, ChainGrows
<1>4. l \in LeaseStates
  BY <1>1, LeaseOfType
<1>5. PICK t \in Nat : t <= d.utc /\ Permitted(l, t, b.event, a)
  BY <1>2 DEF PassedCheck
<1>6. d.utc \in Nat /\ b \in Body /\ ~Raises(b)
  BY <1>2 DEF Frame
<1> DEFINE v == Advance(l, b)
<1>7. /\ ~Forked(AllFrames') /\ LeaseOf(AllFrames') = v /\ HeadOf(AllFrames') = d
      /\ ~Unreadable(AllFrames')
  BY <1>3 DEF Chain, Ended, Unreadable
<1>8. \/ /\ b.actor \in Actors \cup {NoActor} /\ ~Log!Binding(l, d.utc)
         /\ v = [holder |-> b.actor, expires |-> v.expires, open |-> TRUE]
      \/ /\ Log!Holds(l, a)
         /\ v = [l EXCEPT !.expires = v.expires] \/ v = [l EXCEPT !.open = FALSE]
      \/ /\ Log!Binding(l, d.utc) => Log!Holds(l, a)
         /\ Strict => Log!Holds(l, a)
         /\ v = l
  <2> HIDE DEF l, d, b, a, v
  <2>1. v = Advance(l, b)
    BY DEF v
  <2> QED
    BY <1>2, <1>4, <1>5, <1>6, <2>1, LawfulTurn
<1>9. LeaseOf(AllFrames) = l /\ HeadOf(AllFrames).utc < d.utc /\ HeadOf(AllFrames).utc \in Nat
  <2>1. HeadOf(AllFrames) \in Frame
    BY <1>1, HeadIsLast DEF Chain
  <2> QED
    BY <1>2, <1>6, <2>1 DEF Frame
<1> HIDE DEF l, d, v, b, a
<1>10. ~Ended' /\ LeaseOf(AllFrames)' = v /\ (HeadOf(AllFrames).utc)' = d.utc
  BY <1>7 DEF Ended
<1>11. Log!Entry
  <2>1. ~Ended /\ Ended' = FALSE /\ Ended = FALSE
    BY <1>10 DEF Ended
  <2> QED
    BY <1>6, <1>9, <1>10, <2>1 DEF Log!Entry
<1>12. CASE /\ b.actor \in Actors \cup {NoActor} /\ ~Log!Binding(l, d.utc)
            /\ v = [holder |-> b.actor, expires |-> v.expires, open |-> TRUE]
  <2>1. Log!Grant(b.actor)
    BY <1>9, <1>10, <1>12 DEF Log!Grant, Log!Binding
  <2> QED
    BY <1>11, <1>12, <2>1 DEF Log!LogNext
<1>13. CASE /\ Log!Holds(l, a)
            /\ v = [l EXCEPT !.expires = v.expires] \/ v = [l EXCEPT !.open = FALSE]
  <2>1. Log!Renew(a) \/ Log!Release(a)
    BY <1>9, <1>10, <1>13 DEF Log!Renew, Log!Release, Log!Holds
  <2> QED
    BY <1>2, <1>11, <2>1 DEF Log!LogNext
<1>14. CASE /\ Log!Binding(l, d.utc) => Log!Holds(l, a)
            /\ Strict => Log!Holds(l, a)
            /\ v = l
  <2>1. Log!Note(a)
    BY <1>9, <1>10, <1>14 DEF Log!Note, Log!Binding, Log!Holds
  <2> QED
    BY <1>2, <1>11, <2>1 DEF Log!LogNext
<1> QED
  BY <1>8, <1>12, <1>13, <1>14

\* A second frame at a taken position, or a grant nobody can read, ends the log.
LEMMA EndStep ==
  ASSUME LogInv, ~Ended, Ended'
  PROVE  Log!End
<1>1. Ended' = TRUE
  BY DEF Ended
<1>2. (IF Ended THEN NoLease ELSE LeaseOf(AllFrames))' = NoLease
  BY <1>1
<1>3. (IF Ended THEN 0 ELSE HeadOf(AllFrames).utc)' = 0
  BY <1>1
<1>4. NoLease = Log!NoLease
  BY DEF NoLease, Log!NoLease
<1> QED
  BY <1>1, <1>2, <1>3, <1>4 DEF Log!End

\* Reads, checks, stamps, renames, merges and crashes of any number of clones
\* amount to entries of one log under one lease, or to a visible end of it, when
\* payloads carry no event of their own.
THEOREM ImplementsLogHolds == OwnBodies = {} => (Spec => ImplementsLog)
<1> SUFFICES ASSUME OwnBodies = {} PROVE Spec => ImplementsLog
  OBVIOUS
<1>1. Init => Log!LogInit
  <2> SUFFICES ASSUME Init PROVE Log!LogInit
    OBVIOUS
  <2>1. AllFrames = {Genesis}
    BY LogInitial
  <2>2. Ended = FALSE
    <3>1. ~Forked({Genesis})
      BY DEF Forked
    <3>2. ~Unreadable({Genesis})
      BY DEF Unreadable, Raises, Genesis, Openers
    <3> QED
      BY <2>1, <3>1, <3>2 DEF Ended
  <2>3. LeaseOf(AllFrames) = Log!NoLease /\ HeadOf(AllFrames).utc = 0
    BY <2>1, GenesisLease DEF Genesis, NoLease, Log!NoLease
  <2> QED
    BY <2>2, <2>3 DEF Log!LogInit
<1>2. LogInv /\ [Next]_vars => [Log!LogNext]_(Log!logVars)
  <2> SUFFICES ASSUME LogInv, [Next]_vars PROVE [Log!LogNext]_(Log!logVars)
    OBVIOUS
  <2>1. CASE AllFrames' = AllFrames
    BY <2>1 DEF Log!logVars, Ended
  <2>2. ASSUME NEW p \in Procs, WriteFrame(p), AllFrames' = AllFrames \cup {draft[p]},
               AllFrames' # AllFrames
        PROVE  [Log!LogNext]_(Log!logVars)
    <3>1. CASE Ended
      <4>1. Ended = TRUE /\ Ended' = TRUE
        BY <2>2, <3>1 DEF Ended, Forked, Unreadable
      <4> QED
        BY <4>1 DEF Log!logVars
    <3>2. CASE ~Ended /\ \E g \in AllFrames : g.seq = draft[p].seq
      <4>1. Forked(AllFrames')
        BY <2>2, <3>2 DEF Forked
      <4>2. Ended'
        BY <4>1 DEF Ended
      <4> QED
        BY <3>2, <4>2, EndStep DEF Log!LogNext
    <3>3. CASE ~Ended /\ Raises(draft[p].body)
      <4>1. Unreadable(AllFrames')
        BY <2>2, <3>3 DEF Unreadable
      <4>2. Ended'
        BY <4>1 DEF Ended
      <4> QED
        BY <3>3, <4>2, EndStep DEF Log!LogNext
    <3>4. CASE ~Ended /\ ~Raises(draft[p].body) /\ \A g \in AllFrames : g.seq # draft[p].seq
      <4>1. seen[p] = AllFrames
        BY <2>2, <3>4, Landing DEF Ended
      <4> QED
        BY <2>2, <3>4, <4>1, EntryStep
    <3> QED
      BY <3>1, <3>2, <3>3, <3>4
  <2> QED
    BY <2>1, <2>2, AllFramesNext DEF LogInv
<1>3. Init => LogInv
  BY LogInitial
<1>4. LogInv /\ [Next]_vars => LogInv'
  BY LogInvNext
<1> QED
  BY <1>1, <1>2, <1>3, <1>4, PTL DEF Spec, ImplementsLog, Log!LogSpec

-----------------------------------------------------------------------------
(***************************************************************************)
(* The lease a chain implies, and the one a reader of its history sees.    *)
(***************************************************************************)

\* The grants and releases of a history, and what has named an expiry since t.
GrantsAndReleases(S) == {f \in S : f.body.event \in Openers \cup Closers}
NamedSince(S, t) == {f \in S : /\ f.body.event = "work.heartbeat"
                               /\ f.body.expires # NoExpiry
                               /\ f.seq > t.seq} \cup {t}

\* The lease l is the one the history S shows.
Shows(S, l) ==
    IF \/ GrantsAndReleases(S) = {}
       \/ HeadOf(GrantsAndReleases(S)).body.event \in Closers
    THEN ~l.open
    ELSE /\ l.open
         /\ l.holder = HeadOf(GrantsAndReleases(S)).body.actor
         /\ l.expires = HeadOf(NamedSince(S, HeadOf(GrantsAndReleases(S)))).body.expires

Understood(S) ==
    /\ GrantsAndReleases(S) # {} => HasHead(GrantsAndReleases(S))
    /\ Shows(S, LeaseOf(S))

\* A part of a chain has one last frame.
LEMMA PartHead ==
  ASSUME NEW S, Chain(S), NEW T, T \subseteq S, NEW h, IsHead(h, T)
  PROVE  HeadOf(T) = h
<1>1. IsHead(HeadOf(T), T)
  <2>1. h \in T
    BY DEF IsHead
  <2> QED
    BY <2>1 DEF HeadOf
<1>2. HeadOf(T) \in S /\ h \in S /\ S \in SUBSET Frame
  BY <1>1, ChainPositions DEF IsHead
<1>3. HeadOf(T).seq = h.seq
  BY <1>1, <1>2 DEF IsHead, Frame
<1> QED
  BY <1>2, <1>3 DEF Chain, Forked

\* One more frame changes what a reader sees as it changes the lease.
LEMMA UnderstoodNext ==
  ASSUME NEW S, Chain(S), Understood(S), NEW d \in Frame,
         d.seq = HeadOf(S).seq + 1, Follows(d, HeadOf(S))
  PROVE  Understood(S \cup {d})
<1> DEFINE R == S \cup {d}
           l == LeaseOf(S)
           after == LeaseOf(R)
           G == GrantsAndReleases(S)
           H == GrantsAndReleases(R)
<1>1. Chain(R) /\ after = Advance(l, d.body) /\ l \in LeaseStates
  BY ChainGrows, LeaseOfType
<1>2. d \in R /\ d.body \in Body /\ d.seq \in Nat /\ \A f \in S : f.seq \in Nat /\ f.seq < d.seq
  BY ChainPositions DEF Frame
<1>3. G \subseteq S /\ H \subseteq R
  BY DEF GrantsAndReleases
<1>4. CASE d.body.event \in Openers \cup Closers
  <2>1. H = G \cup {d}
    BY <1>4 DEF GrantsAndReleases
  <2>2. IsHead(d, H)
    <3>1. d \in H
      BY <2>1
    <3>2. d.seq <= d.seq /\ \A f \in S : f.seq <= d.seq
      BY <1>2
    <3> QED
      BY <2>1, <1>3, <3>1, <3>2 DEF IsHead
  <2>3. HeadOf(H) = d
    BY <2>2, <1>1, <1>3, PartHead
  <2>4. HasHead(H) /\ H # {}
    BY <2>1, <2>2 DEF HasHead
  <2>5. CASE d.body.event \in Closers
    <3>1. after = [l EXCEPT !.open = FALSE]
      BY <1>1, <2>5, Zenon DEF Advance, Openers, Closers
    <3>2. ~after.open
      BY <3>1, <1>1 DEF LeaseStates
    <3> QED
      BY <2>3, <2>4, <2>5, <3>2 DEF Understood, Shows
  <2>6. CASE d.body.event \in Openers
    <3>1. after = [holder |-> d.body.actor, expires |-> d.body.expires, open |-> TRUE]
      BY <1>1, <2>6, Zenon DEF Advance, Openers, Closers
    <3>2. NamedSince(R, d) = {d}
      BY <1>2 DEF NamedSince
    <3>3. HeadOf({d}) = d
      BY <1>2 DEF HeadOf, IsHead
    <3>4. d.body.event \notin Closers
      BY <2>6 DEF Openers, Closers
    <3>5. HeadOf(NamedSince(R, HeadOf(H))) = d
      BY <2>3, <3>2, <3>3
    <3>6. /\ ~(H = {} \/ HeadOf(H).body.event \in Closers)
          /\ after.open /\ after.holder = HeadOf(H).body.actor
          /\ after.expires = HeadOf(NamedSince(R, HeadOf(H))).body.expires
      BY <2>3, <2>4, <3>1, <3>4, <3>5
    <3> QED
      BY <2>4, <3>6 DEF Understood, Shows
  <2> QED
    BY <1>4, <2>5, <2>6
<1>5. CASE d.body.event \notin Openers \cup Closers
  <2>1. H = G
    BY <1>5 DEF GrantsAndReleases
  <2> DEFINE shut == G = {} \/ HeadOf(G).body.event \in Closers
             t == HeadOf(G)
             named == d.body.event = "work.heartbeat" /\ d.body.expires # NoExpiry
  <2>2. after = IF named /\ l.open THEN [l EXCEPT !.expires = d.body.expires] ELSE l
    <3>1. CASE named /\ l.open
      BY <3>1, <1>1, <1>5, Zenon DEF Advance
    <3>2. CASE ~(named /\ l.open)
      BY <3>2, <1>1, <1>5, Zenon DEF Advance
    <3> QED
      BY <3>1, <3>2
  <2>3. CASE shut
    <3>1. ~l.open
      BY <2>3 DEF Understood, Shows
    <3>2. after = l
      BY <2>2, <3>1
    <3> QED
      BY <2>1, <2>3, <3>1, <3>2 DEF Understood, Shows
  <2>4. CASE ~shut
    <3>1. /\ l.open /\ l.holder = t.body.actor
          /\ l.expires = HeadOf(NamedSince(S, t)).body.expires
      BY <2>4 DEF Understood, Shows
    <3>2. t \in S
      <4>1. PICK h \in G : IsHead(h, G)
        BY <2>4 DEF Understood, HasHead
      <4> QED
        BY <4>1, <1>3, PartHead
    <3>3. CASE named
      <4>1. after.open /\ after.holder = l.holder /\ after.expires = d.body.expires
        BY <2>2, <3>1, <3>3, <1>1 DEF LeaseStates
      <4>2. NamedSince(R, t) = NamedSince(S, t) \cup {d}
        BY <3>2, <3>3, <1>2 DEF NamedSince
      <4>3. NamedSince(R, t) \subseteq R
        BY <3>2 DEF NamedSince
      <4>4. IsHead(d, NamedSince(R, t))
        BY <4>2, <4>3, <1>2 DEF IsHead
      <4>5. HeadOf(NamedSince(R, t)) = d
        BY <4>3, <4>4, <1>1, PartHead
      <4> QED
        BY <2>1, <2>4, <3>1, <4>1, <4>5 DEF Understood, Shows
    <3>4. CASE ~named
      <4>1. after = l
        BY <2>2, <3>4
      <4>2. NamedSince(R, t) = NamedSince(S, t)
        BY <3>4 DEF NamedSince
      <4> QED
        BY <2>1, <2>4, <3>1, <4>1, <4>2 DEF Understood, Shows
    <3> QED
      BY <3>3, <3>4
  <2> QED
    BY <2>3, <2>4
<1> QED
  BY <1>4, <1>5

\* Every chain is understood: its beginnings are, one frame after the other.
LEMMA ChainUnderstood ==
  ASSUME NEW S, Chain(S)
  PROVE  Understood(S)
<1> DEFINE n == HeadOf(S).seq
           Begins(k) == /\ Chain(Before(S, k + 1))
                        /\ HeadOf(Before(S, k + 1)) = At(S, k)
                        /\ Understood(Before(S, k + 1))
           K == {k \in Nat : k <= n => Begins(k)}
<1>1. /\ n \in Nat /\ S \in SUBSET Frame /\ Genesis \in S
      /\ \A f \in S : f.seq \in 0..n /\ At(S, f.seq) = f
      /\ \A i \in 0..n : At(S, i) \in S /\ At(S, i).seq = i
  BY ChainPositions DEF Chain, Directory
<1>2. 0 \in K
  <2>1. At(S, 0) = Genesis
    BY <1>1 DEF Genesis
  <2>2. Before(S, 0 + 1) = {Genesis}
    <3>1. \A f \in S : f.seq < 1 <=> f.seq = 0
      BY <1>1
    <3>2. Genesis.seq = 0
      BY DEF Genesis
    <3> QED
      BY <1>1, <2>1, <3>1, <3>2 DEF Before
  <2>3. GrantsAndReleases({Genesis}) = {}
    BY DEF GrantsAndReleases, Genesis, Openers, Closers
  <2>4. Understood({Genesis})
    BY <2>3, GenesisLease DEF Understood, Shows, NoLease
  <2> QED
    BY <2>1, <2>2, <2>4, GenesisLease
<1>3. ASSUME NEW k \in Nat, k \in K
      PROVE  k + 1 \in K
  <2> SUFFICES ASSUME k + 1 <= n PROVE Begins(k + 1)
    OBVIOUS
  <2> DEFINE T == Before(S, k + 1)
             d == At(S, k + 1)
  <2>1. Chain(T) /\ HeadOf(T) = At(S, k) /\ Understood(T)
    BY <1>1, <1>3
  <2>2. d \in S /\ d.seq = k + 1 /\ d \in Frame /\ At(S, k).seq = k
    BY <1>1
  <2>3. Before(S, (k + 1) + 1) = T \cup {d}
    <3>1. \A f \in S : f.seq < (k + 1) + 1 <=> f.seq < k + 1 \/ f.seq = k + 1
      BY <1>1
    <3> QED
      BY <1>1, <2>2, <3>1 DEF Before
  <2>4. Follows(d, HeadOf(T))
    <3>1. d # Genesis
      BY <2>2 DEF Genesis
    <3>2. PICK g \in S : Follows(d, g)
      BY <2>2, <3>1 DEF Chain, Directory, Linked
    <3>3. g.seq = k
      BY <1>1, <2>2, <3>2 DEF Follows
    <3> QED
      BY <1>1, <2>1, <3>2, <3>3
  <2> HIDE DEF T, d
  <2>5. Chain(T \cup {d}) /\ HeadOf(T \cup {d}) = d
    BY <2>1, <2>2, <2>4, ChainGrows
  <2>6. Understood(T \cup {d})
    BY <2>1, <2>2, <2>4, UnderstoodNext
  <2> QED
    BY <2>3, <2>5, <2>6 DEF d
<1> HIDE DEF K
<1>4. Nat \subseteq K
  BY <1>2, <1>3, SetInduction
<1>5. Understood(Before(S, n + 1))
  BY <1>1, <1>4 DEF K
<1>6. Before(S, n + 1) = S
  BY <1>1 DEF Before
<1> QED
  BY <1>5, <1>6

\* In every clone, at any time, the lease folded out of an unforked chain is
\* the one its grants, releases and renewals show.
THEOREM LeaseMatchesHistoryHolds == Spec => []LeaseMatchesHistory
<1>1. IInv => LeaseMatchesHistory
  <2> SUFFICES ASSUME IInv, NEW c \in Clones, ~Forked(frames[c])
               PROVE  Shows(frames[c], LeaseOf(frames[c]))
    BY DEF LeaseMatchesHistory, Shows, GrantsAndReleases, NamedSince
  <2>1. Chain(frames[c])
    BY DEF IInv, Directories, Chain
  <2> QED
    BY <2>1, ChainUnderstood DEF Understood
<1> QED
  BY <1>1, Invariance, PTL
=============================================================================
