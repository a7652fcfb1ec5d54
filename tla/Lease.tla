-------------------------------- MODULE Lease --------------------------------
(***************************************************************************)
(* The lease a chain of frames implies, and who it binds                    *)
(* (tools/append_frame.py: lease_state, lease_active, check_lease).  Pure   *)
(* operators: the log and its writers are in LeaseLog and AppendFrame.     *)
(***************************************************************************)
EXTENDS Naturals, Sequences

CONSTANTS Actors,     \* ids operators append under
          NoActor,    \* an append, or a body, that names nobody
          BadActor,   \* a body's actor that is there and not an object
          NoExpiry,   \* a body without lease_expires_utc
          BadExpiry,  \* a lease_expires_utc that is not a UTC stamp
          Strict      \* RAPP_REQUIRE_LEASE=1, or a hive workspace

ASSUME LeaseAssumption ==
    /\ NoActor \notin Actors
    /\ BadActor \notin Actors \cup {NoActor}
    /\ NoExpiry \notin Nat
    /\ BadExpiry \notin Nat
    /\ NoExpiry # BadExpiry
    /\ Strict \in BOOLEAN

Openers == {"work.punchin", "work.takeover"}
Closers == {"work.handoff", "work.punchout"}
LeaseEvents == Openers \cup Closers \cup {"work.heartbeat"}

\* A stamp is its number of ticks: the code compares fixed-width UTC strings.
Expiries == Nat \cup {NoExpiry, BadExpiry}
\* What a body says of its actor, which is not always who appended it.
BodyActors == Actors \cup {NoActor, BadActor}
Body == [event : LeaseEvents \cup {"note"}, actor : BodyActors, expires : Expiries]
LeaseStates == [holder : BodyActors, expires : Expiries, open : BOOLEAN]

NoLease == [holder |-> NoActor, expires |-> NoExpiry, open |-> FALSE]

\* A slip the checks must catch: a renewal nobody can read is passed over.
AdvanceReadable(l, body) ==
    CASE body.event \in Openers ->
            [holder |-> body.actor, expires |-> body.expires, open |-> TRUE]
      [] body.event = "work.heartbeat" /\ l.open /\ body.expires \in Nat ->
            [l EXCEPT !.expires = body.expires]
      [] body.event \in Closers -> [l EXCEPT !.open = FALSE]
      [] OTHER -> l

\* One turn of lease_state's loop: the lease l after a frame with this body.
Advance(l, body) ==
    CASE body.event \in Openers ->
            [holder |-> body.actor, expires |-> body.expires, open |-> TRUE]
      [] body.event = "work.heartbeat" /\ l.open /\ body.expires # NoExpiry ->
            [l EXCEPT !.expires = body.expires]
      [] body.event \in Closers -> [l EXCEPT !.open = FALSE]
      [] OTHER -> l

\* lease_state asks the actor of every grant for its id, and raises on this one.
Raises(body) == body.event \in Openers /\ body.actor = BadActor

\* lease_state: the lease after all of them, each turn taken on the one before.
LeaseState(bodies) ==
    LET after[n \in 0..Len(bodies)] ==
            IF n = 0 THEN NoLease ELSE Advance(after[n - 1], bodies[n])
    IN  after[Len(bodies)]

\* A slip: an expiry that cannot be read never comes.
ActiveForever(l, t) ==
    l.open /\ l.holder # NoActor /\ (l.expires \in Nat => t <= l.expires)

\* Whether the lease l is active at time t: its last instant included, and
\* never without an expiry that can be read.
Active(l, t) ==
    /\ l.open
    /\ l.holder # NoActor
    /\ l.expires \in Nat
    /\ t <= l.expires

\* Slips: anybody writes under an active lease; a takeover asks no questions.
PermittedToAnybody(l, t, event, actor) ==
    \/ event \in Openers /\ ~Active(l, t)
    \/ event \notin Openers /\ Active(l, t)
    \/ event \notin LeaseEvents /\ ~Active(l, t) /\ ~Strict
PermittedTakeover(l, t, event, actor) ==
    \/ event \in Openers
    \/ event \notin Openers /\ Active(l, t) /\ actor = l.holder
    \/ event \notin LeaseEvents /\ ~Active(l, t) /\ ~Strict

\* check_lease: whether event may be appended under this actor at time t.
Permitted(l, t, event, actor) ==
    \/ event \in Openers /\ ~Active(l, t)
    \/ event \notin Openers /\ Active(l, t) /\ actor = l.holder
    \/ event \notin LeaseEvents /\ ~Active(l, t) /\ ~Strict
=============================================================================
