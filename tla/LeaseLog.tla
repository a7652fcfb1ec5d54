------------------------------ MODULE LeaseLog ------------------------------
(***************************************************************************)
(* What a project's frame stream promises its operators: one log, appended *)
(* to atomically, arbitrated by a lease.  The state is what the rules look *)
(* at: the lease the log implies and the stamp of its last frame.  The     *)
(* promise ends, visibly and for good, once two writers have appended at   *)
(* the same position, or a grant names its holder in a form nobody reads.  *)
(***************************************************************************)
EXTENDS Naturals

CONSTANTS Actors,     \* ids operators append under
          NoActor,    \* an append, or a grant, that names nobody
          NoExpiry,   \* the expiry of a lease nobody holds
          Strict      \* whether every append needs a lease

VARIABLES lease, stamp, ended

logVars == <<lease, stamp, ended>>

NoLease == [holder |-> NoActor, expires |-> NoExpiry, open |-> FALSE]

\* Whether the lease l binds the other operators at time t: an expiry nobody
\* can read binds no one, and the last instant of a lease still belongs to it.
Binding(l, t) ==
    l.open /\ l.holder \in Actors /\ l.expires \in Nat /\ ~(t > l.expires)

\* Whether the lease l was last granted to actor a and not given back.
Holds(l, a) == l.open /\ l.holder = a /\ a \in Actors

LogInit == lease = NoLease /\ stamp = 0 /\ ended = FALSE

\* One more frame, stamped after every frame before it.
Entry == ~ended /\ UNCHANGED ended /\ stamp' \in Nat /\ stamp' > stamp

\* work.punchin and work.takeover: granted only when no lease is active, to
\* whoever the grant names, or to nobody.
Grant(a) ==
    /\ ~Binding(lease, stamp')
    /\ lease' = [holder |-> a, expires |-> lease'.expires, open |-> TRUE]

\* work.heartbeat: only the holder moves its own expiry.
Renew(a) ==
    /\ Holds(lease, a)
    /\ lease' = [lease EXCEPT !.expires = lease'.expires]

\* work.handoff and work.punchout: only the holder ends its lease.
Release(a) ==
    /\ Holds(lease, a)
    /\ lease' = [lease EXCEPT !.open = FALSE]

\* Any other event: nobody writes into somebody else's active lease.
Note(a) ==
    /\ Binding(lease, stamp') => Holds(lease, a)
    /\ Strict => Holds(lease, a)
    /\ UNCHANGED lease

\* Two frames took the same position, or nobody can tell who holds the lease:
\* the stream promises nothing any more.
End == ~ended /\ ended' = TRUE /\ lease' = NoLease /\ stamp' = 0

LogNext ==
    \/ /\ Entry
       /\ \E a \in Actors \cup {NoActor} :
             Grant(a) \/ Renew(a) \/ Release(a) \/ Note(a)
    \/ End

LogSpec == LogInit /\ [][LogNext]_logVars
=============================================================================
