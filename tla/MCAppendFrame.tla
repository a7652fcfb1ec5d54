---------------------------- MODULE MCAppendFrame ----------------------------
(***************************************************************************)
(* Small instances of AppendFrame, and the abstract log it implements.     *)
(***************************************************************************)
EXTENDS AppendFrame, TLC

CONSTANTS a1, a2, p1, p2, c1, c2

\* Two processes in two clones; two processes in one clone.
MCTwoClones == (p1 :> c1) @@ (p2 :> c2)
MCOneClone == (p1 :> c1) @@ (p2 :> c1)

\* A payload that says it is a lease event, with an expiry that is missing,
\* unreadable or already past.
MCRawBodies ==
    {[event |-> "work.punchin", expires |-> NoExpiry],
     [event |-> "work.punchin", expires |-> BadExpiry],
     [event |-> "work.heartbeat", expires |-> BadExpiry]}

MCNoRawBodies == {}

\* The actors are interchangeable, and so are the two processes of one clone,
\* or two clones together with the process each runs.
MCSwap == (p1 :> p2) @@ (p2 :> p1) @@ (c1 :> c2) @@ (c2 :> c1)
MCActors == Permutations(Actors)
MCStay == [x \in {p1, p2, c1, c2} |-> x]
MCTwoClonesSymmetry == {f @@ g : f \in MCActors, g \in {MCStay, MCSwap}}
MCOneCloneSymmetry == {f @@ g : f \in MCActors, g \in Permutations(Procs)}

\* Actor a2 at process p2 keeps asking.  Fairness: its host runs p2, and time
\* passes at every clone.
MCTakeoverSpec ==
    /\ Init /\ [][PersistNext(p2, a2)]_vars
    /\ WF_vars(Persist(p2, a2))
    /\ \A c \in Clones : WF_vars(Tick(c))

\* TakeoverServed for the process and actor of MCTakeoverSpec.
MCTakeoverServed == TakeoverServed(p2, a2)
=============================================================================
