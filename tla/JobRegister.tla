----------------------------- MODULE JobRegister -----------------------------
(***************************************************************************)
(* What Workspace/1 promises about its jobs (SPEC.md sections 11 and 12),  *)
(* as if every command were one step and no process ever died: a job is    *)
(* captured, interpreted once, staged once and adopted at most once; an    *)
(* adoption is decided only on what was staged, with nothing else in       *)
(* between; and a root stop ends observation and interpretation for good.  *)
(***************************************************************************)
EXTENDS Naturals

CONSTANTS Jobs, Operations, None

VARIABLES outcome, \* outcome[j]: None before the job is captured
          result,  \* result[j]: the attempts of its interpretation, or None
          staged,  \* staged[o]: the job staged under o, or None
          basis,   \* basis[o]: the version at which it was staged
          adopted, \* operations whose adoption was decided
          version, \* changes so far: staging and adoption count them
          stopped  \* the root is stopped

registerVars == <<outcome, result, staged, basis, adopted, version, stopped>>

Empty ==
    /\ outcome = [j \in Jobs |-> None]
    /\ result = [j \in Jobs |-> None]
    /\ staged = [o \in Operations |-> None]
    /\ basis = [o \in Operations |-> 0]
    /\ adopted = {}
    /\ version = 0
    /\ stopped = FALSE

Observe(j) ==
    /\ ~stopped
    /\ outcome[j] = None
    /\ outcome' = [outcome EXCEPT ![j] = "captured"]
    /\ version' = version + 1
    /\ UNCHANGED <<result, staged, basis, adopted, stopped>>

\* Nothing but a stop comes out of a stopped root, and only a stop stops it.
Interpret(j) ==
    /\ outcome[j] = "captured" /\ result[j] = None
    /\ \E k \in {"candidate", "refused", "stopped"} :
          /\ outcome' = [outcome EXCEPT ![j] = k]
          /\ stopped => k = "stopped"
          /\ stopped' # stopped => stopped' /\ k = "stopped"
    /\ result'[j] # None
    /\ result' = [result EXCEPT ![j] = result'[j]]
    /\ version' \in {version, version + 1}
    /\ UNCHANGED <<staged, basis, adopted>>

Approve(o, j) ==
    /\ outcome[j] = "candidate"
    /\ staged[o] = None
    /\ outcome' = [outcome EXCEPT ![j] = "staged"]
    /\ staged' = [staged EXCEPT ![o] = j]
    /\ version' = version + 1
    /\ basis' = [basis EXCEPT ![o] = version']
    /\ UNCHANGED <<result, adopted, stopped>>

Decide(o) ==
    /\ o \notin adopted
    /\ staged[o] # None /\ outcome[staged[o]] = "staged"
    /\ basis[o] = version
    /\ outcome' = [outcome EXCEPT ![staged[o]] = "adopted"]
    /\ adopted' = adopted \cup {o}
    /\ version' = version + 1
    /\ UNCHANGED <<result, staged, basis, stopped>>

\* The file that holds the register is gone.
Lose == Empty'

RegisterNext ==
    \/ \E j \in Jobs : Observe(j) \/ Interpret(j)
    \/ \E o \in Operations : Decide(o) \/ \E j \in Jobs : Approve(o, j)
    \/ Lose

RegisterSpec == Empty /\ [][RegisterNext]_registerVars
=============================================================================
