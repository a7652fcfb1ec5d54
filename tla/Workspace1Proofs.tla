--------------------------- MODULE Workspace1Proofs ---------------------------
(***************************************************************************)
(* What holds of a Workspace/1 store for any number of jobs, operations,   *)
(* views, policies, edits, losses and deaths.                              *)
(*                                                                         *)
(* The store changes in one place, COMMIT, and by then the command looked  *)
(* at it long ago.  The invariant therefore says of every command under    *)
(* way what its transaction holds: the outcome of that one command on the  *)
(* store as it is committed now.                                           *)
(***************************************************************************)
EXTENDS Workspace1, TLAPS

Outcomes == [outcome : {"candidate", "stopped", "refused"}, complete : BOOLEAN]

\* The unresolved pointers were looked for in the registry the job has captured.
WellMigrated(job) ==
    job.migration # None /\ job.migration.resolved => job.migration.registry \in Resolved

\* What adoption asks of the job that is staged under o.
Lawful(c, o) ==
    LET job == c.jobs[c.stages[o].job]
    IN  /\ job.form \notin Fixtures
        /\ job.migration # None =>
              job.migration.resolved /\ job.migration.registry = c.stages[o].manager

\* Jobs, stages and the record of adoptions fit together.
SoundJob(c, j) ==
    c.jobs[j] # None =>
        /\ WellMigrated(c.jobs[j])
        /\ c.jobs[j].plan = None <=> c.jobs[j].outcome = "captured"

SoundStage(c, o) ==
    c.stages[o] # None =>
        /\ c.jobs[c.stages[o].job] # None
        /\ c.jobs[c.stages[o].job].outcome = c.stages[o].status
        /\ c.jobs[c.stages[o].job].complete
        /\ c.stages[o].status = "adopted" => Lawful(c, o)

OneStage(c) ==
    \A o, q \in Operations :
        c.stages[o] # None /\ c.stages[q] # None /\ c.stages[o].job = c.stages[q].job => o = q

Sound(c) ==
    /\ c \in Controlled
    /\ \A j \in Jobs : SoundJob(c, j)
    /\ \A o \in Operations : SoundStage(c, o)
    /\ OneStage(c)
    /\ LedgerMatches(c)

-----------------------------------------------------------------------------
\* What a transaction can make of the store c.
Observes(c, v) ==
    \E j \in Jobs, job \in Job :
        /\ c.jobs[j] = None /\ ~c.stop
        /\ job.outcome = "captured" /\ job.plan = None /\ WellMigrated(job)
        /\ v = Observed(c, j, job)

Interprets(c, v) ==
    \E j \in Jobs, s \in Plans, e \in Outcomes, stop \in BOOLEAN :
        /\ Runnable(c, j)
        /\ c.stop => e.outcome = "stopped"
        /\ stop => e.outcome = "stopped"
        /\ v = Interpreted(c, j, s, e, stop)

Prepares(c, v) ==
    \E o \in Operations, j \in Jobs, manager \in Nat :
        Stageable(c, o, j) /\ v = Staged(c, o, j, manager)

Decides(c, v, o) ==
    /\ o \in Operations
    /\ c.stages[o] # None /\ c.stages[o].status = "staged"
    /\ Lawful(c, o) /\ c.stages[o].protocol = c.sequence
    /\ v = Adopted(c, o)

Projected(c, f) == [c EXCEPT !.focus = f, !.files = Rendering(c, f)]
Projects(c, v) == \E f \in Jobs \cup {All} : v = Projected(c, f)

\* The job and the stage that the three other transactions leave behind.
InterpretedJob(c, j, s, e) ==
    [c.jobs[j] EXCEPT !.plan = s, !.outcome = e.outcome, !.complete = e.complete]
StagedJob(c, j) == [c.jobs[j] EXCEPT !.outcome = "staged"]
NewStage(c, j, manager) ==
    [job |-> j, protocol |-> c.sequence + 1, manager |-> manager, status |-> "staged"]
AdoptedJob(c, o) == [c.jobs[c.stages[o].job] EXCEPT !.outcome = "adopted"]
AdoptedStage(c, o) == [c.stages[o] EXCEPT !.status = "adopted"]

-----------------------------------------------------------------------------
\* No record is None.
LEMMA Distinct ==
  /\ \A x \in Job : x # None
  /\ \A x \in StageRecord : x # None
  /\ \A x \in Controlled : x # None
  /\ \A x \in Shown : x # None
  /\ \A x \in Jobs \cup Operations \cup Checkouts \cup Policies \cup Plans \cup {All} : x # None
  BY Workspace1Assumption

\* An observation adds one job and one frame.
LEMMA ObservedFields ==
  ASSUME NEW c \in Controlled, NEW j \in Jobs, NEW job \in Job,
         NEW v, v = Observed(c, j, job)
  PROVE  /\ v \in Controlled
         /\ v.jobs = [c.jobs EXCEPT ![j] = job]
         /\ v.sequence = c.sequence + 1
         /\ v.policy = c.policy /\ v.seed = c.seed /\ v.stop = c.stop
         /\ v.stages = c.stages /\ v.ledger = c.ledger
         /\ v.focus = c.focus /\ v.files = c.files
<1>1. v = [c EXCEPT !.jobs = [c.jobs EXCEPT ![j] = job], !.sequence = c.sequence + 1]
  BY DEF Observed, Controlled
<1>2. [c.jobs EXCEPT ![j] = job] \in [Jobs -> Job \cup {None}] /\ c.sequence + 1 \in Nat
  BY DEF Controlled
<1> QED
  BY <1>1, <1>2 DEF Controlled

\* An interpretation changes one job, and may stop the root.
LEMMA InterpretedFields ==
  ASSUME NEW c \in Controlled, NEW j \in Jobs, c.jobs[j] # None,
         NEW s \in Plans, NEW e \in Outcomes, NEW stop \in BOOLEAN,
         NEW v, v = Interpreted(c, j, s, e, stop)
  PROVE  LET job == InterpretedJob(c, j, s, e)
         IN  /\ v \in Controlled
             /\ job \in Job
             /\ v.jobs = [c.jobs EXCEPT ![j] = job]
             /\ v.sequence = IF c.stop THEN c.sequence ELSE c.sequence + 1
             /\ v.stop = (c.stop \/ stop)
             /\ v.policy = c.policy /\ v.seed = c.seed
             /\ v.stages = c.stages /\ v.ledger = c.ledger
             /\ v.focus = c.focus /\ v.files = c.files
<1> DEFINE job == InterpretedJob(c, j, s, e)
<1>1. c.jobs[j] \in Job
  BY DEF Controlled
<1>2. job \in Job
  BY <1>1 DEF Job, Outcomes, InterpretedJob
<1>3. v = [c EXCEPT !.jobs = [c.jobs EXCEPT ![j] = job], !.stop = c.stop \/ stop,
                    !.sequence = IF c.stop THEN c.sequence ELSE c.sequence + 1]
  BY DEF Interpreted, Controlled, InterpretedJob
<1> HIDE DEF job
<1>4. [c.jobs EXCEPT ![j] = job] \in [Jobs -> Job \cup {None}]
  BY <1>2 DEF Controlled
<1>5. (IF c.stop THEN c.sequence ELSE c.sequence + 1) \in Nat
  BY DEF Controlled
<1>6. (c.stop \/ stop) \in BOOLEAN
  BY DEF Controlled
<1> QED
  BY <1>2, <1>3, <1>4, <1>5, <1>6 DEF Controlled, job

\* A stage records the request under its operation.
LEMMA StagedFields ==
  ASSUME NEW c \in Controlled, NEW o \in Operations, NEW j \in Jobs, c.jobs[j] # None,
         NEW manager \in Nat, NEW v, v = Staged(c, o, j, manager)
  PROVE  LET stage == NewStage(c, j, manager)
             job == StagedJob(c, j)
         IN  /\ v \in Controlled
             /\ job \in Job /\ stage \in StageRecord
             /\ v.jobs = [c.jobs EXCEPT ![j] = job]
             /\ v.stages = [c.stages EXCEPT ![o] = stage]
             /\ v.sequence = c.sequence + 1
             /\ v.policy = c.policy /\ v.seed = c.seed /\ v.stop = c.stop
             /\ v.ledger = c.ledger /\ v.focus = c.focus /\ v.files = c.files
<1> DEFINE stage == NewStage(c, j, manager)
           job == StagedJob(c, j)
<1>1. c.jobs[j] \in Job /\ c.sequence + 1 \in Nat
  BY DEF Controlled
<1>2. job \in Job /\ stage \in StageRecord
  BY <1>1 DEF Job, StageRecord, StagedJob, NewStage
<1>3. v = [c EXCEPT !.jobs = [c.jobs EXCEPT ![j] = job], !.stages = [c.stages EXCEPT ![o] = stage],
                    !.sequence = c.sequence + 1]
  BY DEF Staged, Controlled, StagedJob, NewStage
<1> HIDE DEF job, stage
<1>4. /\ [c.jobs EXCEPT ![j] = job] \in [Jobs -> Job \cup {None}]
      /\ [c.stages EXCEPT ![o] = stage] \in [Operations -> StageRecord \cup {None}]
  BY <1>2 DEF Controlled
<1> QED
  BY <1>1, <1>2, <1>3, <1>4 DEF Controlled, job, stage

\* An adoption records the decision with the stage and in the ledger.
LEMMA AdoptedFields ==
  ASSUME NEW c \in Controlled, NEW o \in Operations, c.stages[o] # None,
         c.jobs[c.stages[o].job] # None
  PROVE  LET v == Adopted(c, o)
             j == c.stages[o].job
             stage == AdoptedStage(c, o)
             job == AdoptedJob(c, o)
         IN  /\ v \in Controlled
             /\ j \in Jobs /\ job \in Job /\ stage \in StageRecord
             /\ v.jobs = [c.jobs EXCEPT ![j] = job]
             /\ v.stages = [c.stages EXCEPT ![o] = stage]
             /\ v.ledger = [c.ledger EXCEPT ![o] = j]
             /\ v.sequence = c.sequence + 1
             /\ v.policy = c.policy /\ v.seed = c.seed /\ v.stop = c.stop
             /\ v.focus = c.focus /\ v.files = c.files
<1> DEFINE v == Adopted(c, o)
           j == c.stages[o].job
           stage == AdoptedStage(c, o)
           job == AdoptedJob(c, o)
<1>1. c.stages[o] \in StageRecord /\ c.sequence + 1 \in Nat
  BY DEF Controlled
<1>2. j \in Jobs
  BY <1>1 DEF StageRecord
<1>3. c.jobs[j] \in Job
  BY <1>2 DEF Controlled
<1>4. job \in Job /\ stage \in StageRecord
  BY <1>1, <1>3 DEF Job, StageRecord, AdoptedJob, AdoptedStage
<1>5. v = [c EXCEPT !.jobs = [c.jobs EXCEPT ![j] = job], !.stages = [c.stages EXCEPT ![o] = stage],
                    !.ledger = [c.ledger EXCEPT ![o] = j], !.sequence = c.sequence + 1]
  BY DEF Adopted, Controlled, AdoptedJob, AdoptedStage
<1> HIDE DEF v, job, stage, j
<1>6. /\ [c.jobs EXCEPT ![j] = job] \in [Jobs -> Job \cup {None}]
      /\ [c.stages EXCEPT ![o] = stage] \in [Operations -> StageRecord \cup {None}]
      /\ [c.ledger EXCEPT ![o] = j] \in [Operations -> Jobs \cup {None}]
  BY <1>2, <1>4 DEF Controlled
<1> QED
  BY <1>1, <1>2, <1>4, <1>5, <1>6 DEF Controlled, v, job, stage, j

\* A projection changes the focus and the list of files.
LEMMA ProjectedFields ==
  ASSUME NEW c \in Controlled, NEW f \in Jobs \cup {All}
  PROVE  LET v == Projected(c, f)
         IN  /\ v \in Controlled
             /\ v.files \in Shown /\ v.files.entries = Accepted(c, f)
             /\ v.jobs = c.jobs /\ v.stages = c.stages /\ v.ledger = c.ledger
             /\ v.sequence = c.sequence /\ v.policy = c.policy
             /\ v.seed = c.seed /\ v.stop = c.stop
<1>1. Rendering(c, f) \in Shown /\ Rendering(c, f).entries = Accepted(c, f)
  BY DEF Rendering, Shown, Accepted
<1> QED
  BY <1>1 DEF Controlled, Projected

-----------------------------------------------------------------------------
\* A store before its seed fits together.
LEMMA UnseededSound ==
  ASSUME NEW p \in Policies
  PROVE  Sound(Unseeded(p)) /\ Unseeded(p).seed = 0
<1> DEFINE c == Unseeded(p)
<1>1. /\ c \in Controlled /\ c.seed = 0
      /\ \A j \in Jobs : c.jobs[j] = None
      /\ \A o \in Operations : c.stages[o] = None /\ c.ledger[o] = None
  BY DEF Unseeded, Controlled
<1> HIDE DEF c
<1>2. \A o \in Operations : o \notin Accepted(c, All)
  BY <1>1 DEF Accepted
<1>3. Sound(c)
  BY <1>1, <1>2 DEF Sound, SoundJob, SoundStage, OneStage, LedgerMatches
<1> QED
  BY <1>1, <1>3 DEF c

\* What an accepted stage is, for every job.
LEMMA AcceptedAll ==
  ASSUME NEW c \in Controlled, NEW o \in Operations
  PROVE  o \in Accepted(c, All) <=> c.stages[o] # None /\ c.stages[o].status = "adopted"
  BY DEF Accepted

\* A job that is observed anew is nobody's stage.
LEMMA ObservesSound ==
  ASSUME NEW c, NEW v, Sound(c), Observes(c, v)
  PROVE  Sound(v) /\ v.seed = c.seed /\ v.sequence >= c.sequence /\ v.ledger = c.ledger
<1>1. PICK j \in Jobs, job \in Job :
        /\ c.jobs[j] = None /\ job.outcome = "captured" /\ job.plan = None /\ WellMigrated(job)
        /\ v = Observed(c, j, job)
  BY DEF Observes
<1>2. c \in Controlled
  BY DEF Sound
<1>3. /\ v \in Controlled
      /\ v.jobs = [c.jobs EXCEPT ![j] = job]
      /\ v.sequence = c.sequence + 1 /\ v.seed = c.seed
      /\ v.stages = c.stages /\ v.ledger = c.ledger
  BY <1>1, <1>2, ObservedFields
<1>4. c.jobs \in [Jobs -> Job \cup {None}] /\ c.sequence \in Nat
  BY <1>2 DEF Controlled
<1>5. \A k \in Jobs : SoundJob(v, k)
  BY <1>1, <1>3, <1>4 DEF Sound, SoundJob
<1>6. \A o \in Operations : SoundStage(v, o)
  <2> SUFFICES ASSUME NEW o \in Operations, c.stages[o] # None
               PROVE  SoundStage(v, o)
    BY <1>3 DEF SoundStage
  <2>1. c.stages[o].job # j /\ c.stages[o].job \in Jobs
    BY <1>1, <1>2 DEF Sound, SoundStage, Controlled, StageRecord
  <2>2. v.jobs[c.stages[o].job] = c.jobs[c.stages[o].job]
    BY <1>3, <1>4, <2>1
  <2> QED
    BY <1>3, <2>2 DEF Sound, SoundStage, Lawful
<1>7. OneStage(v) /\ LedgerMatches(v)
  BY <1>3 DEF Sound, OneStage, LedgerMatches, Accepted
<1> QED
  BY <1>3, <1>4, <1>5, <1>6, <1>7 DEF Sound

\* A job that is interpreted was captured, so it is nobody's stage.
LEMMA InterpretsSound ==
  ASSUME NEW c, NEW v, Sound(c), Interprets(c, v)
  PROVE  Sound(v) /\ v.seed = c.seed /\ v.sequence >= c.sequence /\ v.ledger = c.ledger
<1>1. PICK j \in Jobs, s \in Plans, e \in Outcomes, stop \in BOOLEAN :
        Runnable(c, j) /\ v = Interpreted(c, j, s, e, stop)
  BY DEF Interprets
<1> DEFINE job == InterpretedJob(c, j, s, e)
<1>2. c \in Controlled /\ c.jobs[j] # None /\ c.jobs[j].plan = None
  BY <1>1 DEF Sound, Runnable
<1>3. /\ v \in Controlled /\ job \in Job
      /\ v.jobs = [c.jobs EXCEPT ![j] = job]
      /\ v.sequence = (IF c.stop THEN c.sequence ELSE c.sequence + 1) /\ v.seed = c.seed
      /\ v.stages = c.stages /\ v.ledger = c.ledger
  BY <1>1, <1>2, InterpretedFields
<1>4. c.jobs \in [Jobs -> Job \cup {None}] /\ c.sequence \in Nat /\ c.jobs[j] \in Job
  BY <1>2 DEF Controlled
<1>5. c.jobs[j].outcome = "captured" /\ WellMigrated(c.jobs[j])
  BY <1>2 DEF Sound, SoundJob
<1>6. /\ job.plan = s /\ job.plan # None /\ job.outcome # "captured"
      /\ job.migration = c.jobs[j].migration
  BY <1>4, Distinct DEF Job, Outcomes, InterpretedJob
<1> HIDE DEF job
<1>7. \A k \in Jobs : SoundJob(v, k)
  BY <1>3, <1>4, <1>5, <1>6 DEF Sound, SoundJob, WellMigrated
<1>8. \A o \in Operations : SoundStage(v, o)
  <2> SUFFICES ASSUME NEW o \in Operations, c.stages[o] # None
               PROVE  SoundStage(v, o)
    BY <1>3 DEF SoundStage
  <2>1. c.stages[o] \in StageRecord
    BY <1>2 DEF Controlled
  <2>2. c.stages[o].job # j /\ c.stages[o].job \in Jobs
    BY <1>5, <2>1 DEF Sound, SoundStage, StageRecord
  <2>3. v.jobs[c.stages[o].job] = c.jobs[c.stages[o].job]
    BY <1>3, <1>4, <2>2
  <2> QED
    BY <1>3, <2>3 DEF Sound, SoundStage, Lawful
<1>9. OneStage(v) /\ LedgerMatches(v)
  BY <1>3 DEF Sound, OneStage, LedgerMatches, Accepted
<1> QED
  BY <1>3, <1>4, <1>7, <1>8, <1>9 DEF Sound

\* A candidate is nobody's stage yet, so it becomes one operation's.
LEMMA PreparesSound ==
  ASSUME NEW c, NEW v, Sound(c), Prepares(c, v)
  PROVE  Sound(v) /\ v.seed = c.seed /\ v.sequence >= c.sequence /\ v.ledger = c.ledger
<1>1. PICK o \in Operations, j \in Jobs, manager \in Nat :
        Stageable(c, o, j) /\ v = Staged(c, o, j, manager)
  BY DEF Prepares
<1> DEFINE stage == NewStage(c, j, manager)
           job == StagedJob(c, j)
<1>2. /\ c \in Controlled /\ c.jobs[j] # None /\ c.jobs[j].outcome = "candidate"
      /\ c.jobs[j].complete /\ c.stages[o] = None
  BY <1>1 DEF Sound, Stageable, Faithful
<1>3. /\ v \in Controlled /\ job \in Job /\ stage \in StageRecord
      /\ v.jobs = [c.jobs EXCEPT ![j] = job]
      /\ v.stages = [c.stages EXCEPT ![o] = stage]
      /\ v.sequence = c.sequence + 1 /\ v.seed = c.seed /\ v.ledger = c.ledger
  BY <1>1, <1>2, StagedFields
<1>4. /\ c.jobs \in [Jobs -> Job \cup {None}] /\ c.sequence \in Nat /\ c.jobs[j] \in Job
      /\ c.stages \in [Operations -> StageRecord \cup {None}]
  BY <1>2 DEF Controlled
<1>5. /\ job.plan = c.jobs[j].plan /\ job.outcome = "staged" /\ job.complete
      /\ job.migration = c.jobs[j].migration
  BY <1>2, <1>4 DEF Job, StagedJob
<1>6. stage.job = j /\ stage.status = "staged"
  BY DEF NewStage
<1> HIDE DEF job, stage
<1>7. \A k \in Jobs : SoundJob(v, k)
  BY <1>2, <1>3, <1>4, <1>5 DEF Sound, SoundJob, WellMigrated
<1>8. \A q \in Operations : c.stages[q] # None => c.stages[q].job # j /\ c.stages[q].job \in Jobs
  BY <1>2, <1>4 DEF Sound, SoundStage, StageRecord
<1>9. \A q \in Operations : SoundStage(v, q)
  <2> SUFFICES ASSUME NEW q \in Operations, v.stages[q] # None
               PROVE  SoundStage(v, q)
    BY DEF SoundStage
  <2>1. CASE q = o
    <3>1. v.stages[q] = stage /\ v.jobs[j] = job /\ job # None
      BY <1>3, <1>4, <2>1, Distinct
    <3> QED
      BY <1>5, <1>6, <3>1 DEF SoundStage
  <2>2. CASE q # o
    <3>1. v.stages[q] = c.stages[q]
      BY <1>3, <1>4, <2>2
    <3>2. v.jobs[c.stages[q].job] = c.jobs[c.stages[q].job]
      BY <1>3, <1>4, <1>8, <3>1
    <3> QED
      BY <3>1, <3>2 DEF Sound, SoundStage, Lawful
  <2> QED
    BY <2>1, <2>2
<1>10. OneStage(v)
  BY <1>3, <1>4, <1>6, <1>8 DEF Sound, OneStage
<1>11. LedgerMatches(v)
  <2>1. \A q \in Operations : q \in Accepted(v, All) <=> q \in Accepted(c, All)
    BY <1>2, <1>3, <1>4, <1>6, AcceptedAll
  <2>2. \A q \in Accepted(c, All) : v.stages[q] = c.stages[q]
    BY <1>2, <1>3, <1>4 DEF Accepted
  <2> QED
    BY <1>3, <2>1, <2>2 DEF Sound, LedgerMatches
<1> QED
  BY <1>3, <1>4, <1>7, <1>9, <1>10, <1>11 DEF Sound

\* A decision is about a job that is staged.
LEMMA DecidesFields ==
  ASSUME NEW c, NEW v, NEW o, Sound(c), Decides(c, v, o)
  PROVE  /\ c \in Controlled /\ v \in Controlled /\ o \in Operations
         /\ c.stages[o] # None /\ c.stages[o].job \in Jobs
         /\ c.jobs[c.stages[o].job] # None
         /\ AdoptedJob(c, o) \in Job /\ AdoptedStage(c, o) \in StageRecord
         /\ v.jobs[c.stages[o].job] = AdoptedJob(c, o)
         /\ \A k \in Jobs : k # c.stages[o].job => v.jobs[k] = c.jobs[k]
         /\ v.stages[o] = AdoptedStage(c, o) /\ v.ledger[o] = c.stages[o].job
         /\ \A q \in Operations : q # o => v.stages[q] = c.stages[q] /\ v.ledger[q] = c.ledger[q]
         /\ v.sequence = c.sequence + 1 /\ v.seed = c.seed /\ v.stop = c.stop
<1>1. /\ c \in Controlled /\ o \in Operations /\ v = Adopted(c, o) /\ c.stages[o] # None
  BY DEF Sound, Decides
<1>2. c.jobs[c.stages[o].job] # None
  BY <1>1 DEF Sound, SoundStage
<1>3. /\ v \in Controlled /\ c.stages[o].job \in Jobs
      /\ AdoptedJob(c, o) \in Job /\ AdoptedStage(c, o) \in StageRecord
      /\ v.sequence = c.sequence + 1 /\ v.seed = c.seed /\ v.stop = c.stop
  BY <1>1, <1>2, AdoptedFields
<1>4. /\ v.jobs = [c.jobs EXCEPT ![c.stages[o].job] = AdoptedJob(c, o)]
      /\ v.stages = [c.stages EXCEPT ![o] = AdoptedStage(c, o)]
      /\ v.ledger = [c.ledger EXCEPT ![o] = c.stages[o].job]
  BY <1>1, <1>2, AdoptedFields
<1>5. /\ c.jobs \in [Jobs -> Job \cup {None}] /\ c.stages \in [Operations -> StageRecord \cup {None}]
      /\ c.ledger \in [Operations -> Jobs \cup {None}]
  BY <1>1 DEF Controlled
<1> QED
  BY <1>1, <1>2, <1>3, <1>4, <1>5

\* A decision changes the one job and the one entry of the ledger it is about.
LEMMA DecidesSound ==
  ASSUME NEW c, NEW v, NEW o, Sound(c), Decides(c, v, o)
  PROVE  /\ Sound(v) /\ v.seed = c.seed /\ v.sequence >= c.sequence
         /\ \A q \in Operations : q # o => v.ledger[q] = c.ledger[q]
         /\ v.stages[o].manager = c.stages[o].manager
<1> DEFINE j == c.stages[o].job
           stage == AdoptedStage(c, o)
           job == AdoptedJob(c, o)
<1>1. /\ c \in Controlled /\ o \in Operations /\ v = Adopted(c, o)
      /\ c.stages[o] # None /\ c.stages[o].status = "staged" /\ Lawful(c, o)
  BY DEF Sound, Decides
<1>2. c.jobs[j] # None /\ c.jobs[j].outcome = "staged" /\ c.jobs[j].complete
  BY <1>1 DEF Sound, SoundStage
<1>3. /\ v \in Controlled /\ j \in Jobs /\ job \in Job /\ stage \in StageRecord
      /\ v.jobs[j] = job /\ \A k \in Jobs : k # j => v.jobs[k] = c.jobs[k]
      /\ v.stages[o] = stage /\ v.ledger[o] = j
      /\ \A q \in Operations : q # o => v.stages[q] = c.stages[q] /\ v.ledger[q] = c.ledger[q]
      /\ v.sequence = c.sequence + 1 /\ v.seed = c.seed
  BY DecidesFields
<1>4. /\ c.jobs \in [Jobs -> Job \cup {None}] /\ c.sequence \in Nat /\ c.jobs[j] \in Job
      /\ c.stages \in [Operations -> StageRecord \cup {None}] /\ c.stages[o] \in StageRecord
      /\ c.ledger \in [Operations -> Jobs \cup {None}]
  BY <1>1, <1>2, <1>3 DEF Controlled
<1>5. /\ job.plan = c.jobs[j].plan /\ job.outcome = "adopted" /\ job.complete
      /\ job.migration = c.jobs[j].migration /\ job.form = c.jobs[j].form
  BY <1>2, <1>4 DEF Job, AdoptedJob
<1>6. stage.job = j /\ stage.status = "adopted" /\ stage.manager = c.stages[o].manager
  BY <1>4 DEF StageRecord, AdoptedStage
<1>7. Lawful(c, o) <=> /\ c.jobs[j].form \notin Fixtures
                       /\ c.jobs[j].migration # None =>
                             /\ c.jobs[j].migration.resolved
                             /\ c.jobs[j].migration.registry = c.stages[o].manager
  BY DEF Lawful
<1>8. \A q \in Operations : c.stages[q] # None /\ q # o => c.stages[q].job # j /\ c.stages[q].job \in Jobs
  BY <1>1, <1>4 DEF Sound, OneStage, StageRecord
<1>9. \A k \in Jobs : SoundJob(c, k)
  BY DEF Sound
<1> HIDE DEF job, stage, j
<1>10. \A k \in Jobs : SoundJob(v, k)
  BY <1>2, <1>3, <1>4, <1>5, <1>9 DEF SoundJob, WellMigrated
<1>11. \A q \in Operations : SoundStage(v, q)
  <2> SUFFICES ASSUME NEW q \in Operations, v.stages[q] # None
               PROVE  SoundStage(v, q)
    BY DEF SoundStage
  <2>1. CASE q = o
    <3>1. v.stages[q] = stage /\ v.jobs[j] = job /\ job # None
      BY <1>3, <1>4, <2>1, Distinct
    <3>2. Lawful(v, q)
      BY <1>1, <1>5, <1>6, <1>7, <3>1 DEF Lawful
    <3> QED
      BY <1>5, <1>6, <3>1, <3>2 DEF SoundStage
  <2>2. CASE q # o
    <3>1. v.stages[q] = c.stages[q]
      BY <1>3, <1>4, <2>2
    <3>2. v.jobs[c.stages[q].job] = c.jobs[c.stages[q].job]
      BY <1>3, <1>4, <1>8, <2>2, <3>1
    <3> QED
      BY <3>1, <3>2 DEF Sound, SoundStage, Lawful
  <2> QED
    BY <2>1, <2>2
<1>12. OneStage(v)
  BY <1>3, <1>4, <1>6, <1>8 DEF Sound, OneStage
<1>13. LedgerMatches(v)
  <2> SUFFICES ASSUME NEW q \in Operations
               PROVE  v.ledger[q] = IF q \in Accepted(v, All) THEN v.stages[q].job ELSE None
    BY DEF LedgerMatches
  <2>1. CASE q = o
    <3>1. v.stages[q] = stage /\ stage # None
      BY <1>3, <1>4, <2>1, Distinct
    <3>2. q \in Accepted(v, All)
      BY <1>3, <1>6, <3>1, AcceptedAll
    <3> QED
      BY <1>3, <1>4, <1>6, <2>1, <3>1, <3>2
  <2>2. CASE q # o
    <3>1. v.stages[q] = c.stages[q] /\ v.ledger[q] = c.ledger[q]
      BY <1>3, <1>4, <2>2
    <3>2. q \in Accepted(v, All) <=> q \in Accepted(c, All)
      BY <3>1 DEF Accepted
    <3> QED
      BY <3>1, <3>2 DEF Sound, LedgerMatches
  <2> QED
    BY <2>1, <2>2
<1> QED
  BY <1>1, <1>3, <1>4, <1>6, <1>10, <1>11, <1>12, <1>13 DEF Sound

\* A projection decides nothing.
LEMMA ProjectsSound ==
  ASSUME NEW c, NEW v, Sound(c), Projects(c, v)
  PROVE  Sound(v) /\ v.seed = c.seed /\ v.sequence >= c.sequence /\ v.ledger = c.ledger
<1>1. PICK f \in Jobs \cup {All} : v = Projected(c, f)
  BY DEF Projects
<1>2. c \in Controlled /\ c.sequence \in Nat
  BY DEF Sound, Controlled
<1>3. /\ v \in Controlled
      /\ v.jobs = c.jobs /\ v.stages = c.stages /\ v.ledger = c.ledger
      /\ v.sequence = c.sequence /\ v.seed = c.seed
  BY <1>1, <1>2, ProjectedFields
<1> QED
  BY <1>2, <1>3 DEF Sound, SoundJob, SoundStage, OneStage, LedgerMatches, Accepted, Lawful

-----------------------------------------------------------------------------
Undertaken(c, v) == Observes(c, v) \/ Interprets(c, v) \/ Prepares(c, v) \/ Projects(c, v)

\* The steps of a command that work on a store.
Busy == {"seed", "load", "read", "compare", "adopt", "compare frontier", "commit", "write", "replace",
         "mirror"}

Stored == controller # None => Sound(controller)

\* The command under way has a store, and holds that store or one outcome of it.
InTransaction ==
    /\ pc = "bind" => arg \in Checkouts
    /\ pc = "open" => policy # None
    /\ pc \in Busy => controller # None
    /\ pc \in Busy => (controller.seed = 0 <=> pc = "seed")
    /\ pc \in {"seed", "load", "read", "adopt", "write", "replace", "mirror"} => value = controller
    /\ pc = "replace" => arg \in todo
    /\ pc \in {"load", "read"} =>
          arg \in Jobs /\ controller.jobs[arg] = None /\ ~controller.stop /\ seen.frontier <= registry
    /\ pc = "read" => seen.frontier <= seen.loaded /\ seen.loaded <= registry
    /\ pc = "compare" => Observes(controller, value)
    /\ pc = "adopt" =>
          /\ arg \in Operations /\ controller.stages[arg] # None
          /\ controller.stages[arg].status = "staged" /\ Lawful(controller, arg)
    /\ pc = "compare frontier" => Decides(controller, value, arg)
    /\ pc = "commit" =>
          \/ Undertaken(controller, value)
          \/ Decides(controller, value, arg) /\ (slipped \/ controller.stages[arg].manager = registry)

\* What is about to be shown was decided at the registry of now.
Current(c, manager) ==
    \A o \in c.files.entries : c.stages[o].manager = manager

Writing ==
    /\ todo # {} => pc \in {"commit", "write", "replace"}
    /\ pc = "commit" /\ todo # {} => value.files # None /\ (slipped \/ Current(value, registry))
    /\ pc = "write" => value.files # None /\ (slipped \/ Current(value, seen.frontier))
    /\ pc = "replace" =>
          /\ value.files # None /\ (slipped \/ Current(value, registry))
          /\ slipped \/ registry = seen.frontier

\* A mirror is of a seeded store, and of no other seed than the store's.
SeedOnce == SeedKept /\ (mirror # None => mirror.seed # 0)

IInv == TypeOK /\ Stored /\ InTransaction /\ Writing /\ SeedOnce

-----------------------------------------------------------------------------
\* A store that opens is sound, seeded, and what the command then works on.
LEMMA Opened ==
  ASSUME IInv, Opens
  PROVE  /\ controller # None /\ Sound(controller) /\ controller \in Controlled
         /\ controller.seed # 0 /\ policy = controller.policy
  BY DEF IInv, Stored, Opens, Sound, CurrentFrontier

\* What is undertaken is a sound store again, with its seed and no fewer frames.
LEMMA UndertakenSound ==
  ASSUME NEW c, NEW v, Sound(c), Undertaken(c, v)
  PROVE  Sound(v) /\ v.seed = c.seed /\ v.sequence >= c.sequence /\ v.ledger = c.ledger
  BY ObservesSound, InterpretsSound, PreparesSound, ProjectsSound DEF Undertaken

\* The outcomes of a run are those the transaction may come to.
LEMMA ResultsKnown ==
  ASSUME NEW c, NEW s \in Plans, NEW e \in Results(c, s)
  PROVE  e \in Outcomes /\ (c.stop => e.outcome = "stopped")
<1>1. Outcome("stopped", FALSE).outcome = "stopped"
  BY DEF Outcome
<1>2. \A k \in {"candidate", "stopped", "refused"}, complete \in BOOLEAN :
        Outcome(k, complete) \in Outcomes
  BY DEF Outcome, Outcomes
<1>3. (s = "identity") \in BOOLEAN
  OBVIOUS
<1>4. Interpretations(s) \subseteq Outcomes
  BY <1>2, <1>3 DEF Interpretations
<1> QED
  BY <1>1, <1>2, <1>4 DEF Results

\* A record of one more command whose transaction is about to COMMIT.
LEMMA BeginCommit ==
  ASSUME IInv, Opens, NEW v, Undertaken(controller, v),
         Begin("commit", None, v),
         UNCHANGED <<files, registry, controller, seen, minted, faults>>,
         pending' \in {pending, None},
         todo' \subseteq Views,
         todo' # {} => v.files # None /\ Current(v, registry)
  PROVE  IInv'
<1>1. /\ controller # None /\ Sound(controller) /\ controller \in Controlled /\ controller.seed # 0
  BY Opened
<1>2. Sound(v) /\ v \in Controlled
  BY <1>1, UndertakenSound DEF Sound
<1>3. /\ pc' = "commit" /\ arg' = None /\ value' = v /\ slipped' = FALSE
  BY DEF Begin
<1>4. TypeOK'
  BY <1>2, <1>3 DEF IInv, TypeOK, Steps, files
<1>5. Stored' /\ SeedOnce'
  BY <1>1 DEF IInv, Stored, SeedOnce, SeedKept, files
<1>6. InTransaction'
  BY <1>1, <1>3 DEF InTransaction, Busy
<1>7. Writing'
  BY <1>3 DEF Writing
<1> QED
  BY <1>4, <1>5, <1>6, <1>7 DEF IInv

\* A command that ends has nothing in hand any more.
LEMMA EndClears ==
  ASSUME End, Stored', SeedOnce', TypeOK'
  PROVE  IInv'
<1>1. pc' = "idle" /\ todo' = {}
  BY DEF End
<1>2. InTransaction' /\ Writing'
  BY <1>1 DEF InTransaction, Writing, Busy
<1> QED
  BY <1>2 DEF IInv

\* A command that ends and changes nothing else.
LEMMA EndKeeps ==
  ASSUME IInv, End, UNCHANGED <<files, registry, controller, pending, minted>>, faults' \in Nat
  PROVE  IInv'
<1>1. TypeOK'
  BY DEF IInv, TypeOK, Steps, files, End, Unseen
<1>2. Stored' /\ SeedOnce'
  BY DEF IInv, Stored, SeedOnce, SeedKept, files
<1> QED
  BY <1>1, <1>2, EndClears

\* An idle step that leaves the store and the views alone.
LEMMA IdleKeeps ==
  ASSUME IInv, TypeOK', pc = "idle", UNCHANGED command, Stored', SeedOnce'
  PROVE  IInv'
<1>1. pc' = "idle" /\ todo' = todo /\ todo = {}
  BY DEF IInv, Writing, command
<1>2. InTransaction' /\ Writing'
  BY <1>1 DEF InTransaction, Writing, Busy
<1> QED
  BY <1>2 DEF IInv

\* Nothing is there and nothing is under way.
LEMMA InitIInv == Init => IInv
<1> SUFFICES ASSUME Init PROVE IInv
  OBVIOUS
<1>1. TypeOK
  BY DEF Init, TypeOK, Steps, Unseen
<1>2. Stored /\ InTransaction /\ Writing /\ SeedOnce
  BY DEF Init, Stored, InTransaction, Busy, Writing, SeedOnce, SeedKept
<1> QED
  BY <1>1, <1>2 DEF IInv

-----------------------------------------------------------------------------
\* bind begins with a checkout and without a store.
LEMMA BindImageKeeps ==
  ASSUME IInv, NEW k \in Checkouts, BindImage(k)
  PROVE  IInv'
<1>1. pc' = "bind" /\ arg' = k /\ value' = None /\ slipped' = FALSE
  BY DEF BindImage, Begin
<1>2. pc = "idle" /\ todo = {}
  BY DEF BindImage, Begin, IInv, Writing
<1>3. TypeOK'
  BY <1>1 DEF BindImage, IInv, TypeOK, Steps
<1>4. Stored' /\ SeedOnce'
  BY DEF BindImage, IInv, Stored, SeedOnce, SeedKept
<1>5. InTransaction' /\ Writing'
  BY <1>1, <1>2 DEF BindImage, InTransaction, Writing, Busy
<1> QED
  BY <1>3, <1>4, <1>5 DEF IInv

\* The binding that is written is the checkout asked for.
LEMMA BindDocumentKeeps ==
  ASSUME IInv, BindDocument
  PROVE  IInv'
<1>1. arg \in Checkouts
  BY DEF BindDocument, IInv, InTransaction
<1>2. TypeOK'
  BY <1>1 DEF BindDocument, End, Unseen, IInv, TypeOK, Steps
<1>3. Stored' /\ SeedOnce'
  BY DEF BindDocument, IInv, Stored, SeedOnce, SeedKept
<1> QED
  BY <1>2, <1>3, EndClears DEF BindDocument

\* From here on there is a policy for init to create a store under.
LEMMA InitPolicyKeeps ==
  ASSUME IInv, NEW p \in Asked, InitPolicy(p)
  PROVE  IInv'
<1>1. pc' = "open" /\ arg' = None /\ value' = None /\ slipped' = FALSE
  BY DEF InitPolicy, Begin
<1>2. pc = "idle" /\ todo = {}
  BY DEF InitPolicy, Begin, IInv, Writing
<1>3. p \in Policies /\ p # None
  BY Workspace1Assumption
<1>4. TypeOK'
  BY <1>1, <1>3 DEF InitPolicy, IInv, TypeOK, Steps
<1>5. Stored' /\ SeedOnce'
  BY DEF InitPolicy, IInv, Stored, SeedOnce, SeedKept
<1>6. InTransaction' /\ Writing'
  BY <1>1, <1>2, <1>3 DEF InitPolicy, InTransaction, Writing, Busy
<1> QED
  BY <1>4, <1>5, <1>6 DEF IInv

\* A store is created only where no mirror tells of another.
LEMMA InitOpenKeeps ==
  ASSUME IInv, InitOpen
  PROVE  IInv'
<1>1. /\ pc = "open" /\ policy \in Policies /\ todo = {}
      /\ value' = controller' /\ UNCHANGED <<files, registry, pending, minted, faults, arg, seen, todo, slipped>>
      /\ pc' = IF controller'.seed = 0 THEN "seed" ELSE "mirror"
  BY DEF InitOpen, Goto, IInv, InTransaction, Writing, TypeOK, Steps
<1>2. controller' # None /\ Sound(controller') /\ controller' \in Controlled
  <2>1. CASE Creatable /\ controller' = Unseeded(policy)
    BY <1>1, <2>1, UnseededSound, Distinct DEF Sound
  <2>2. CASE Openable /\ UNCHANGED controller
    BY <2>2 DEF Openable, IInv, Stored, Sound
  <2> QED
    BY <2>1, <2>2 DEF InitOpen
<1>3. SeedOnce'
  <2>1. CASE Creatable
    BY <1>1, <2>1 DEF Creatable, SeedOnce, SeedKept, files
  <2>2. CASE Openable /\ UNCHANGED controller
    BY <1>1, <2>2 DEF IInv, SeedOnce, SeedKept, files
  <2> QED
    BY <2>1, <2>2 DEF InitOpen
<1>4. TypeOK'
  BY <1>1, <1>2 DEF IInv, TypeOK, Steps, files
<1>5. Stored' /\ InTransaction' /\ Writing'
  BY <1>1, <1>2 DEF Stored, InTransaction, Writing, Busy
<1> QED
  BY <1>3, <1>4, <1>5 DEF IInv

\* A seed is minted before any mirror, so no mirror is of another.
LEMMA SeedSound ==
  ASSUME NEW c, Sound(c), NEW n \in Nat
  PROVE  /\ Sound([c EXCEPT !.seed = n]) /\ [c EXCEPT !.seed = n] \in Controlled
         /\ [c EXCEPT !.seed = n].seed = n
<1> DEFINE v == [c EXCEPT !.seed = n]
<1>1. /\ v \in Controlled /\ v.seed = n
      /\ v.jobs = c.jobs /\ v.stages = c.stages /\ v.ledger = c.ledger
  BY DEF Sound, Controlled
<1> HIDE DEF v
<1>2. Sound(v)
  BY <1>1 DEF Sound, SoundJob, SoundStage, OneStage, LedgerMatches, Accepted, Lawful
<1> QED
  BY <1>1, <1>2 DEF v

\* A fresh seed is given only to a store that has none, so no mirror knows another.
LEMMA SeedKeeps ==
  ASSUME IInv, Seed
  PROVE  IInv'
<1>1. /\ pc = "seed" /\ controller # None /\ Sound(controller) /\ controller.seed = 0
      /\ todo = {} /\ minted \in Nat
  BY DEF Seed, IInv, InTransaction, Stored, Writing, TypeOK, Steps, Busy
<1>2. /\ minted' = minted + 1 /\ controller' = [controller EXCEPT !.seed = minted + 1]
      /\ value' = controller' /\ pc' = "mirror"
      /\ UNCHANGED <<files, registry, pending, faults, arg, seen, todo, slipped>>
  BY DEF Seed, Goto
<1>3. Sound(controller') /\ controller' \in Controlled /\ controller'.seed # 0 /\ controller' # None
  BY <1>1, <1>2, SeedSound, Distinct
<1>4. mirror = None
  BY <1>1 DEF IInv, SeedOnce, SeedKept
<1>5. TypeOK'
  <2>1. /\ minted' \in Nat /\ value' \in Controlled /\ pc' = "mirror"
        /\ UNCHANGED <<files, registry, pending, faults, arg, seen, todo, slipped>>
    BY <1>1, <1>2, <1>3
  <2> QED
    BY <1>3, <2>1 DEF IInv, TypeOK, Steps, files
<1>6. SeedOnce'
  BY <1>2, <1>4 DEF SeedOnce, SeedKept, files
<1>7. Stored' /\ InTransaction' /\ Writing'
  BY <1>1, <1>2, <1>3 DEF Stored, InTransaction, Writing, Busy
<1> QED
  BY <1>5, <1>6, <1>7 DEF IInv

-----------------------------------------------------------------------------
\* A new job that is registered with its form has been captured only.
LEMMA NewJobKnown ==
  ASSUME NEW form \in Forms, NEW adoptable \in BOOLEAN,
         NEW migration \in [registry : Nat, resolved : BOOLEAN] \cup {None}
  PROVE  LET job == NewJob(form, adoptable, migration)
         IN  /\ job \in Job
             /\ job.outcome = "captured" /\ job.plan = None /\ job.migration = migration
  BY DEF NewJob, Job

\* What is captured from a fixture cannot be adopted and never was migrated.
LEMMA CaptureKeeps ==
  ASSUME IInv, NEW j \in Jobs, Capture(j)
  PROVE  IInv'
<1>1. PICK form \in FormsOf[j] :
        Begin("commit", None, Observed(controller, j, NewJob(form, form \notin Fixtures, None)))
  BY DEF Capture
<1> DEFINE adoptable == form \notin Fixtures
           job == NewJob(form, adoptable, None)
           v == Observed(controller, j, job)
<1>2. form \in Forms /\ adoptable \in BOOLEAN
  BY Workspace1Assumption
<1> HIDE DEF adoptable
<1>3. job \in Job /\ job.outcome = "captured" /\ job.plan = None /\ job.migration = None
  BY <1>2, NewJobKnown
<1>4. controller.jobs[j] = None /\ ~controller.stop /\ Opens
  BY DEF Capture, Observable
<1> HIDE DEF job
<1>5. Observes(controller, v)
  BY <1>3, <1>4 DEF Observes, WellMigrated
<1>6. /\ Begin("commit", None, v) /\ todo' = {} /\ pending' = pending
      /\ UNCHANGED <<files, registry, controller, seen, minted, faults>>
  BY <1>1 DEF Capture, Begin, IInv, Writing, job, adoptable
<1> HIDE DEF v
<1> QED
  BY <1>4, <1>5, <1>6, BeginCommit DEF Undertaken

\* migrate takes its frontier from the registry of now.
LEMMA MigrateKeeps ==
  ASSUME IInv, NEW j \in Jobs, Migrate(j)
  PROVE  IInv'
<1>1. /\ pc = "idle" /\ pc' = "load" /\ arg' = j /\ value' = controller /\ slipped' = FALSE
      /\ controller.jobs[j] = None /\ ~controller.stop /\ Opens
      /\ seen' = [seen EXCEPT !.frontier = registry]
      /\ UNCHANGED <<files, registry, controller, todo, pending, minted, faults>>
  BY DEF Migrate, Observable, Begin
<1>2. controller # None /\ Sound(controller) /\ controller \in Controlled /\ controller.seed # 0
  BY <1>1, Opened
<1>3. todo = {} /\ registry \in Nat /\ seen \in [frontier : Nat, loaded : Nat]
  BY <1>1 DEF IInv, TypeOK, Steps, Writing
<1>4. seen' \in [frontier : Nat, loaded : Nat] /\ seen'.frontier <= registry'
  BY <1>1, <1>3
<1>5. TypeOK'
  BY <1>1, <1>2, <1>4 DEF IInv, TypeOK, Steps, files
<1>6. Stored' /\ SeedOnce'
  BY <1>1 DEF IInv, Stored, SeedOnce, SeedKept, files
<1>7. InTransaction' /\ Writing'
  BY <1>1, <1>2, <1>3, <1>4 DEF InTransaction, Writing, Busy
<1> QED
  BY <1>5, <1>6, <1>7 DEF IInv

\* The registry is loaded no earlier than its frontier was taken.
LEMMA MigrateLoadKeeps ==
  ASSUME IInv, MigrateLoad
  PROVE  IInv'
<1>1. /\ pc = "load" /\ pc' = "read" /\ seen' = [seen EXCEPT !.loaded = registry]
      /\ UNCHANGED <<files, registry, controller, arg, value, todo, slipped, pending, minted, faults>>
  BY DEF MigrateLoad
<1>2. /\ controller # None /\ controller.seed # 0 /\ value = controller /\ todo = {}
      /\ arg \in Jobs /\ controller.jobs[arg] = None /\ ~controller.stop
      /\ seen.frontier <= registry
  BY <1>1 DEF IInv, InTransaction, Writing, Busy
<1>3. registry \in Nat /\ seen \in [frontier : Nat, loaded : Nat]
  BY DEF IInv, TypeOK, Steps
<1>4. /\ seen' \in [frontier : Nat, loaded : Nat]
      /\ seen'.frontier = seen.frontier /\ seen'.loaded = registry
  BY <1>1, <1>3
<1>5. TypeOK'
  BY <1>1, <1>4 DEF IInv, TypeOK, Steps, files
<1>6. Stored' /\ SeedOnce'
  BY <1>1 DEF IInv, Stored, SeedOnce, SeedKept, files
<1>7. InTransaction' /\ Writing'
  BY <1>1, <1>2, <1>3, <1>4 DEF InTransaction, Writing, Busy
<1> QED
  BY <1>5, <1>6, <1>7 DEF IInv

\* The bytes agree with the frontier, so what was loaded in between is the same.
LEMMA MigrateReadKeeps ==
  ASSUME IInv, MigrateRead
  PROVE  IInv'
<1> DEFINE resolved == seen.loaded \in Resolved
           migration == [registry |-> seen.frontier, resolved |-> resolved]
           job == NewJob("registry-metadata", resolved, migration)
<1>1. /\ pc = "read" /\ pc' = "compare" /\ registry = seen.frontier
      /\ value' = Observed(value, arg, job)
      /\ UNCHANGED <<files, registry, controller, arg, seen, todo, slipped, pending, minted, faults>>
  BY DEF MigrateRead, Goto, ReadAgrees
<1>2. /\ controller # None /\ controller.seed # 0 /\ value = controller /\ todo = {}
      /\ arg \in Jobs /\ controller.jobs[arg] = None /\ ~controller.stop
      /\ seen.frontier <= seen.loaded /\ seen.loaded <= registry
  BY <1>1 DEF IInv, InTransaction, Writing, Busy
<1>3. registry \in Nat /\ seen.frontier \in Nat /\ seen.loaded \in Nat
  BY DEF IInv, TypeOK, Steps
<1>4. seen.loaded = seen.frontier
  BY <1>1, <1>2, <1>3
<1>5. resolved \in BOOLEAN /\ migration \in [registry : Nat, resolved : BOOLEAN] \cup {None}
  BY <1>3
<1>6. migration.resolved => migration.registry \in Resolved
  BY <1>4
<1>7. "registry-metadata" \in Forms
  BY DEF Forms
<1> HIDE DEF migration, resolved
<1>8. job \in Job /\ job.outcome = "captured" /\ job.plan = None /\ job.migration = migration
  BY <1>5, <1>7, NewJobKnown
<1> HIDE DEF job
<1>9. Observes(controller, value')
  BY <1>1, <1>2, <1>6, <1>8 DEF Observes, WellMigrated
<1>10. Sound(controller)
  BY <1>2 DEF IInv, Stored
<1>11. value' \in Controlled
  BY <1>9, <1>10, ObservesSound DEF Sound
<1>12. TypeOK'
  <2>1. /\ pc' = "compare" /\ value' \in Controlled
        /\ UNCHANGED <<files, registry, controller, arg, seen, todo, slipped, pending, minted, faults>>
    BY <1>1, <1>11
  <2> QED
    BY <2>1 DEF IInv, TypeOK, Steps, files
<1>13. Stored' /\ SeedOnce'
  BY <1>1 DEF IInv, Stored, SeedOnce, SeedKept, files
<1>14. InTransaction' /\ Writing'
  <2>1. /\ pc' = "compare" /\ todo' = {} /\ controller' = controller
    BY <1>1, <1>2
  <2> QED
    BY <1>2, <1>9, <2>1 DEF InTransaction, Writing, Busy
<1> QED
  BY <1>12, <1>13, <1>14 DEF IInv

\* The second comparison changes nothing that is committed.
LEMMA MigrateCompareKeeps ==
  ASSUME IInv, MigrateCompare
  PROVE  IInv'
<1>1. /\ pc = "compare" /\ pc' = "commit"
      /\ UNCHANGED <<files, registry, controller, arg, seen, value, todo, slipped, pending, minted, faults>>
  BY DEF MigrateCompare, Goto
<1>2. /\ controller # None /\ controller.seed # 0 /\ todo = {}
      /\ Observes(controller, value)
  BY <1>1 DEF IInv, InTransaction, Writing, Busy
<1>3. TypeOK'
  BY <1>1 DEF IInv, TypeOK, Steps, files
<1>4. Stored' /\ SeedOnce'
  BY <1>1 DEF IInv, Stored, SeedOnce, SeedKept, files
<1>5. InTransaction' /\ Writing'
  BY <1>1, <1>2 DEF InTransaction, Writing, Busy, Undertaken
<1> QED
  BY <1>3, <1>4, <1>5 DEF IInv

-----------------------------------------------------------------------------
\* Whatever an interpretation may answer, it is one of the store as committed.
LEMMA RunKeeps ==
  ASSUME IInv, NEW j \in Jobs, NEW s \in Strategies, Run(j, s)
  PROVE  IInv'
<1>1. PICK e \in Results(controller, s), stop \in BOOLEAN :
        /\ stop => e.outcome = "stopped"
        /\ Begin("commit", None, Interpreted(controller, j, s, e, stop))
  BY DEF Run
<1> DEFINE v == Interpreted(controller, j, s, e, stop)
<1>2. s \in Plans
  BY Workspace1Assumption
<1>3. e \in Outcomes /\ (controller.stop => e.outcome = "stopped")
  BY <1>2, ResultsKnown
<1>4. Opens /\ Runnable(controller, j)
  BY DEF Run
<1>5. Interprets(controller, v)
  BY <1>1, <1>2, <1>3, <1>4 DEF Interprets
<1>6. /\ Begin("commit", None, v) /\ todo' = {} /\ pending' = pending
      /\ UNCHANGED <<files, registry, controller, seen, minted, faults>>
  BY <1>1 DEF Run, Begin, IInv, Writing
<1> HIDE DEF v
<1> QED
  BY <1>4, <1>5, <1>6, BeginCommit DEF Undertaken

\* A stage is of a complete candidate, at the registry of now.
LEMMA StageKeeps ==
  ASSUME IInv, NEW o \in Operations, NEW j \in Jobs, Stage(o, j)
  PROVE  IInv'
<1> DEFINE v == Staged(controller, o, j, registry)
<1>1. Opens /\ Stageable(controller, o, j) /\ Begin("commit", None, v)
  BY DEF Stage
<1>2. registry \in Nat
  BY DEF IInv, TypeOK, Steps
<1>3. Prepares(controller, v)
  BY <1>1, <1>2 DEF Prepares
<1>4. /\ todo' = {} /\ pending' = pending
      /\ UNCHANGED <<files, registry, controller, seen, minted, faults>>
  BY DEF Stage, Begin, IInv, Writing
<1> HIDE DEF v
<1> QED
  BY <1>1, <1>3, <1>4, BeginCommit DEF Undertaken

\* A stage whose job is eligible now is lawful to adopt.
LEMMA AdoptKeeps ==
  ASSUME IInv, NEW o \in Operations, Adopt(o)
  PROVE  IInv'
<1>1. /\ pc = "idle" /\ pc' = "adopt" /\ arg' = o /\ value' = controller /\ slipped' = FALSE
      /\ Opens /\ controller.stages[o] # None /\ controller.stages[o].status = "staged"
      /\ controller.stages[o].manager = registry
      /\ Eligible(controller.jobs[controller.stages[o].job])
      /\ UNCHANGED <<files, registry, controller, seen, todo, pending, minted, faults>>
  BY DEF Adopt, Begin
<1>2. controller # None /\ Sound(controller) /\ controller \in Controlled /\ controller.seed # 0
  BY <1>1, Opened
<1>3. Lawful(controller, o)
  BY <1>1 DEF Lawful, Eligible
<1>4. todo = {}
  BY <1>1 DEF IInv, Writing
<1>5. TypeOK'
  BY <1>1, <1>2 DEF IInv, TypeOK, Steps, files
<1>6. Stored' /\ SeedOnce'
  BY <1>1 DEF IInv, Stored, SeedOnce, SeedKept, files
<1>7. InTransaction' /\ Writing'
  BY <1>1, <1>2, <1>3, <1>4 DEF InTransaction, Writing, Busy
<1> QED
  BY <1>5, <1>6, <1>7 DEF IInv

\* The kernel decides on the store it was given, at the frontier of the stage.
LEMMA AdoptInControllerKeeps ==
  ASSUME IInv, AdoptInController
  PROVE  IInv'
<1>1. /\ pc = "adopt" /\ pc' = "compare frontier" /\ KernelAdopts(value, arg)
      /\ value' = Adopted(value, arg)
      /\ UNCHANGED <<files, registry, controller, arg, seen, todo, slipped, pending, minted, faults>>
  BY DEF AdoptInController, Goto
<1>2. /\ controller # None /\ controller.seed # 0 /\ value = controller /\ todo = {}
      /\ arg \in Operations /\ controller.stages[arg] # None
      /\ controller.stages[arg].status = "staged" /\ Lawful(controller, arg)
  BY <1>1 DEF IInv, InTransaction, Writing, Busy
<1>3. Decides(controller, value', arg)
  BY <1>1, <1>2 DEF Decides, KernelAdopts
<1>4. Sound(controller)
  BY <1>2 DEF IInv, Stored
<1>5. value' \in Controlled
  BY <1>3, <1>4, DecidesSound DEF Sound
<1>6. TypeOK'
  <2>1. /\ pc' = "compare frontier" /\ value' \in Controlled
        /\ UNCHANGED <<files, registry, controller, arg, seen, todo, slipped, pending, minted, faults>>
    BY <1>1, <1>5
  <2> QED
    BY <2>1 DEF IInv, TypeOK, Steps, files
<1>7. Stored' /\ SeedOnce'
  BY <1>1 DEF IInv, Stored, SeedOnce, SeedKept, files
<1>8. InTransaction' /\ Writing'
  <2>1. /\ pc' = "compare frontier" /\ todo' = {} /\ controller' = controller /\ arg' = arg
    BY <1>1, <1>2
  <2> QED
    BY <1>2, <1>3, <2>1 DEF InTransaction, Writing, Busy
<1> QED
  BY <1>6, <1>7, <1>8 DEF IInv

\* After the last comparison the registry is the approved one, until it changes.
LEMMA AdoptCompareKeeps ==
  ASSUME IInv, AdoptCompare
  PROVE  IInv'
<1>1. /\ pc = "compare frontier" /\ pc' = "commit" /\ value.stages[arg].manager = registry
      /\ UNCHANGED <<files, registry, controller, value, arg, seen, todo, slipped, pending, minted, faults>>
  BY DEF AdoptCompare, Goto, FrontierApproved
<1>2. /\ controller # None /\ controller.seed # 0 /\ todo = {}
      /\ Decides(controller, value, arg)
  BY <1>1 DEF IInv, InTransaction, Writing, Busy
<1>3. controller.stages[arg].manager = registry
  <2>1. Sound(controller) /\ arg \in Operations
    BY <1>2 DEF IInv, Stored, Decides
  <2>2. value.stages[arg].manager = controller.stages[arg].manager
    BY <1>2, <2>1, DecidesSound
  <2> QED
    BY <1>1, <2>2
<1>4. TypeOK'
  BY <1>1 DEF IInv, TypeOK, Steps, files
<1>5. Stored' /\ SeedOnce'
  BY <1>1 DEF IInv, Stored, SeedOnce, SeedKept, files
<1>6. InTransaction' /\ Writing'
  BY <1>1, <1>2, <1>3 DEF InTransaction, Writing, Busy
<1> QED
  BY <1>4, <1>5, <1>6 DEF IInv

\* What is rendered was decided at the registry of now.
LEMMA RenderKeeps ==
  ASSUME IInv, NEW f \in Jobs \cup {All}, Render(f), pending' \in {pending, None}
  PROVE  IInv'
<1> DEFINE v == Projected(controller, f)
<1>1. /\ Renderable(f) /\ Begin("commit", None, v) /\ todo' = Views
      /\ UNCHANGED <<files, registry, controller, seen, minted, faults>>
  BY DEF Render, ToWrite, Projected
<1>2. Opens /\ \A o \in Accepted(controller, f) : controller.stages[o].manager = registry
  BY <1>1 DEF Renderable
<1>3. controller \in Controlled
  BY <1>2, Opened
<1>4. v.files \in Shown /\ v.files.entries = Accepted(controller, f) /\ v.stages = controller.stages
  BY <1>3, ProjectedFields
<1>5. Projects(controller, v)
  BY DEF Projects
<1> HIDE DEF v
<1>6. v.files # None /\ Current(v, registry)
  BY <1>2, <1>4, Distinct DEF Current
<1> QED
  BY <1>1, <1>2, <1>5, <1>6, BeginCommit DEF Undertaken

-----------------------------------------------------------------------------
\* COMMIT is where the store changes, into a sound one with its seed.
LEMMA CommitSound ==
  ASSUME IInv, Commit
  PROVE  /\ controller # None /\ Sound(controller)
         /\ controller' = value /\ Sound(value) /\ value # None
         /\ value.seed = controller.seed /\ value.seed # 0 /\ value.sequence >= controller.sequence
<1>1. /\ pc = "commit" /\ controller' = value /\ controller # None /\ controller.seed # 0
  BY DEF Commit, IInv, InTransaction, Busy
<1>2. Sound(controller)
  BY <1>1 DEF IInv, Stored
<1>3. Undertaken(controller, value) \/ Decides(controller, value, arg)
  BY <1>1 DEF IInv, InTransaction
<1>4. Sound(value) /\ value.seed = controller.seed /\ value.sequence >= controller.sequence
  BY <1>2, <1>3, UndertakenSound, DecidesSound
<1>5. value # None
  BY <1>4, Distinct DEF Sound
<1> QED
  BY <1>1, <1>2, <1>4, <1>5

\* COMMIT puts one command's outcome, and nothing else, into the store.
LEMMA CommitKeeps ==
  ASSUME IInv, Commit
  PROVE  IInv'
<1>1. /\ pc = "commit" /\ pc' = (IF todo = {} THEN "mirror" ELSE "write")
      /\ controller' = value /\ value' = value /\ seen' = [seen EXCEPT !.frontier = registry]
      /\ UNCHANGED <<files, registry, arg, todo, slipped, pending, minted, faults>>
  BY DEF Commit
<1>2. /\ Sound(controller) /\ controller # None /\ Sound(value) /\ value # None
      /\ value.seed = controller.seed /\ value.seed # 0 /\ value.sequence >= controller.sequence
  BY CommitSound
<1>3. value \in Controlled /\ controller \in Controlled
  BY <1>2 DEF Sound
<1>4. registry \in Nat /\ seen \in [frontier : Nat, loaded : Nat]
  BY DEF IInv, TypeOK, Steps
<1>5. seen' \in [frontier : Nat, loaded : Nat] /\ seen'.frontier = registry
  BY <1>1, <1>4
<1>6. TypeOK'
  BY <1>1, <1>3, <1>5 DEF IInv, TypeOK, Steps, files
<1>7. Stored'
  BY <1>1, <1>2 DEF Stored
<1>8. SeedOnce'
  <2>1. mirror # None =>
          controller.seed = mirror.seed /\ mirror.sequence <= controller.sequence /\ mirror.seed # 0
    BY <1>2 DEF IInv, SeedOnce, SeedKept
  <2>2. mirror # None => mirror.sequence \in Nat
    BY DEF IInv, TypeOK, Steps
  <2>3. value.sequence \in Nat /\ controller.sequence \in Nat
    BY <1>3 DEF Controlled
  <2>4. mirror # None => mirror.sequence <= value.sequence
    BY <1>2, <2>1, <2>2, <2>3
  <2> QED
    BY <1>1, <1>2, <2>1, <2>4 DEF SeedOnce, SeedKept, files
<1>9. InTransaction'
  BY <1>1, <1>2 DEF InTransaction, Busy
<1>10. Writing'
  <2>1. todo # {} => value.files # None /\ (slipped \/ Current(value, registry))
    BY <1>1 DEF IInv, Writing
  <2>2. /\ pc' \in {"mirror", "write"} /\ (todo # {} <=> pc' = "write")
        /\ todo' = todo /\ value' = value /\ slipped' = slipped /\ seen'.frontier = registry
    BY <1>1, <1>5
  <2>3. pc' = "write" => value'.files # None /\ (slipped' \/ Current(value', seen'.frontier))
    BY <2>1, <2>2
  <2> QED
    BY <2>2, <2>3 DEF Writing
<1> QED
  BY <1>6, <1>7, <1>8, <1>9, <1>10 DEF IInv

\* A view that may be replaced is to show what is current when it is compared.
LEMMA CompareViewKeeps ==
  ASSUME IInv, NEW n \in Views, CompareView(n)
  PROVE  IInv'
<1>1. /\ pc = "write" /\ n \in todo /\ pc' = "replace" /\ arg' = n /\ registry = seen.frontier
      /\ UNCHANGED <<files, registry, controller, seen, value, todo, slipped, pending, minted, faults>>
  BY DEF CompareView, Writable
<1>2. /\ controller # None /\ controller.seed # 0 /\ value = controller
      /\ value.files # None /\ (slipped \/ Current(value, registry))
  BY <1>1 DEF IInv, InTransaction, Writing, Busy
<1>3. TypeOK'
  BY <1>1 DEF IInv, TypeOK, Steps, files
<1>4. Stored' /\ SeedOnce'
  BY <1>1 DEF IInv, Stored, SeedOnce, SeedKept, files
<1>5. InTransaction'
  BY <1>1, <1>2 DEF InTransaction, Busy
<1>6. Writing'
  BY <1>1, <1>2 DEF Writing
<1> QED
  BY <1>3, <1>4, <1>5, <1>6 DEF IInv

\* A view shows the projection just committed; the rest has still to be compared.
LEMMA WriteViewKeeps ==
  ASSUME IInv, WriteView
  PROVE  IInv'
<1>1. /\ pc = "replace" /\ pc' = (IF todo' = {} THEN "mirror" ELSE "write")
      /\ view' = [view EXCEPT ![arg] = value.files] /\ todo' = todo \ {arg} /\ arg' = None
      /\ UNCHANGED <<image, binding, policy, mirror, registry, controller, seen, value,
                     slipped, pending, minted, faults>>
  BY DEF WriteView
<1>2. /\ controller # None /\ controller.seed # 0 /\ value = controller
      /\ value.files # None /\ (slipped \/ Current(value, registry))
      /\ slipped \/ registry = seen.frontier
  BY <1>1 DEF IInv, InTransaction, Writing, Busy
<1>3. value.files \in Shown
  BY <1>2 DEF IInv, TypeOK, Steps, Controlled
<1>4. TypeOK'
  <2>1. view' \in [Views -> Shown \cup {None}] /\ todo' \subseteq Views /\ pc' \in {"mirror", "write"}
    BY <1>1, <1>3 DEF IInv, TypeOK, Steps
  <2> QED
    BY <1>1, <2>1 DEF IInv, TypeOK, Steps
<1>5. Stored' /\ SeedOnce'
  BY <1>1 DEF IInv, Stored, SeedOnce, SeedKept
<1>6. InTransaction'
  BY <1>1, <1>2 DEF InTransaction, Busy
<1>7. Writing'
  <2>1. slipped \/ Current(value, seen.frontier)
    BY <1>2
  <2> QED
    BY <1>1, <1>2, <2>1 DEF Writing
<1> QED
  BY <1>4, <1>5, <1>6, <1>7 DEF IInv

\* state.json is written of the store as it is.
LEMMA MirroredKnown ==
  ASSUME NEW c \in Controlled
  PROVE  /\ Mirrored(c) \in [seed : Nat, sequence : Nat]
         /\ Mirrored(c).seed = c.seed /\ Mirrored(c).sequence = c.sequence
         /\ c.sequence <= c.sequence
  BY DEF Mirrored, Controlled

\* The mirror is of the store as committed.
LEMMA MirrorKeeps ==
  ASSUME IInv, Mirror
  PROVE  IInv'
<1>1. /\ pc = "mirror" /\ mirror' = Mirrored(value) /\ End
      /\ UNCHANGED <<image, binding, policy, view, registry, controller, pending, minted, faults>>
  BY DEF Mirror
<1>2. controller # None /\ controller.seed # 0 /\ value = controller /\ controller \in Controlled
  BY <1>1 DEF IInv, InTransaction, Busy, TypeOK, Steps
<1>3. /\ mirror' \in [seed : Nat, sequence : Nat]
      /\ mirror'.seed = controller.seed /\ mirror'.sequence <= controller.sequence
  BY <1>1, <1>2, MirroredKnown
<1>4. TypeOK'
  BY <1>1, <1>3 DEF IInv, TypeOK, Steps, End, Unseen
<1>5. Stored' /\ SeedOnce'
  BY <1>1, <1>2, <1>3 DEF IInv, Stored, SeedOnce, SeedKept
<1> QED
  BY <1>1, <1>4, <1>5, EndClears

\* recover mirrors the store it has opened.
LEMMA RecoverKeeps ==
  ASSUME IInv, NEW views \in BOOLEAN, Recover(views)
  PROVE  IInv'
<1>1. /\ pc = "idle" /\ Opens /\ mirror' = Mirrored(controller)
      /\ pending' = (IF views THEN controller.focus ELSE None)
      /\ UNCHANGED <<image, binding, policy, view, registry, controller, command, minted, faults>>
  BY DEF Recover
<1>2. controller # None /\ controller.seed # 0 /\ controller \in Controlled
  BY <1>1, Opened
<1>3. /\ mirror' \in [seed : Nat, sequence : Nat]
      /\ mirror'.seed = controller.seed /\ mirror'.sequence <= controller.sequence
  BY <1>1, <1>2, MirroredKnown
<1>4. pending' \in Jobs \cup {All, None}
  BY <1>1, <1>2 DEF Controlled
<1>5. TypeOK'
  BY <1>1, <1>3, <1>4 DEF IInv, TypeOK, Steps, command
<1>6. Stored' /\ SeedOnce'
  BY <1>1, <1>2, <1>3 DEF IInv, Stored, SeedOnce, SeedKept
<1> QED
  BY <1>1, <1>5, <1>6, IdleKeeps

\* Its second half is a materialize, or nothing.
LEMMA RecoverViewsKeeps ==
  ASSUME IInv, RecoverViews
  PROVE  IInv'
<1>1. pc = "idle" /\ pending' = None /\ pending \in Jobs \cup {All}
  BY DEF RecoverViews, IInv, TypeOK, Steps
<1>2. CASE Render(pending)
  BY <1>1, <1>2, RenderKeeps
<1>3. CASE UNCHANGED <<files, registry, controller, command, minted, faults>>
  <2>1. TypeOK' /\ Stored' /\ SeedOnce'
    BY <1>1, <1>3 DEF IInv, TypeOK, Steps, Stored, SeedOnce, SeedKept, files, command
  <2> QED
    BY <1>1, <1>3, <2>1, IdleKeeps
<1> QED
  BY <1>2, <1>3 DEF RecoverViews

-----------------------------------------------------------------------------
\* A command that ends, by refusal, failure or death, leaves nothing but files.
LEMMA FaultsKeep ==
  ASSUME IInv, Stop \/ StopRecover \/ Refuse
  PROVE  IInv'
<1>1. faults \in Nat /\ pending \in Jobs \cup {All, None}
  BY DEF IInv, TypeOK, Steps
<1>2. CASE Stop \/ Refuse
  BY <1>1, <1>2, EndKeeps DEF Stop, Refuse, Fault
<1>3. CASE StopRecover
  <2>1. /\ pending' = None /\ faults' \in Nat
        /\ UNCHANGED <<files, registry, controller, command, minted>>
    BY <1>1, <1>3 DEF StopRecover, Fault
  <2>2. TypeOK'
    BY <2>1 DEF IInv, TypeOK, files, command
  <2>3. Stored' /\ SeedOnce'
    BY <2>1 DEF IInv, Stored, SeedOnce, SeedKept, files
  <2>4. InTransaction'
    BY <2>1 DEF IInv, InTransaction, files, command
  <2>5. Writing'
    BY <2>1 DEF IInv, Writing, files, command
  <2> QED
    BY <2>2, <2>3, <2>4, <2>5 DEF IInv
<1> QED
  BY <1>2, <1>3

\* Between commands nothing relies on the store but the mirror, which is kept.
LEMMA LoseControllerKeeps ==
  ASSUME IInv, LoseController
  PROVE  IInv'
<1>1. /\ pc = "idle" /\ controller' = None /\ faults' \in Nat
      /\ UNCHANGED <<files, registry, command, pending, minted>>
  BY DEF LoseController, Fault, IInv, TypeOK, Steps
<1>2. TypeOK' /\ Stored' /\ SeedOnce'
  BY <1>1 DEF IInv, TypeOK, Steps, Stored, SeedOnce, SeedKept, files, command
<1> QED
  BY <1>1, <1>2, IdleKeeps

\* Without state.json there is nothing for the store to agree with.
LEMMA LoseMirrorKeeps ==
  ASSUME IInv, LoseMirror
  PROVE  IInv'
<1>1. /\ pc = "idle" /\ mirror' = None
      /\ UNCHANGED <<image, binding, policy, view, registry, controller, command, pending, minted, faults>>
  BY DEF LoseMirror
<1>2. TypeOK' /\ Stored' /\ SeedOnce'
  BY <1>1 DEF IInv, TypeOK, Steps, Stored, SeedOnce, SeedKept, command
<1> QED
  BY <1>1, <1>2, IdleKeeps

\* Another policy.json is noticed before anything is committed.
LEMMA ReplacePolicyKeeps ==
  ASSUME IInv, NEW p \in Policies, ReplacePolicy(p)
  PROVE  IInv'
<1>1. /\ policy' = p /\ faults' = faults + 1
      /\ UNCHANGED <<image, binding, mirror, view, registry, controller, command, pending, minted>>
  BY DEF ReplacePolicy, Fault
<1>2. p # None /\ faults' \in Nat
  <2>1. faults \in Nat
    BY DEF IInv, TypeOK
  <2> QED
    BY <1>1, <2>1, Workspace1Assumption
<1>3. TypeOK'
  BY <1>1, <1>2 DEF IInv, TypeOK, command
<1>4. Stored' /\ SeedOnce'
  BY <1>1 DEF IInv, Stored, SeedOnce, SeedKept
<1>5. InTransaction'
  BY <1>1, <1>2 DEF IInv, InTransaction, command
<1>6. Writing'
  BY <1>1 DEF IInv, Writing, command
<1> QED
  BY <1>3, <1>4, <1>5, <1>6 DEF IInv

\* A change after the last comparison is remembered; any other is compared with.
LEMMA EditRegistryKeeps ==
  ASSUME IInv, EditRegistry
  PROVE  IInv'
<1>1. /\ registry' = registry + 1 /\ registry \in Nat
      /\ slipped' = (slipped \/ Unguarded) /\ slipped \in BOOLEAN
      /\ UNCHANGED <<files, controller, pc, arg, seen, value, todo, pending, minted, faults>>
  BY DEF EditRegistry, IInv, TypeOK, Steps
<1>2. TypeOK'
  <2>1. Unguarded \in BOOLEAN
    BY DEF Unguarded
  <2>2. slipped' \in BOOLEAN
    BY <1>1, <2>1
  <2>3. registry' \in Nat
    BY <1>1
  <2> QED
    BY <1>1, <2>2, <2>3 DEF IInv, TypeOK, files
<1>3. Stored' /\ SeedOnce'
  BY <1>1 DEF IInv, Stored, SeedOnce, SeedKept, files
<1>4. InTransaction'
  <2>1. pc \in {"load", "read"} => seen.frontier <= registry' /\ (pc = "read" => seen.loaded <= registry')
    <3>1. seen.frontier \in Nat /\ seen.loaded \in Nat
      BY DEF IInv, TypeOK, Steps
    <3>2. pc \in {"load", "read"} =>
            seen.frontier <= registry /\ (pc = "read" => seen.loaded <= registry)
      BY DEF IInv, InTransaction
    <3> QED
      BY <1>1, <3>1, <3>2
  <2>2. pc = "commit" => Undertaken(controller, value) \/ (Decides(controller, value, arg) /\ slipped')
    BY <1>1 DEF IInv, InTransaction, Decides, Unguarded
  <2> QED
    BY <1>1, <2>1, <2>2 DEF IInv, InTransaction, files
<1>5. Writing'
  BY <1>1 DEF IInv, Writing, Unguarded
<1> QED
  BY <1>2, <1>3, <1>4, <1>5 DEF IInv

\* A step that changes nothing keeps it.
LEMMA StutterKeeps ==
  ASSUME IInv, UNCHANGED vars
  PROVE  IInv'
<1>1. TypeOK'
  BY DEF vars, files, command, IInv, TypeOK
<1>2. Stored' /\ SeedOnce'
  BY DEF vars, files, IInv, Stored, SeedOnce, SeedKept
<1>3. InTransaction'
  BY DEF vars, files, command, IInv, InTransaction
<1>4. Writing'
  BY DEF vars, files, command, IInv, Writing
<1> QED
  BY <1>1, <1>2, <1>3, <1>4 DEF IInv

\* Every command, every step of one, and everything around them keep the invariant.
THEOREM Workspace1Invariance == Spec => []IInv
<1>1. IInv /\ [Next]_vars => IInv'
  <2> SUFFICES ASSUME IInv, [Next]_vars PROVE IInv'
    OBVIOUS
  <2>1. CASE \E k \in Checkouts : BindImage(k)
    BY <2>1, BindImageKeeps
  <2>2. CASE \E p \in Asked : InitPolicy(p)
    BY <2>2, InitPolicyKeeps
  <2>3. CASE \E j \in Jobs : Capture(j) \/ Migrate(j)
    BY <2>3, CaptureKeeps, MigrateKeeps
  <2>4. CASE \E j \in Jobs, s \in Strategies : Run(j, s)
    BY <2>4, RunKeeps
  <2>5. CASE \E o \in Operations : Adopt(o) \/ \E j \in Jobs : Stage(o, j)
    BY <2>5, AdoptKeeps, StageKeeps
  <2>6. CASE \E f \in Focuses : Materialize(f)
    <3>1. PICK f \in Focuses : Render(f) /\ pending' = pending
      BY <2>6 DEF Materialize
    <3>2. f \in Jobs \cup {All}
      BY Workspace1Assumption
    <3> QED
      BY <3>1, <3>2, RenderKeeps
  <2>7. CASE RecoverViews \/ \E views \in BOOLEAN : Recover(views)
    BY <2>7, RecoverKeeps, RecoverViewsKeeps
  <2>8. CASE Proceed
    BY <2>8, BindDocumentKeeps, InitOpenKeeps, SeedKeeps, MigrateLoadKeeps, MigrateReadKeeps,
       MigrateCompareKeeps, AdoptInControllerKeeps, AdoptCompareKeeps, CommitKeeps,
       CompareViewKeeps, WriteViewKeeps, MirrorKeeps, FaultsKeep DEF Proceed
  <2>9. CASE Stop \/ StopRecover \/ LoseController \/ LoseMirror \/ EditRegistry
    BY <2>9, FaultsKeep, LoseControllerKeeps, LoseMirrorKeeps, EditRegistryKeeps
  <2>10. CASE \E p \in Policies : ReplacePolicy(p)
    BY <2>10, ReplacePolicyKeeps
  <2>11. CASE UNCHANGED vars
    BY <2>11, StutterKeeps
  <2> QED
    BY <2>1, <2>2, <2>3, <2>4, <2>5, <2>6, <2>7, <2>8, <2>9, <2>10, <2>11 DEF Next
<1> QED
  BY <1>1, InitIInv, PTL DEF Spec

-----------------------------------------------------------------------------
\* The controller's state, the mirror, the views and the command under way keep
\* their types, whatever is cut off.
THEOREM Workspace1TypeCorrect == Spec => []TypeOK
  BY Workspace1Invariance, PTL DEF IInv

\* What opens a store may rely on: its stages and its ledger never disagree, so
\* no sequence of commands ends in a quarantine, and no job is decided twice.
THEOREM OneDecisionHolds == Spec => []OneDecision
<1>1. IInv => OneDecision
  BY DEF IInv, Stored, Sound, OneStage, OneDecision
<1> QED
  BY <1>1, Workspace1Invariance, PTL

\* What is adopted was lawful to adopt, for any jobs, forms and edits.
THEOREM AdoptedLawfullyHolds == Spec => []AdoptedLawfully
<1>1. IInv => AdoptedLawfully
  <2> SUFFICES ASSUME Stored, controller # None, NEW o \in Accepted(controller, All)
               PROVE  LET job == controller.jobs[controller.stages[o].job]
                      IN  /\ job.form \notin Fixtures /\ job.complete /\ job.outcome = "adopted"
                          /\ job.migration # None =>
                                /\ job.migration.registry = controller.stages[o].manager
                                /\ job.migration.registry \in Resolved
    BY DEF IInv, AdoptedLawfully
  <2>1. /\ Sound(controller) /\ o \in Operations /\ controller.stages[o] # None
        /\ controller.stages[o].status = "adopted"
    BY DEF Stored, Accepted
  <2>2. SoundStage(controller, o) /\ controller.stages[o].job \in Jobs
    BY <2>1 DEF Sound, Controlled, StageRecord
  <2>3. SoundJob(controller, controller.stages[o].job)
    BY <2>1, <2>2 DEF Sound
  <2> QED
    BY <2>1, <2>2, <2>3 DEF SoundStage, SoundJob, Lawful, WellMigrated
<1> QED
  BY <1>1, Workspace1Invariance, PTL

\* While there is a mirror, the store beside it has that seed and is not behind.
THEOREM SeedKeptHolds == Spec => []SeedKept
  BY Workspace1Invariance, PTL DEF IInv, SeedOnce

-----------------------------------------------------------------------------
\* The store is committed, seeded, created or lost; every other step leaves it alone.
LEMMA StoreChanges ==
  ASSUME [Next]_vars
  PROVE  UNCHANGED controller \/ Commit \/ Seed \/ InitOpen \/ LoseController
<1>1. ASSUME Proceed PROVE UNCHANGED controller \/ Commit \/ Seed \/ InitOpen
  BY <1>1 DEF Proceed, BindDocument, MigrateLoad, MigrateRead, MigrateCompare,
     AdoptInController, AdoptCompare, CompareView, WriteView, Mirror, Refuse
<1>2. ASSUME NEW f, Render(f) PROVE UNCHANGED controller
  BY <1>2 DEF Render
<1> QED
  BY <1>1, <1>2 DEF Next, BindImage, InitPolicy, Capture, Migrate, Run, Adopt, Stage,
     Materialize, Recover, RecoverViews, Stop, StopRecover, LoseMirror, EditRegistry,
     ReplacePolicy, vars

\* The views are written by one step only.
LEMMA ViewsWritten ==
  ASSUME [Next]_vars
  PROVE  UNCHANGED view \/ WriteView
<1>1. ASSUME Proceed PROVE UNCHANGED view \/ WriteView
  BY <1>1 DEF Proceed, BindDocument, InitOpen, Seed, MigrateLoad, MigrateRead, MigrateCompare,
     AdoptInController, AdoptCompare, Commit, CompareView, Mirror, Refuse, files
<1>2. ASSUME NEW f, Render(f) PROVE UNCHANGED view
  BY <1>2 DEF Render, files
<1> QED
  BY <1>1, <1>2 DEF Next, BindImage, InitPolicy, Capture, Migrate, Run, Adopt, Stage,
     Materialize, Recover, RecoverViews, Stop, StopRecover, LoseController, LoseMirror, EditRegistry,
     ReplacePolicy, files, vars

\* A decision is taken at the registry it was approved at, or the registry
\* changed after the last comparison.
THEOREM AdoptedAsApprovedHolds == Spec => AdoptedAsApproved
<1>1. ASSUME IInv, [Next]_vars
      PROVE  \A o \in Operations :
                controller # None /\ controller' # None
                   /\ controller.ledger[o] = None /\ controller'.ledger[o] # None
                => slipped \/ controller.stages[o].manager = registry
  <2> SUFFICES ASSUME NEW o \in Operations, controller # None, controller' # None,
                      controller.ledger[o] = None, controller'.ledger[o] # None
               PROVE  slipped \/ controller.stages[o].manager = registry
    OBVIOUS
  <2>1. Commit
    <3>1. ~UNCHANGED controller /\ ~LoseController
      BY DEF LoseController
    <3>2. ~Seed
      <4>1. controller \in Controlled
        BY <1>1 DEF IInv, TypeOK
      <4>2. Seed => controller'.ledger = controller.ledger
        BY <4>1 DEF Seed, Controlled
      <4> QED
        BY <4>2
    <3>3. ~InitOpen
      BY DEF InitOpen, Creatable
    <3> QED
      BY <1>1, <3>1, <3>2, <3>3, StoreChanges
  <2>2. pc = "commit" /\ controller' = value /\ Sound(controller)
    BY <1>1, <2>1, CommitSound DEF Commit
  <2>3. CASE Undertaken(controller, value)
    BY <2>2, <2>3, UndertakenSound
  <2>4. CASE Decides(controller, value, arg) /\ (slipped \/ controller.stages[arg].manager = registry)
    BY <2>2, <2>4, DecidesSound
  <2> QED
    BY <1>1, <2>2, <2>3, <2>4 DEF IInv, InTransaction
<1> QED
  BY <1>1, Workspace1Invariance, PTL DEF Spec, AdoptedAsApproved

\* Views are written from the committed projection, decided at the registry of
\* the write itself, or the registry changed where the code does not look:
\* between rendering and COMMIT, or between a file's comparison and its replace.
THEOREM ViewsFreshHolds == Spec => ViewsFresh
<1>1. ASSUME IInv, [Next]_vars
      PROVE  \A n \in Views :
                view'[n] # view[n] =>
                    /\ view'[n] = controller.files
                    /\ \A o \in view'[n].entries :
                          slipped \/ controller.stages[o].manager = registry
  <2> SUFFICES ASSUME NEW n \in Views, view'[n] # view[n]
               PROVE  /\ view'[n] = controller.files
                      /\ \A o \in view'[n].entries :
                            slipped \/ controller.stages[o].manager = registry
    OBVIOUS
  <2>1. WriteView
    BY <1>1, ViewsWritten
  <2>2. pc = "replace" /\ view' = [view EXCEPT ![arg] = value.files]
    BY <2>1 DEF WriteView
  <2>3. value = controller /\ (slipped \/ Current(value, registry))
    BY <1>1, <2>2 DEF IInv, InTransaction, Writing
  <2>4. view'[n] = value.files
    BY <1>1, <2>2 DEF IInv, TypeOK
  <2> QED
    BY <2>3, <2>4 DEF Current
<1> QED
  BY <1>1, Workspace1Invariance, PTL DEF Spec, ViewsFresh

-----------------------------------------------------------------------------
\* The register that a store stands for.
LEMMA Registered ==
  ASSUME NEW c \in Controlled
  PROVE  /\ Register(c) = c
         /\ JobOutcomes(c) = [j \in Jobs |-> IF c.jobs[j] = None THEN None ELSE c.jobs[j].outcome]
         /\ JobPlans(c) = [j \in Jobs |-> IF c.jobs[j] = None THEN None ELSE c.jobs[j].plan]
         /\ StagedJobs(c) = [o \in Operations |-> IF c.stages[o] = None THEN None ELSE c.stages[o].job]
         /\ StagedAt(c) = [o \in Operations |-> IF c.stages[o] = None THEN 0 ELSE c.stages[o].protocol]
<1>1. Register(c) = c
  BY Distinct DEF Register
<1> QED
  BY <1>1 DEF JobOutcomes, JobPlans, StagedJobs, StagedAt

\* A store without its seed, or none at all, is the empty register.
LEMMA EmptyRegister ==
  ASSUME NEW c, NEW p, Register(c) = Unseeded(p)
  PROVE  /\ JobOutcomes(c) = [j \in Jobs |-> None] /\ JobPlans(c) = [j \in Jobs |-> None]
         /\ StagedJobs(c) = [o \in Operations |-> None] /\ StagedAt(c) = [o \in Operations |-> 0]
         /\ Accepted(Register(c), All) = {}
         /\ Register(c).sequence = 0 /\ Register(c).stop = FALSE
<1> DEFINE r == Unseeded(p)
<1>1. /\ \A j \in Jobs : r.jobs[j] = None
      /\ \A o \in Operations : r.stages[o] = None
      /\ r.sequence = 0 /\ r.stop = FALSE /\ Accepted(r, All) = {}
  BY DEF Unseeded, Accepted
<1>2. Register(c) = r
  OBVIOUS
<1> HIDE DEF r
<1> QED
  BY <1>1, <1>2 DEF JobOutcomes, JobPlans, StagedJobs, StagedAt

\* Nothing stored is the empty register.
LEMMA InitRegister == Init => AtomicRegister!Empty
<1> SUFFICES ASSUME Init PROVE AtomicRegister!Empty
  OBVIOUS
<1>1. Register(controller) = Unseeded(None)
  BY DEF Init, Register
<1> QED
  BY <1>1, EmptyRegister DEF AtomicRegister!Empty

\* One job whose outcome and plan change, in the register.
LEMMA JobChanges ==
  ASSUME NEW c \in Controlled, NEW v \in Controlled, NEW j \in Jobs, v.jobs[j] # None,
         \A k \in Jobs : k # j => v.jobs[k] = c.jobs[k]
  PROVE  /\ JobOutcomes(v) = [JobOutcomes(c) EXCEPT ![j] = v.jobs[j].outcome]
         /\ JobPlans(v) = [JobPlans(c) EXCEPT ![j] = v.jobs[j].plan]
  BY Registered

\* A job whose plan does not change leaves the plans alone.
LEMMA PlanKept ==
  ASSUME NEW c \in Controlled, NEW v \in Controlled, NEW j \in Jobs, v.jobs[j] # None,
         \A k \in Jobs : k # j => v.jobs[k] = c.jobs[k],
         IF c.jobs[j] = None THEN v.jobs[j].plan = None ELSE v.jobs[j].plan = c.jobs[j].plan
  PROVE  JobPlans(v) = JobPlans(c)
<1>1. /\ JobPlans(c) = [k \in Jobs |-> IF c.jobs[k] = None THEN None ELSE c.jobs[k].plan]
      /\ JobPlans(v) = [k \in Jobs |-> IF v.jobs[k] = None THEN None ELSE v.jobs[k].plan]
  BY Registered
<1> QED
  BY <1>1

\* Stages that do not change, in the register.
LEMMA StagesKept ==
  ASSUME NEW c \in Controlled, NEW v \in Controlled, v.stages = c.stages
  PROVE  /\ StagedJobs(v) = StagedJobs(c) /\ StagedAt(v) = StagedAt(c)
         /\ Accepted(v, All) = Accepted(c, All)
  BY Registered DEF Accepted

\* What an observation is in the register.
LEMMA ObservesRegistered ==
  ASSUME NEW c, NEW v, Sound(c), Observes(c, v)
  PROVE  \E j \in Jobs :
           /\ Register(c) = c /\ Register(v) = v
           /\ JobOutcomes(c)[j] = None /\ ~c.stop
           /\ JobOutcomes(v) = [JobOutcomes(c) EXCEPT ![j] = "captured"]
           /\ v.sequence = c.sequence + 1 /\ v.stop = c.stop
           /\ JobPlans(v) = JobPlans(c) /\ StagedJobs(v) = StagedJobs(c) /\ StagedAt(v) = StagedAt(c)
           /\ Accepted(v, All) = Accepted(c, All)
<1>1. PICK j \in Jobs, job \in Job :
        /\ c.jobs[j] = None /\ ~c.stop /\ job.outcome = "captured" /\ job.plan = None
        /\ v = Observed(c, j, job)
  BY DEF Observes
<1>2. c \in Controlled
  BY DEF Sound
<1>3. /\ v \in Controlled /\ v.jobs = [c.jobs EXCEPT ![j] = job]
      /\ v.sequence = c.sequence + 1 /\ v.stop = c.stop /\ v.stages = c.stages
  BY <1>1, <1>2, ObservedFields
<1>4. c.jobs \in [Jobs -> Job \cup {None}] /\ job # None
  BY <1>2, Distinct DEF Controlled
<1>5. v.jobs[j] = job /\ \A k \in Jobs : k # j => v.jobs[k] = c.jobs[k]
  BY <1>3, <1>4
<1>6. Register(c) = c /\ Register(v) = v /\ JobOutcomes(c)[j] = None
  BY <1>1, <1>2, <1>3, Registered
<1>7. JobOutcomes(v) = [JobOutcomes(c) EXCEPT ![j] = v.jobs[j].outcome]
  BY <1>2, <1>3, <1>4, <1>5, JobChanges
<1>8. JobPlans(v) = JobPlans(c)
  BY <1>1, <1>2, <1>3, <1>4, <1>5, PlanKept
<1>9. /\ StagedJobs(v) = StagedJobs(c) /\ StagedAt(v) = StagedAt(c)
      /\ Accepted(v, All) = Accepted(c, All)
  BY <1>2, <1>3, StagesKept
<1> WITNESS j \in Jobs
<1> QED
  BY <1>1, <1>3, <1>5, <1>6, <1>7, <1>8, <1>9

\* What an interpretation is in the register.
LEMMA InterpretsRegistered ==
  ASSUME NEW c, NEW v, Sound(c), Interprets(c, v)
  PROVE  \E j \in Jobs, s \in Plans, k \in {"candidate", "refused", "stopped"} :
           /\ Register(c) = c /\ Register(v) = v
           /\ JobOutcomes(c)[j] = "captured" /\ JobPlans(c)[j] = None /\ s # None
           /\ JobOutcomes(v) = [JobOutcomes(c) EXCEPT ![j] = k]
           /\ JobPlans(v) = [JobPlans(c) EXCEPT ![j] = s] /\ JobPlans(v)[j] = s
           /\ c.stop => k = "stopped"
           /\ v.stop # c.stop => v.stop /\ k = "stopped"
           /\ v.sequence \in {c.sequence, c.sequence + 1}
           /\ StagedJobs(v) = StagedJobs(c) /\ StagedAt(v) = StagedAt(c)
           /\ Accepted(v, All) = Accepted(c, All)
<1>1. PICK j \in Jobs, s \in Plans, e \in Outcomes, stop \in BOOLEAN :
        /\ Runnable(c, j)
        /\ c.stop => e.outcome = "stopped"
        /\ stop => e.outcome = "stopped"
        /\ v = Interpreted(c, j, s, e, stop)
  BY DEF Interprets
<1> DEFINE job == InterpretedJob(c, j, s, e)
<1>2. c \in Controlled /\ c.jobs[j] # None /\ c.jobs[j].plan = None
  BY <1>1 DEF Sound, Runnable
<1>3. c.jobs[j].outcome = "captured" /\ c.jobs \in [Jobs -> Job \cup {None}] /\ c.stop \in BOOLEAN
  BY <1>2 DEF Sound, SoundJob, Controlled
<1>4. /\ v \in Controlled /\ job \in Job /\ v.jobs = [c.jobs EXCEPT ![j] = job]
      /\ v.sequence = (IF c.stop THEN c.sequence ELSE c.sequence + 1)
      /\ v.stop = (c.stop \/ stop) /\ v.stages = c.stages
  BY <1>1, <1>2, InterpretedFields
<1>5. job.outcome = e.outcome /\ job.plan = s /\ s # None /\ job # None
  BY <1>2, <1>3, <1>4, Distinct DEF InterpretedJob, Job
<1> HIDE DEF job
<1>6. v.jobs[j] = job /\ v.jobs[j] # None /\ \A k \in Jobs : k # j => v.jobs[k] = c.jobs[k]
  BY <1>3, <1>4, <1>5
<1>7. /\ Register(c) = c /\ Register(v) = v
      /\ JobOutcomes(c)[j] = "captured" /\ JobPlans(c)[j] = None
      /\ JobPlans(v)[j] = s
  BY <1>2, <1>3, <1>4, <1>5, <1>6, Registered
<1>8. /\ JobOutcomes(v) = [JobOutcomes(c) EXCEPT ![j] = v.jobs[j].outcome]
      /\ JobPlans(v) = [JobPlans(c) EXCEPT ![j] = v.jobs[j].plan]
  <2> HIDE DEF job
  <2>1. v \in Controlled /\ v.jobs[j] # None /\ \A k \in Jobs : k # j => v.jobs[k] = c.jobs[k]
    BY <1>4, <1>6
  <2> QED
    BY <1>2, <2>1, JobChanges
<1>9. /\ StagedJobs(v) = StagedJobs(c) /\ StagedAt(v) = StagedAt(c)
      /\ Accepted(v, All) = Accepted(c, All)
  BY <1>2, <1>4, StagesKept
<1>10. e.outcome \in {"candidate", "refused", "stopped"}
  BY DEF Outcomes
<1>11. v.stop # c.stop => v.stop /\ e.outcome = "stopped"
  BY <1>1, <1>3, <1>4
<1>12. v.sequence \in {c.sequence, c.sequence + 1}
  BY <1>4
<1> WITNESS j \in Jobs, s \in Plans, e.outcome \in {"candidate", "refused", "stopped"}
<1>13. /\ JobOutcomes(v) = [JobOutcomes(c) EXCEPT ![j] = e.outcome]
       /\ JobPlans(v) = [JobPlans(c) EXCEPT ![j] = s]
  BY <1>5, <1>6, <1>8
<1> QED
  BY <1>1, <1>5, <1>7, <1>9, <1>11, <1>12, <1>13

\* What a stage is in the register.
LEMMA PreparesRegistered ==
  ASSUME NEW c, NEW v, Sound(c), Prepares(c, v)
  PROVE  \E o \in Operations, j \in Jobs :
           /\ Register(c) = c /\ Register(v) = v
           /\ JobOutcomes(c)[j] = "candidate" /\ StagedJobs(c)[o] = None
           /\ JobOutcomes(v) = [JobOutcomes(c) EXCEPT ![j] = "staged"]
           /\ StagedJobs(v) = [StagedJobs(c) EXCEPT ![o] = j]
           /\ v.sequence = c.sequence + 1 /\ v.stop = c.stop
           /\ StagedAt(v) = [StagedAt(c) EXCEPT ![o] = v.sequence]
           /\ JobPlans(v) = JobPlans(c) /\ Accepted(v, All) = Accepted(c, All)
<1>1. PICK o \in Operations, j \in Jobs, manager \in Nat :
        Stageable(c, o, j) /\ v = Staged(c, o, j, manager)
  BY DEF Prepares
<1> DEFINE stage == NewStage(c, j, manager)
           job == StagedJob(c, j)
<1>2. /\ c \in Controlled /\ c.jobs[j] # None /\ c.jobs[j].outcome = "candidate"
      /\ c.stages[o] = None
  BY <1>1 DEF Sound, Stageable
<1>3. /\ v \in Controlled /\ job \in Job /\ stage \in StageRecord
      /\ v.jobs = [c.jobs EXCEPT ![j] = job] /\ v.stages = [c.stages EXCEPT ![o] = stage]
      /\ v.sequence = c.sequence + 1 /\ v.stop = c.stop
  BY <1>1, <1>2, StagedFields
<1>4. /\ c.jobs[j] \in Job /\ c.jobs \in [Jobs -> Job \cup {None}]
      /\ c.stages \in [Operations -> StageRecord \cup {None}]
  BY <1>2 DEF Controlled
<1>5. /\ job.outcome = "staged" /\ job.plan = c.jobs[j].plan
      /\ stage.job = j /\ stage.protocol = c.sequence + 1 /\ stage.status = "staged"
  BY <1>4 DEF StagedJob, NewStage, Job
<1> HIDE DEF job, stage
<1>6. /\ v.jobs[j] = job /\ job # None /\ \A k \in Jobs : k # j => v.jobs[k] = c.jobs[k]
      /\ v.stages[o] = stage /\ stage # None
      /\ \A q \in Operations : q # o => v.stages[q] = c.stages[q]
  BY <1>3, <1>4, Distinct
<1>7. Register(c) = c /\ Register(v) = v
  BY <1>2, <1>3, Registered
<1>8. JobOutcomes(c)[j] = "candidate" /\ StagedJobs(c)[o] = None
  BY <1>2, Registered
<1>9. StagedJobs(v) = [StagedJobs(c) EXCEPT ![o] = j]
  <2>1. /\ StagedJobs(c) = [q \in Operations |-> IF c.stages[q] = None THEN None ELSE c.stages[q].job]
        /\ StagedJobs(v) = [q \in Operations |-> IF v.stages[q] = None THEN None ELSE v.stages[q].job]
    BY <1>2, <1>3, Registered
  <2> QED
    BY <1>5, <1>6, <2>1
<1>10. StagedAt(v) = [StagedAt(c) EXCEPT ![o] = v.sequence]
  <2>1. /\ StagedAt(c) = [q \in Operations |-> IF c.stages[q] = None THEN 0 ELSE c.stages[q].protocol]
        /\ StagedAt(v) = [q \in Operations |-> IF v.stages[q] = None THEN 0 ELSE v.stages[q].protocol]
    BY <1>2, <1>3, Registered
  <2> QED
    BY <1>3, <1>5, <1>6, <2>1
<1>11. JobOutcomes(v) = [JobOutcomes(c) EXCEPT ![j] = v.jobs[j].outcome]
  <2>1. v \in Controlled /\ v.jobs[j] # None /\ \A k \in Jobs : k # j => v.jobs[k] = c.jobs[k]
    BY <1>3, <1>6
  <2> QED
    BY <1>2, <2>1, JobChanges
<1>12. JobPlans(v) = JobPlans(c)
  <2>1. /\ v \in Controlled /\ v.jobs[j] # None /\ \A k \in Jobs : k # j => v.jobs[k] = c.jobs[k]
        /\ v.jobs[j].plan = c.jobs[j].plan
    BY <1>3, <1>5, <1>6
  <2> QED
    BY <1>2, <2>1, PlanKept
<1>13. Accepted(v, All) = Accepted(c, All)
  BY <1>2, <1>5, <1>6 DEF Accepted
<1> WITNESS o \in Operations, j \in Jobs
<1> QED
  BY <1>3, <1>5, <1>6, <1>7, <1>8, <1>9, <1>10, <1>11, <1>12, <1>13

\* What a decision is in the register.
LEMMA DecidesRegistered ==
  ASSUME NEW c, NEW v, NEW o, Sound(c), Decides(c, v, o)
  PROVE  /\ o \in Operations /\ o \notin Accepted(c, All)
         /\ Register(c) = c /\ Register(v) = v
         /\ StagedJobs(c)[o] # None /\ JobOutcomes(c)[StagedJobs(c)[o]] = "staged"
         /\ StagedAt(c)[o] = c.sequence
         /\ JobOutcomes(v) = [JobOutcomes(c) EXCEPT ![StagedJobs(c)[o]] = "adopted"]
         /\ Accepted(v, All) = Accepted(c, All) \cup {o}
         /\ v.sequence = c.sequence + 1 /\ v.stop = c.stop
         /\ JobPlans(v) = JobPlans(c) /\ StagedJobs(v) = StagedJobs(c) /\ StagedAt(v) = StagedAt(c)
<1> DEFINE j == c.stages[o].job
           stage == AdoptedStage(c, o)
           job == AdoptedJob(c, o)
<1>1. /\ c \in Controlled /\ o \in Operations /\ v = Adopted(c, o)
      /\ c.stages[o] # None /\ c.stages[o].status = "staged" /\ c.stages[o].protocol = c.sequence
  BY DEF Sound, Decides
<1>2. c.jobs[j] # None /\ c.jobs[j].outcome = "staged"
  BY <1>1 DEF Sound, SoundStage
<1>3. /\ v \in Controlled /\ j \in Jobs /\ job \in Job /\ stage \in StageRecord
      /\ v.jobs[j] = job /\ \A k \in Jobs : k # j => v.jobs[k] = c.jobs[k]
      /\ v.stages[o] = stage /\ \A q \in Operations : q # o => v.stages[q] = c.stages[q]
      /\ v.sequence = c.sequence + 1 /\ v.stop = c.stop
  BY DecidesFields
<1>4. /\ c.jobs[j] \in Job /\ c.stages \in [Operations -> StageRecord \cup {None}]
      /\ c.stages[o] \in StageRecord
  BY <1>1, <1>2, <1>3 DEF Controlled
<1>5. /\ job.outcome = "adopted" /\ job.plan = c.jobs[j].plan
      /\ stage.job = j /\ stage.protocol = c.stages[o].protocol /\ stage.status = "adopted"
  BY <1>4 DEF AdoptedJob, AdoptedStage, Job, StageRecord
<1> HIDE DEF job, stage
<1>6. stage # None /\ v.stages[o] = stage /\ \A q \in Operations : q # o => v.stages[q] = c.stages[q]
  BY <1>1, <1>3, <1>4, Distinct
<1>7. j # None /\ o \notin Accepted(c, All) /\ Accepted(v, All) = Accepted(c, All) \cup {o}
  BY <1>1, <1>3, <1>5, <1>6, Distinct DEF Accepted
<1> HIDE DEF j
<1>8. StagedJobs(c)[o] = j /\ StagedAt(c)[o] = c.sequence /\ JobOutcomes(c)[j] = "staged"
  BY <1>1, <1>2, <1>3, Registered DEF j
<1>9. StagedJobs(v) = StagedJobs(c) /\ StagedAt(v) = StagedAt(c)
  <2>1. \A q \in Operations :
          /\ v.stages[q] = None <=> c.stages[q] = None
          /\ v.stages[q] # None => /\ v.stages[q].job = c.stages[q].job
                                  /\ v.stages[q].protocol = c.stages[q].protocol
    BY <1>1, <1>5, <1>6 DEF j
  <2>2. /\ StagedJobs(c) = [q \in Operations |-> IF c.stages[q] = None THEN None ELSE c.stages[q].job]
        /\ StagedJobs(v) = [q \in Operations |-> IF v.stages[q] = None THEN None ELSE v.stages[q].job]
        /\ StagedAt(c) = [q \in Operations |-> IF c.stages[q] = None THEN 0 ELSE c.stages[q].protocol]
        /\ StagedAt(v) = [q \in Operations |-> IF v.stages[q] = None THEN 0 ELSE v.stages[q].protocol]
    BY <1>1, <1>3, Registered
  <2> QED
    BY <2>1, <2>2
<1>10. /\ JobOutcomes(v) = [JobOutcomes(c) EXCEPT ![j] = "adopted"]
       /\ JobPlans(v) = JobPlans(c)
  <2>1. v.jobs[j] # None /\ v.jobs[j].plan = c.jobs[j].plan /\ v.jobs[j].outcome = "adopted"
    BY <1>3, <1>5, Distinct
  <2>2. c.jobs[j] # None
    BY <1>2
  <2> HIDE DEF j
  <2>3. JobOutcomes(v) = [JobOutcomes(c) EXCEPT ![j] = v.jobs[j].outcome]
    BY <1>1, <1>3, <2>1, JobChanges
  <2>4. JobPlans(v) = JobPlans(c)
    BY <1>1, <1>3, <2>1, <2>2, PlanKept
  <2> QED
    BY <2>1, <2>3, <2>4
<1>11. Register(c) = c /\ Register(v) = v
  BY <1>1, <1>3, Registered
<1> QED
  BY <1>1, <1>3, <1>7, <1>8, <1>9, <1>10, <1>11

\* What changes neither jobs nor stages is no step of the register.
LEMMA SameRegister ==
  ASSUME NEW c \in Controlled, NEW v \in Controlled,
         v.jobs = c.jobs, v.stages = c.stages, v.sequence = c.sequence, v.stop = c.stop
  PROVE  /\ JobOutcomes(v) = JobOutcomes(c) /\ JobPlans(v) = JobPlans(c)
         /\ StagedJobs(v) = StagedJobs(c) /\ StagedAt(v) = StagedAt(c)
         /\ Accepted(Register(v), All) = Accepted(Register(c), All)
         /\ Register(v).sequence = Register(c).sequence /\ Register(v).stop = Register(c).stop
<1>1. Register(c) = c /\ Register(v) = v
  BY Registered
<1> QED
  BY <1>1 DEF JobOutcomes, JobPlans, StagedJobs, StagedAt, Accepted

-----------------------------------------------------------------------------
\* Each transaction is one step of the register, and each other step none.
LEMMA ObservesStep ==
  ASSUME Sound(controller), Observes(controller, controller')
  PROVE  \E j \in Jobs : AtomicRegister!Observe(j)
  BY ObservesRegistered DEF AtomicRegister!Observe

\* An interpretation is an Interpret, a stop included.
LEMMA InterpretsStep ==
  ASSUME Sound(controller), Interprets(controller, controller')
  PROVE  \E j \in Jobs : AtomicRegister!Interpret(j)
  BY InterpretsRegistered DEF AtomicRegister!Interpret

\* A stage is an Approve.
LEMMA PreparesStep ==
  ASSUME Sound(controller), Prepares(controller, controller')
  PROVE  \E o \in Operations, j \in Jobs : AtomicRegister!Approve(o, j)
  BY PreparesRegistered DEF AtomicRegister!Approve

\* An adoption is a Decide.
LEMMA DecidesStep ==
  ASSUME Sound(controller), NEW o, Decides(controller, controller', o)
  PROVE  o \in Operations /\ AtomicRegister!Decide(o)
  BY DecidesRegistered DEF AtomicRegister!Decide

\* A projection decides nothing.
LEMMA ProjectsStep ==
  ASSUME Sound(controller), Projects(controller, controller')
  PROVE  UNCHANGED AtomicRegister!registerVars
<1>1. PICK f \in Jobs \cup {All} : controller' = Projected(controller, f)
  BY DEF Projects
<1>2. /\ controller \in Controlled /\ controller' \in Controlled
      /\ controller'.jobs = controller.jobs /\ controller'.stages = controller.stages
      /\ controller'.sequence = controller.sequence /\ controller'.stop = controller.stop
  BY <1>1, ProjectedFields DEF Sound
<1> QED
  BY <1>2, SameRegister DEF AtomicRegister!registerVars

\* Neither does a seed.
LEMMA SeedStep ==
  ASSUME IInv, Seed
  PROVE  UNCHANGED AtomicRegister!registerVars
<1>1. controller # None /\ controller \in Controlled /\ minted' \in Nat
  BY DEF IInv, TypeOK, InTransaction, Busy, Stored, Sound, Seed
<1>2. controller' = [controller EXCEPT !.seed = minted']
  BY DEF Seed
<1>3. /\ controller' \in Controlled
      /\ controller'.jobs = controller.jobs /\ controller'.stages = controller.stages
      /\ controller'.sequence = controller.sequence /\ controller'.stop = controller.stop
  BY <1>1, <1>2 DEF Controlled
<1> QED
  BY <1>1, <1>3, SameRegister DEF AtomicRegister!registerVars

\* A store that is created, or was there, holds what the register held.
LEMMA InitOpenStep ==
  ASSUME IInv, InitOpen
  PROVE  UNCHANGED AtomicRegister!registerVars
<1>1. CASE controller' = controller
  BY <1>1 DEF AtomicRegister!registerVars
<1>2. CASE controller = None /\ controller' = Unseeded(policy)
  <2>1. policy \in Policies
    BY DEF IInv, InTransaction, TypeOK, InitOpen
  <2>2. Register(controller) = Unseeded(None) /\ Register(controller') = Unseeded(policy)
    <3>1. Unseeded(policy) \in Controlled
      BY <2>1, UnseededSound DEF Sound
    <3>2. Unseeded(policy) # None
      BY <3>1, Distinct
    <3> QED
      BY <1>2, <3>2 DEF Register
  <2> QED
    BY <2>2, EmptyRegister DEF AtomicRegister!registerVars
<1> QED
  BY <1>1, <1>2 DEF InitOpen, Creatable

\* A store that is lost takes the register with it.
LEMMA LoseStep ==
  ASSUME LoseController
  PROVE  AtomicRegister!Lose
<1>1. Register(controller') = Unseeded(None)
  BY DEF LoseController, Register
<1> QED
  BY <1>1, EmptyRegister DEF AtomicRegister!Lose, AtomicRegister!Empty

\* Whatever fails or dies, the committed store goes through the register's
\* steps and no others: one command's outcome at a time, whole or not at all.
THEOREM ImplementsRegisterHolds == Spec => ImplementsRegister
<1>1. ASSUME IInv, [Next]_vars
      PROVE  [AtomicRegister!RegisterNext]_(AtomicRegister!registerVars)
  <2>1. CASE UNCHANGED controller
    BY <2>1 DEF AtomicRegister!registerVars
  <2>2. CASE Commit
    <3>1. Sound(controller) /\ controller' = value
      BY <1>1, <2>2, CommitSound
    <3>2. Undertaken(controller, controller') \/ Decides(controller, controller', arg)
      BY <1>1, <2>2, <3>1 DEF Commit, IInv, InTransaction
    <3>3. CASE Observes(controller, controller')
      BY <3>1, <3>3, ObservesStep DEF AtomicRegister!RegisterNext
    <3>4. CASE Interprets(controller, controller')
      BY <3>1, <3>4, InterpretsStep DEF AtomicRegister!RegisterNext
    <3>5. CASE Prepares(controller, controller')
      BY <3>1, <3>5, PreparesStep DEF AtomicRegister!RegisterNext
    <3>6. CASE Projects(controller, controller')
      BY <3>1, <3>6, ProjectsStep
    <3>7. CASE Decides(controller, controller', arg)
      BY <3>1, <3>7, DecidesStep DEF AtomicRegister!RegisterNext
    <3> QED
      BY <3>2, <3>3, <3>4, <3>5, <3>6, <3>7 DEF Undertaken
  <2>3. CASE Seed
    BY <1>1, <2>3, SeedStep
  <2>4. CASE InitOpen
    BY <1>1, <2>4, InitOpenStep
  <2>5. CASE LoseController
    BY <2>5, LoseStep DEF AtomicRegister!RegisterNext
  <2> QED
    BY <1>1, <2>1, <2>2, <2>3, <2>4, <2>5, StoreChanges
<1> QED
  BY <1>1, InitRegister, Workspace1Invariance, PTL
     DEF Spec, ImplementsRegister, AtomicRegister!RegisterSpec

=============================================================================
