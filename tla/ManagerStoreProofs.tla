-------------------------- MODULE ManagerStoreProofs --------------------------
(***************************************************************************)
(* Proofs about ManagerStore for any processes, edits and views.           *)
(*                                                                         *)
(* Two invariants.  The first is of every manager: what a process holds in *)
(* memory is a registry, and where the manager was founded before, a       *)
(* process past the lock holds it and shows what it saved.  The second is  *)
(* of a manager that at most one process ever initializes: init, which     *)
(* takes no lock, then saves the first registry or none, so every later    *)
(* one was loaded from its predecessor under the lock.                     *)
(***************************************************************************)
EXTENDS ManagerStore, TLAPS

\* The steps between a change in memory and the end of the command.
Changing == {"check", "registry"}
Showing == {"home", "views"}

\* A process that is to save a registry has one.
Loaded == \A p \in Procs : pc[p] \in Changing \cup Showing => mem[p] \in Registry

\* Who holds the lock is past it, and only who holds it loads.
Holding ==
    \A p \in Procs :
        /\ lock = p => pc[p] \in {"load"} \cup Changing \cup Showing
        /\ pc[p] = "load" => lock = p

\* In a manager that was founded before, nobody is minting, whoever changes it
\* holds the lock, and what it saved it shows.
Founded ==
    rappid = Founder =>
        \A p \in Procs :
            /\ pc[p] # "mint"
            /\ pc[p] \in Changing \cup Showing => lock = p
            /\ pc[p] \in Showing => registry = mem[p]
            /\ pc[p] = "views" =>
                  home = registry /\ \A n \in registry.views \ todo[p] : view[n] = registry

StoreInv == TypeOK /\ Loaded /\ Holding /\ Founded

-----------------------------------------------------------------------------
\* The registry init writes is a registry.
LEMMA EmptyIsRegistry == ASSUME NEW o \in Procs \cup {Founder} PROVE Empty(o) \in Registry
BY StoreAssumption DEF Empty, Registry

\* A change of a registry is one of the same manager that has what it had.
LEMMA ChangeIsRegistry ==
  ASSUME NEW r \in Registry, NEW e \in Edits, NEW n \in Names,
         NEW new, new = [r EXCEPT !.edits = @ \cup {e}, !.views = @ \cup {n}]
  PROVE  new \in Registry /\ new.owner = r.owner /\ r.edits \subseteq new.edits
BY DEF Registry

\* A manager founded before and an empty directory both satisfy it.
LEMMA InitStore == Init => StoreInv
<1> SUFFICES ASSUME Init PROVE StoreInv
  OBVIOUS
<1>1. Empty(Founder) \in Registry
  BY EmptyIsRegistry
<1>2. TypeOK
  BY <1>1 DEF Init, TypeOK
<1>3. Loaded /\ Holding /\ Founded
  BY StoreAssumption DEF Init, Loaded, Holding, Founded, Changing, Showing
<1> QED
  BY <1>2, <1>3 DEF StoreInv

\* A process that ends is idle and holds nothing.
LEMMA Ended ==
  ASSUME TypeOK, NEW p \in Procs, End(p)
  PROVE  /\ pc'[p] = "idle" /\ \A q \in Procs \ {p} : pc'[q] = pc[q]
         /\ pc' \in [Procs -> {"idle", "mint", "lock", "load", "check", "registry",
                               "home", "views"}]
         /\ who' \in [Procs -> Procs \cup {Founder, None}]
         /\ mem' \in [Procs -> Registry \cup {None}]
         /\ todo' \in [Procs -> SUBSET Names]
         /\ \A q \in Procs \ {p} : mem'[q] = mem[q] /\ todo'[q] = todo[q]
BY DEF TypeOK, End, Goto

\* Whatever ends a process, lock included.
LEMMA EndStore ==
  ASSUME StoreInv, NEW p \in Procs, End(p), UNCHANGED files,
         lock' = Unlocked(p) \/ (lock' = lock /\ lock # p)
  PROVE  StoreInv'
<1>1. lock' \in Procs \cup {Free} /\ (lock' = lock \/ (lock = p /\ lock' = Free)) /\ lock' # p
  BY StoreAssumption DEF StoreInv, TypeOK, Unlocked
<1>2. TypeOK'
  BY <1>1, Ended DEF StoreInv, TypeOK, files
<1>3. Loaded'
  BY Ended DEF StoreInv, Loaded, Changing, Showing
<1>4. Holding'
  BY <1>1, Ended, StoreAssumption DEF StoreInv, Holding, Changing, Showing
<1>5. Founded'
  BY <1>1, Ended DEF StoreInv, Founded, files, Changing, Showing
<1> QED
  BY <1>2, <1>3, <1>4, <1>5 DEF StoreInv

\* Looking around for init, and beginning a command, change no file.
LEMMA BeginStore ==
  ASSUME StoreInv, NEW p \in Procs, InitLook(p) \/ Begin(p)
  PROVE  StoreInv'
<1>1. TypeOK'
  BY StoreAssumption DEF StoreInv, TypeOK, InitLook, Begin, Goto, files
<1>2. Loaded' /\ Holding'
  BY DEF StoreInv, TypeOK, Loaded, Holding, Changing, Showing, InitLook, Begin, Goto
<1>3. Founded'
  BY StoreAssumption DEF StoreInv, TypeOK, Founded, Changing, Showing, InitLook, Begin, Goto, files
<1> QED
  BY <1>1, <1>2, <1>3 DEF StoreInv

\* init writes its own identity, which is no founder's.
LEMMA InitIdentityStore ==
  ASSUME StoreInv, NEW p \in Procs, InitIdentity(p)
  PROVE  StoreInv'
<1>1. Empty(p) \in Registry
  BY EmptyIsRegistry
<1>2. TypeOK'
  BY <1>1 DEF StoreInv, TypeOK, InitIdentity, Goto
<1>3. Loaded' /\ Holding'
  BY <1>1 DEF StoreInv, TypeOK, Loaded, Holding, Changing, Showing, InitIdentity, Goto
<1>4. Founded'
  BY StoreAssumption DEF Founded, InitIdentity
<1> QED
  BY <1>2, <1>3, <1>4 DEF StoreInv

\* The lock goes to one process, which loads next.
LEMMA TakeLockStore ==
  ASSUME StoreInv, NEW p \in Procs, TakeLock(p)
  PROVE  StoreInv'
<1>1. CASE Lockable(p)
  <2>1. /\ pc[p] = "lock" /\ lock = Free /\ lock' = p
        /\ pc' = [pc EXCEPT ![p] = "load"] /\ UNCHANGED <<files, who, mem, todo>>
    BY <1>1 DEF TakeLock, Lockable, Goto
  <2>2. TypeOK'
    BY <2>1 DEF StoreInv, TypeOK, files
  <2>3. Loaded' /\ Holding'
    BY <2>1, StoreAssumption DEF StoreInv, TypeOK, Loaded, Holding, Changing, Showing
  <2>4. Founded'
    BY <2>1, StoreAssumption DEF StoreInv, TypeOK, Founded, Changing, Showing, files
  <2> QED
    BY <2>2, <2>3, <2>4 DEF StoreInv
<1>2. CASE ~Lockable(p)
  <2>1. lock # p
    BY <1>2 DEF TakeLock, StoreInv, Holding, Changing, Showing
  <2> QED
    BY <1>2, <2>1, EndStore DEF TakeLock
<1> QED
  BY <1>1, <1>2

\* A command changes what it loaded, in memory.
LEMMA LoadStore ==
  ASSUME StoreInv, NEW p \in Procs, Load(p)
  PROVE  StoreInv'
<1>1. CASE registry # None /\ registry.owner = rappid
  <2>1. PICK e \in Edits, n \in Names :
          mem' = [mem EXCEPT ![p] =
                    [registry EXCEPT !.edits = @ \cup {e}, !.views = @ \cup {n}]]
    BY <1>1 DEF Load
  <2>2. /\ pc[p] = "load" /\ lock = p /\ UNCHANGED <<files, lock, who, todo>>
        /\ pc' = [pc EXCEPT ![p] = "check"] /\ registry \in Registry
    BY <1>1 DEF Load, Goto, StoreInv, Holding, TypeOK
  <2>3. mem' \in [Procs -> Registry \cup {None}] /\ mem'[p] \in Registry
        /\ \A q \in Procs \ {p} : mem'[q] = mem[q]
    BY <2>1, <2>2, ChangeIsRegistry DEF StoreInv, TypeOK
  <2>4. TypeOK'
    BY <2>2, <2>3 DEF StoreInv, TypeOK, files
  <2>5. Loaded' /\ Holding'
    BY <2>2, <2>3 DEF StoreInv, TypeOK, Loaded, Holding, Changing, Showing
  <2>6. Founded'
    BY <2>2, <2>3 DEF StoreInv, TypeOK, Founded, Changing, Showing, files
  <2> QED
    BY <2>4, <2>5, <2>6 DEF StoreInv
<1>2. CASE ~(registry # None /\ registry.owner = rappid)
  BY <1>2, EndStore DEF Load
<1> QED
  BY <1>1, <1>2

\* The second look at the identity changes nothing but where the process is.
LEMMA CheckStore ==
  ASSUME StoreInv, NEW p \in Procs, Check(p)
  PROVE  StoreInv'
<1>1. CASE rappid = who[p] /\ mem[p].owner = who[p]
  <2>1. /\ pc[p] = "check" /\ pc' = [pc EXCEPT ![p] = "registry"]
        /\ UNCHANGED <<files, lock, who, mem, todo>>
    BY <1>1 DEF Check, Goto
  <2>2. TypeOK'
    BY <2>1 DEF StoreInv, TypeOK, files
  <2>3. Loaded' /\ Holding' /\ Founded'
    BY <2>1 DEF StoreInv, TypeOK, Loaded, Holding, Founded, Changing, Showing, files
  <2> QED
    BY <2>2, <2>3 DEF StoreInv
<1>2. CASE ~(rappid = who[p] /\ mem[p].owner = who[p])
  BY <1>2, EndStore DEF Check
<1> QED
  BY <1>1, <1>2

\* The registry is replaced by what its writer holds.
LEMMA SaveRegistryStore ==
  ASSUME StoreInv, NEW p \in Procs, SaveRegistry(p)
  PROVE  StoreInv'
<1>1. /\ pc[p] = "registry" /\ pc' = [pc EXCEPT ![p] = "home"]
      /\ registry' = mem[p] /\ mem[p] \in Registry
      /\ UNCHANGED <<rappid, home, view, lock, who, mem, todo>>
  BY DEF SaveRegistry, Goto, StoreInv, Loaded, Changing
<1>2. TypeOK'
  BY <1>1 DEF StoreInv, TypeOK
<1>3. Loaded' /\ Holding'
  BY <1>1 DEF StoreInv, TypeOK, Loaded, Holding, Changing, Showing
<1>4. Founded'
  BY <1>1 DEF StoreInv, TypeOK, Founded, Changing, Showing
<1> QED
  BY <1>2, <1>3, <1>4 DEF StoreInv

\* HOME.md follows, and every tracked view is still to be written.
LEMMA SaveHomeStore ==
  ASSUME StoreInv, NEW p \in Procs, SaveHome(p)
  PROVE  StoreInv'
<1>1. /\ pc[p] = "home" /\ pc' = [pc EXCEPT ![p] = "views"]
      /\ home' = mem[p] /\ mem[p] \in Registry
      /\ todo' = [todo EXCEPT ![p] = mem[p].views]
      /\ UNCHANGED <<rappid, registry, view, lock, who, mem>>
  BY DEF SaveHome, Goto, ViewsToWrite, StoreInv, Loaded, Showing
<1>2. mem[p].views \in SUBSET Names
  BY <1>1 DEF Registry
<1>3. TypeOK'
  BY <1>1, <1>2 DEF StoreInv, TypeOK
<1>4. Loaded' /\ Holding'
  BY <1>1 DEF StoreInv, TypeOK, Loaded, Holding, Changing, Showing
<1>5. Founded'
  BY <1>1 DEF StoreInv, TypeOK, Founded, Changing, Showing
<1> QED
  BY <1>3, <1>4, <1>5 DEF StoreInv

\* One view after the other.
LEMMA SaveViewStore ==
  ASSUME StoreInv, NEW p \in Procs, SaveView(p)
  PROVE  StoreInv'
<1>1. PICK n \in todo[p] :
        /\ view' = [view EXCEPT ![n] = mem[p]]
        /\ todo' = [todo EXCEPT ![p] = @ \ {n}]
  BY DEF SaveView
<1>2. /\ pc[p] = "views" /\ mem[p] \in Registry /\ n \in Names
      /\ UNCHANGED <<rappid, registry, home, lock, pc, who, mem>>
  BY DEF SaveView, StoreInv, Loaded, Showing, TypeOK
<1>3. TypeOK'
  BY <1>1, <1>2 DEF StoreInv, TypeOK
<1>4. Loaded' /\ Holding'
  BY <1>2 DEF StoreInv, Loaded, Holding, Changing, Showing
<1>5. Founded'
  <2> SUFFICES ASSUME rappid = Founder, NEW q \in Procs
               PROVE  /\ pc[q] # "mint"
                      /\ pc[q] \in Changing \cup Showing => lock = q
                      /\ pc[q] \in Showing => registry = mem[q]
                      /\ pc[q] = "views" =>
                            /\ home = registry
                            /\ \A m \in registry.views \ todo'[q] : view'[m] = registry
    BY <1>2 DEF Founded
  <2>1. CASE q = p
    BY <1>1, <1>2, <2>1 DEF StoreInv, TypeOK, Founded, Changing, Showing
  <2>2. CASE q # p
    BY <1>1, <1>2, <2>2 DEF StoreInv, TypeOK, Founded, Changing, Showing
  <2> QED
    BY <2>1, <2>2
<1> QED
  BY <1>3, <1>4, <1>5 DEF StoreInv

\* A step of nobody keeps it.
LEMMA StutterStore == ASSUME StoreInv, UNCHANGED vars PROVE StoreInv'
BY DEF StoreInv, TypeOK, Loaded, Holding, Founded, vars

\* Every step of every process keeps the first invariant.
LEMMA NextStore == StoreInv /\ [Next]_vars => StoreInv'
<1> SUFFICES ASSUME StoreInv, [Next]_vars PROVE StoreInv'
  OBVIOUS
<1>1. ASSUME NEW p \in Procs, InitLook(p) \/ Begin(p) PROVE StoreInv'
  BY <1>1, BeginStore
<1>2. ASSUME NEW p \in Procs, InitIdentity(p) \/ TakeLock(p) \/ Load(p) \/ Check(p)
      PROVE  StoreInv'
  BY <1>2, InitIdentityStore, TakeLockStore, LoadStore, CheckStore
<1>3. ASSUME NEW p \in Procs, SaveRegistry(p) \/ SaveHome(p) \/ SaveView(p)
      PROVE  StoreInv'
  BY <1>3, SaveRegistryStore, SaveHomeStore, SaveViewStore
<1>4. ASSUME NEW p \in Procs, Finish(p) \/ Stop(p)
      PROVE  StoreInv'
  BY <1>4, EndStore DEF Finish, Stop
<1> QED
  BY <1>1, <1>2, <1>3, <1>4, StutterStore DEF Next, Proceed

\* The first invariant holds whatever commands interleave, fail or die.
THEOREM StoreInvariance == Spec => []StoreInv
BY InitStore, NextStore, PTL DEF Spec

\* Every file, and what every process has in memory, keeps its type.
THEOREM StoreTypeCorrect == Spec => []TypeOK
<1>1. StoreInv => TypeOK
  BY DEF StoreInv
<1> QED
  BY <1>1, StoreInvariance, PTL

\* A command that reports success leaves HOME.md and every tracked view
\* showing the registry, whatever others left half written before.
THEOREM SuccessIsCurrentHolds == Spec => SuccessIsCurrent
<1>1. StoreInv /\ [Next]_vars =>
        [\A p \in Procs : Finish(p) /\ rappid = Founder =>
            home = registry /\ \A n \in registry.views : view[n] = registry]_vars
  BY DEF StoreInv, Founded, Finish
<1> QED
  BY <1>1, StoreInvariance, PTL DEF Spec, SuccessIsCurrent

-----------------------------------------------------------------------------
(***************************************************************************)
(* A manager that at most one process ever initializes.  Without this      *)
(* assumption MintOnce fails, as the run InitRace shows.                   *)
(***************************************************************************)
OneInit == \A p, q \in InitProcs : p = q

\* One registry follows another: the same manager, and nothing taken out.
Follows(new, old) == new.owner = old.owner /\ old.edits \subseteq new.edits

\* Before init writes its identity there is nothing, and nobody to read it.
Unfounded ==
    /\ rappid = None => registry = None /\ \A p \in Procs : pc[p] \in {"idle", "mint"}
    /\ \A p \in Procs : pc[p] = "mint" => rappid = None /\ p \in InitProcs

\* Who is to save a registry loaded the present one under the lock, or is the
\* one init, before any.
ChangesPresent ==
    \A p \in Procs : pc[p] \in Changing =>
        IF lock = p THEN registry # None /\ Follows(mem[p], registry)
                    ELSE registry = None /\ p \in InitProcs

\* What a process shows was saved, and later registries follow it.
ShowsSaved ==
    \A p \in Procs : pc[p] \in Showing => registry # None /\ Follows(registry, mem[p])

\* NeverAhead, one file at a time.
HomeSaved == home # None => registry # None /\ Follows(registry, home)
ViewsSaved == \A n \in Names : view[n] # None => registry # None /\ Follows(registry, view[n])

OnceInv ==
    StoreInv /\ Unfounded /\ ChangesPresent /\ ShowsSaved /\ HomeSaved /\ ViewsSaved

\* Following is transitive, so that a file saved earlier is still behind.
LEMMA FollowsTransitive ==
  ASSUME NEW a, NEW b, NEW c, Follows(a, b), Follows(b, c)
  PROVE  Follows(a, c)
BY DEF Follows

\* A founded manager shows its first registry, an empty directory nothing.
LEMMA InitOnce == Init => OnceInv
<1> SUFFICES ASSUME Init PROVE OnceInv
  OBVIOUS
<1>1. Unfounded /\ ChangesPresent /\ ShowsSaved
  BY StoreAssumption DEF Init, Unfounded, ChangesPresent, ShowsSaved, Changing, Showing
<1>2. Empty(Founder) # None
  BY EmptyIsRegistry, StoreAssumption
<1>3. HomeSaved /\ ViewsSaved
  BY <1>2 DEF Init, HomeSaved, ViewsSaved, Follows
<1> QED
  BY <1>1, <1>3, InitStore DEF OnceInv

\* A process that ends leaves the files, and frees no lock but its own.
LEMMA EndOnce ==
  ASSUME OnceInv, NEW p \in Procs, pc[p] # "idle", End(p), UNCHANGED files,
         lock' = Unlocked(p) \/ (lock' = lock /\ lock # p)
  PROVE  OnceInv'
<1>1. lock' \in Procs \cup {Free} /\ (lock' = lock \/ (lock = p /\ lock' = Free)) /\ lock' # p
  BY StoreAssumption DEF OnceInv, StoreInv, TypeOK, Unlocked
<1>2. /\ pc'[p] = "idle" /\ \A q \in Procs \ {p} : pc'[q] = pc[q] /\ mem'[q] = mem[q]
      /\ UNCHANGED <<rappid, registry, home, view>>
  BY Ended DEF OnceInv, StoreInv, files
<1>3. StoreInv'
  BY EndStore DEF OnceInv
<1>4. Unfounded' /\ HomeSaved' /\ ViewsSaved'
  BY <1>2 DEF OnceInv, Unfounded, HomeSaved, ViewsSaved
<1>5. ChangesPresent'
  BY <1>1, <1>2, StoreAssumption DEF OnceInv, ChangesPresent, Changing
<1>6. ShowsSaved'
  BY <1>2 DEF OnceInv, ShowsSaved, Showing
<1> QED
  BY <1>3, <1>4, <1>5, <1>6 DEF OnceInv

\* init looks while there is no identity; a command begins once there is one.
LEMMA BeginOnce ==
  ASSUME OnceInv, NEW p \in Procs, InitLook(p) \/ Begin(p)
  PROVE  OnceInv'
<1>1. /\ UNCHANGED <<rappid, registry, home, view, lock, mem>>
      /\ \A q \in Procs \ {p} : pc'[q] = pc[q]
      /\ \/ pc'[p] = "mint" /\ rappid = None /\ p \in InitProcs
         \/ pc'[p] = "lock" /\ rappid # None
  BY DEF OnceInv, StoreInv, TypeOK, InitLook, Begin, Goto, files
<1>2. StoreInv'
  BY BeginStore DEF OnceInv
<1>3. Unfounded' /\ HomeSaved' /\ ViewsSaved'
  BY <1>1 DEF OnceInv, Unfounded, HomeSaved, ViewsSaved
<1>4. ChangesPresent' /\ ShowsSaved'
  BY <1>1 DEF OnceInv, ChangesPresent, ShowsSaved, Changing, Showing
<1> QED
  BY <1>2, <1>3, <1>4 DEF OnceInv

\* The one init writes the identity before there is a registry.
LEMMA InitIdentityOnce ==
  ASSUME OneInit, OnceInv, NEW p \in Procs, InitIdentity(p)
  PROVE  OnceInv'
<1>1. /\ pc[p] = "mint" /\ pc'[p] = "check" /\ rappid' = p
      /\ \A q \in Procs \ {p} : pc'[q] = pc[q] /\ mem'[q] = mem[q]
      /\ UNCHANGED <<registry, home, view, lock>>
  BY DEF OnceInv, StoreInv, TypeOK, InitIdentity, Goto
<1>2. rappid = None /\ p \in InitProcs /\ registry = None /\ lock # p
  BY <1>1 DEF OnceInv, Unfounded, StoreInv, Holding, Changing, Showing
<1>3. \A q \in Procs \ {p} : pc[q] = "idle"
  BY <1>2 DEF OneInit, OnceInv, Unfounded
<1>4. StoreInv'
  BY InitIdentityStore DEF OnceInv
<1>5. Unfounded' /\ HomeSaved' /\ ViewsSaved'
  BY <1>1, <1>2, <1>3, StoreAssumption DEF OnceInv, Unfounded, HomeSaved, ViewsSaved
<1>6. ChangesPresent' /\ ShowsSaved'
  BY <1>1, <1>2, <1>3 DEF ChangesPresent, ShowsSaved, Changing, Showing
<1> QED
  BY <1>4, <1>5, <1>6 DEF OnceInv

\* Taking the lock makes nobody a writer yet.
LEMMA TakeLockOnce ==
  ASSUME OnceInv, NEW p \in Procs, TakeLock(p)
  PROVE  OnceInv'
<1>1. CASE Lockable(p)
  <2>1. /\ pc[p] = "lock" /\ pc'[p] = "load" /\ lock = Free /\ lock' = p
        /\ \A q \in Procs \ {p} : pc'[q] = pc[q]
        /\ UNCHANGED <<rappid, registry, home, view, mem>>
    BY <1>1 DEF OnceInv, StoreInv, TypeOK, TakeLock, Lockable, Goto, files
  <2>2. StoreInv'
    BY TakeLockStore DEF OnceInv
  <2>3. Unfounded' /\ HomeSaved' /\ ViewsSaved'
    BY <2>1 DEF OnceInv, Unfounded, HomeSaved, ViewsSaved
  <2>4. ChangesPresent' /\ ShowsSaved'
    BY <2>1, StoreAssumption DEF OnceInv, ChangesPresent, ShowsSaved, Changing, Showing
  <2> QED
    BY <2>2, <2>3, <2>4 DEF OnceInv
<1>2. CASE ~Lockable(p)
  <2>1. lock # p /\ pc[p] # "idle" /\ End(p) /\ UNCHANGED lock /\ UNCHANGED files
    BY <1>2 DEF TakeLock, OnceInv, StoreInv, Holding, Changing, Showing
  <2> QED
    BY <2>1, EndOnce
<1> QED
  BY <1>1, <1>2

\* What is loaded under the lock is the present registry.
LEMMA LoadOnce ==
  ASSUME OnceInv, NEW p \in Procs, Load(p)
  PROVE  OnceInv'
<1>1. CASE registry # None /\ registry.owner = rappid
  <2>1. PICK e \in Edits, n \in Names :
          mem' = [mem EXCEPT ![p] =
                    [registry EXCEPT !.edits = @ \cup {e}, !.views = @ \cup {n}]]
    BY <1>1 DEF Load
  <2>2. /\ pc[p] = "load" /\ lock = p /\ pc'[p] = "check" /\ registry \in Registry
        /\ \A q \in Procs \ {p} : pc'[q] = pc[q]
        /\ UNCHANGED <<rappid, registry, home, view, lock>>
    BY <1>1 DEF Load, Goto, OnceInv, StoreInv, Holding, TypeOK, files
  <2>3. mem'[p] = [registry EXCEPT !.edits = @ \cup {e}, !.views = @ \cup {n}]
        /\ \A q \in Procs \ {p} : mem'[q] = mem[q]
    BY <2>1 DEF OnceInv, StoreInv, TypeOK
  <2>4. Follows(mem'[p], registry) /\ \A q \in Procs \ {p} : mem'[q] = mem[q]
    BY <2>2, <2>3 DEF Follows, Registry
  <2>5. StoreInv'
    BY LoadStore DEF OnceInv
  <2>6. Unfounded' /\ HomeSaved' /\ ViewsSaved'
    BY <2>2 DEF OnceInv, Unfounded, HomeSaved, ViewsSaved
  <2>7. ChangesPresent' /\ ShowsSaved'
    BY <1>1, <2>2, <2>4 DEF OnceInv, ChangesPresent, ShowsSaved, Changing, Showing
  <2> QED
    BY <2>5, <2>6, <2>7 DEF OnceInv
<1>2. CASE ~(registry # None /\ registry.owner = rappid)
  BY <1>2, EndOnce DEF Load
<1> QED
  BY <1>1, <1>2

\* Nothing is changed between the check and the save.
LEMMA CheckOnce ==
  ASSUME OnceInv, NEW p \in Procs, Check(p)
  PROVE  OnceInv'
<1>1. CASE rappid = who[p] /\ mem[p].owner = who[p]
  <2>1. /\ pc[p] = "check" /\ pc'[p] = "registry"
        /\ \A q \in Procs \ {p} : pc'[q] = pc[q]
        /\ UNCHANGED <<rappid, registry, home, view, lock, mem>>
    BY <1>1 DEF Check, Goto, OnceInv, StoreInv, TypeOK, files
  <2>2. StoreInv'
    BY CheckStore DEF OnceInv
  <2>3. Unfounded' /\ HomeSaved' /\ ViewsSaved'
    BY <2>1 DEF OnceInv, Unfounded, HomeSaved, ViewsSaved
  <2>4. ChangesPresent' /\ ShowsSaved'
    BY <2>1 DEF OnceInv, ChangesPresent, ShowsSaved, Changing, Showing
  <2> QED
    BY <2>2, <2>3, <2>4 DEF OnceInv
<1>2. CASE ~(rappid = who[p] /\ mem[p].owner = who[p])
  BY <1>2, EndOnce DEF Check
<1> QED
  BY <1>1, <1>2

\* The registry that is saved follows the one it replaces, and whatever was
\* shown or loaded from that one stays behind it.
LEMMA SaveRegistryOnce ==
  ASSUME OneInit, OnceInv, NEW p \in Procs, SaveRegistry(p)
  PROVE  OnceInv' /\ (registry # None => Follows(registry', registry))
<1>1. /\ pc[p] = "registry" /\ pc'[p] = "home" /\ registry' = mem[p] /\ mem[p] \in Registry
      /\ \A q \in Procs \ {p} : pc'[q] = pc[q]
      /\ UNCHANGED <<rappid, home, view, lock, mem>>
  BY DEF SaveRegistry, Goto, OnceInv, StoreInv, TypeOK, Loaded, Changing
<1>2. registry' # None
  BY <1>1, StoreAssumption
<1>3. registry # None => lock = p /\ Follows(registry', registry)
  BY <1>1 DEF OnceInv, ChangesPresent, Changing
<1>4. StoreInv'
  BY SaveRegistryStore DEF OnceInv
<1>5. Unfounded'
  BY <1>1 DEF OnceInv, Unfounded
<1>6. \A q \in Procs \ {p} : pc[q] \notin Changing
  BY <1>1, <1>3 DEF OneInit, OnceInv, ChangesPresent, Changing
<1>7. ChangesPresent'
  BY <1>1, <1>6 DEF ChangesPresent, Changing
<1>8. ShowsSaved'
  <2> SUFFICES ASSUME NEW q \in Procs, pc'[q] \in Showing
               PROVE  Follows(registry', mem[q])
    BY <1>1, <1>2 DEF ShowsSaved
  <2>1. CASE q = p
    BY <1>1, <2>1 DEF Follows
  <2>2. CASE q # p
    BY <1>1, <1>3, <2>2, FollowsTransitive DEF OnceInv, ShowsSaved
  <2> QED
    BY <2>1, <2>2
<1>9. HomeSaved' /\ ViewsSaved'
  BY <1>1, <1>2, <1>3, FollowsTransitive DEF OnceInv, HomeSaved, ViewsSaved
<1> QED
  BY <1>3, <1>4, <1>5, <1>7, <1>8, <1>9 DEF OnceInv

\* HOME.md shows what was saved.
LEMMA SaveHomeOnce ==
  ASSUME OnceInv, NEW p \in Procs, SaveHome(p)
  PROVE  OnceInv'
<1>1. /\ pc[p] = "home" /\ pc'[p] = "views" /\ home' = mem[p]
      /\ \A q \in Procs \ {p} : pc'[q] = pc[q]
      /\ UNCHANGED <<rappid, registry, view, lock, mem>>
  BY DEF SaveHome, Goto, OnceInv, StoreInv, TypeOK
<1>2. StoreInv'
  BY SaveHomeStore DEF OnceInv
<1>3. Unfounded' /\ ViewsSaved'
  BY <1>1 DEF OnceInv, Unfounded, ViewsSaved
<1>4. ChangesPresent' /\ ShowsSaved' /\ HomeSaved'
  BY <1>1 DEF OnceInv, ChangesPresent, ShowsSaved, HomeSaved, Changing, Showing
<1> QED
  BY <1>2, <1>3, <1>4 DEF OnceInv

\* So does a view.
LEMMA SaveViewOnce ==
  ASSUME OnceInv, NEW p \in Procs, SaveView(p)
  PROVE  OnceInv'
<1>1. PICK n \in todo[p] : view' = [view EXCEPT ![n] = mem[p]]
  BY DEF SaveView
<1>2. pc[p] = "views" /\ UNCHANGED <<rappid, registry, home, lock, pc, mem>>
  BY DEF SaveView
<1>3. StoreInv'
  BY SaveViewStore DEF OnceInv
<1>4. Unfounded' /\ ChangesPresent' /\ ShowsSaved' /\ HomeSaved'
  BY <1>2 DEF OnceInv, Unfounded, ChangesPresent, ShowsSaved, HomeSaved
<1>5. ViewsSaved'
  BY <1>1, <1>2 DEF OnceInv, StoreInv, TypeOK, ViewsSaved, ShowsSaved, Showing
<1> QED
  BY <1>3, <1>4, <1>5 DEF OnceInv

\* A step of nobody keeps it.
LEMMA StutterOnce == ASSUME OnceInv, UNCHANGED vars PROVE OnceInv'
<1>1. StoreInv'
  BY StutterStore DEF OnceInv
<1> QED
  BY <1>1 DEF OnceInv, Unfounded, ChangesPresent, ShowsSaved, HomeSaved, ViewsSaved, vars

\* Every step keeps the second invariant.
LEMMA NextOnce == OneInit /\ OnceInv /\ [Next]_vars => OnceInv'
<1> SUFFICES ASSUME OneInit, OnceInv, [Next]_vars PROVE OnceInv'
  OBVIOUS
<1>1. ASSUME NEW p \in Procs, InitLook(p) \/ Begin(p) PROVE OnceInv'
  BY <1>1, BeginOnce
<1>2. ASSUME NEW p \in Procs, InitIdentity(p) \/ TakeLock(p) \/ Load(p) \/ Check(p)
      PROVE  OnceInv'
  BY <1>2, InitIdentityOnce, TakeLockOnce, LoadOnce, CheckOnce
<1>3. ASSUME NEW p \in Procs, SaveRegistry(p) \/ SaveHome(p) \/ SaveView(p)
      PROVE  OnceInv'
  BY <1>3, SaveRegistryOnce, SaveHomeOnce, SaveViewOnce
<1>4. ASSUME NEW p \in Procs, Finish(p) \/ Stop(p)
      PROVE  OnceInv'
  BY <1>4, EndOnce DEF Finish, Stop
<1> QED
  BY <1>1, <1>2, <1>3, <1>4, StutterOnce DEF Next, Proceed

\* The second invariant holds of a manager with one init.
LEMMA OnceInvariance == OneInit => (Spec => []OnceInv)
<1> SUFFICES ASSUME OneInit PROVE Spec => []OnceInv
  OBVIOUS
<1>1. OnceInv /\ [Next]_vars => OnceInv'
  BY NextOnce
<1> QED
  BY <1>1, InitOnce, PTL DEF Spec

\* HOME.md and the views never show what registry.json does not have, whoever
\* fails or dies in between.
THEOREM NeverAheadHolds == OneInit => (Spec => []NeverAhead)
<1> SUFFICES ASSUME OneInit PROVE Spec => []NeverAhead
  OBVIOUS
<1>1. OnceInv => NeverAhead
  BY DEF OnceInv, HomeSaved, ViewsSaved, Follows, NeverAhead
<1> QED
  BY <1>1, OnceInvariance, PTL

\* Only the save of a registry changes one.
LEMMA OnlySaveChanges ==
  ASSUME [Next]_vars, registry' # registry
  PROVE  \E p \in Procs : SaveRegistry(p)
BY DEF Next, Proceed, InitLook, Begin, InitIdentity, TakeLock, Load, Check, SaveHome,
       SaveView, Finish, Stop, files, vars

\* The lock keeps what every earlier command committed.
THEOREM NoLostUpdateHolds == OneInit => (Spec => NoLostUpdate)
<1> SUFFICES ASSUME OneInit PROVE Spec => NoLostUpdate
  OBVIOUS
<1>1. OnceInv /\ [Next]_vars =>
        [registry # None => registry.edits \subseteq registry'.edits]_vars
  BY OnlySaveChanges, SaveRegistryOnce DEF Follows
<1> QED
  BY <1>1, OnceInvariance, PTL DEF Spec, NoLostUpdate

\* With one init, the identity of a manager is minted once.
THEOREM MintOnceHolds == OneInit => (Spec => MintOnce)
<1> SUFFICES ASSUME OneInit PROVE Spec => MintOnce
  OBVIOUS
<1>1. ASSUME OnceInv, [Next]_vars, rappid # None PROVE rappid' = rappid
  BY <1>1 DEF OnceInv, Unfounded, Next, Proceed, InitLook, Begin, InitIdentity, TakeLock, Load,
              Check, SaveRegistry, SaveHome, SaveView, Finish, Stop, files, vars
<1>2. OnceInv /\ [Next]_vars => [rappid # None => rappid' = rappid]_vars
  BY <1>1
<1> QED
  BY <1>2, OnceInvariance, PTL DEF Spec, MintOnce
=============================================================================
