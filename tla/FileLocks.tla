----------------------------- MODULE FileLocks -----------------------------
(***************************************************************************)
(* repository.Service's lock, lockLifecycle and lockGlobal                 *)
(* (src/internal/repository/service.go:580-641), one action per call that  *)
(* can block, fail or change who owns what.                                *)
(*                                                                         *)
(* An operation on one pair takes, in this order: the lifecycle file       *)
(* (repositories.lock) shared, the process's RWMutex for reading, the      *)
(* pair's mutex, the pair's lock file exclusively.  An operation on a      *)
(* whole repository takes the lifecycle file exclusively and the RWMutex   *)
(* for writing.  flock(2) locks are seen by every process on the data      *)
(* root, mutexes only inside one process.  Any open or flock call may fail *)
(* and a process may be killed at any moment.                              *)
(***************************************************************************)
EXTENDS Naturals, FiniteSets

CONSTANTS Threads,       \* requests that can be in progress at the same time
          Keys,          \* repository/architecture pairs
          Processes,     \* pkgdepot processes sharing the data root
          ProcessOf,     \* the process that serves a thread's requests
          LockFiles,     \* names of the pairs' lock files
          LockFileOf,    \* repository + "-" + architecture + ".lock"
          MaxRequests    \* bound: lock calls made in one behaviour

ASSUME FileLocksAssumption ==
    /\ ProcessOf \in [Threads -> Processes]
    /\ LockFileOf \in [Keys -> LockFiles]
    /\ MaxRequests \in Nat

VARIABLES pc,            \* the next call of a thread
          want,          \* the pairs it asked for: one, or all of them
          sharedFlock,   \* threads with repositories.lock LOCK_SH
          lifecycleFlock,\* threads with repositories.lock LOCK_EX
          readLocked,    \* threads in mutationRWMutex.RLock
          writeLocked,   \* threads in mutationRWMutex.Lock
          pairMutex,     \* threads owning their pair's entry of s.mutexes
          pairFlock,     \* threads with their pair's file LOCK_EX
          requests       \* lock calls made so far

vars == <<pc, want, sharedFlock, lifecycleFlock, readLocked, writeLocked,
          pairMutex, pairFlock, requests>>

owned == <<sharedFlock, lifecycleFlock, readLocked, writeLocked, pairMutex,
           pairFlock>>

Calls == {"idle", "open", "flock", "rwMutex", "pairMutex", "pairOpen",
          "pairFlock", "locked", "pairUnflock", "pairUnlock", "rwUnlock",
          "unflock"}

Wants == [kind : {"pair"}, key : Keys] \cup [kind : {"lifecycle"}]

TypeOK ==
    /\ pc \in [Threads -> Calls]
    /\ want \in [Threads -> Wants]
    /\ sharedFlock \in SUBSET Threads
    /\ lifecycleFlock \in SUBSET Threads
    /\ readLocked \in SUBSET Threads
    /\ writeLocked \in SUBSET Threads
    /\ pairMutex \in SUBSET Threads
    /\ pairFlock \in SUBSET Threads
    /\ requests \in 0..MaxRequests

OnPair(t) == want[t].kind = "pair"

SamePair(t, u) == OnPair(t) /\ OnPair(u) /\ want[t].key = want[u].key

(* Mutant: no lock file at all, only the mutex of this process.            *)
NoFile(t, u) == FALSE

SameFile(t, u) ==
    OnPair(t) /\ OnPair(u) /\ LockFileOf[want[t].key] = LockFileOf[want[u].key]

Peers(t) == {u \in Threads : ProcessOf[u] = ProcessOf[t]}

Go(t, from, to) == pc[t] = from /\ pc' = [pc EXCEPT ![t] = to]

-----------------------------------------------------------------------------
(* Taking the locks.                                                       *)

Request(t) ==
    /\ requests < MaxRequests
    /\ Go(t, "idle", "open")
    /\ \E w \in Wants : want' = [want EXCEPT ![t] = w]
    /\ requests' = requests + 1
    /\ UNCHANGED owned

Open(t) ==
    /\ \/ Go(t, "open", "flock")
       \/ Go(t, "open", "idle")
    /\ UNCHANGED <<want, owned, requests>>

(* Mutants: an exclusive lock that ignores the shared ones, and a shared   *)
(* one that ignores the exclusive one.                                     *)
IgnoresShared(t) == lifecycleFlock \subseteq {t}
IgnoresLifecycle(t) == OnPair(t) \/ sharedFlock \cup lifecycleFlock \subseteq {t}

(* A shared flock waits for the exclusive one, the exclusive one for all.  *)
LifecycleFree(t) ==
    /\ lifecycleFlock \subseteq {t}
    /\ OnPair(t) \/ sharedFlock \subseteq {t}

FlockLifecycle(t) ==
    /\ LifecycleFree(t)
    /\ Go(t, "flock", "rwMutex")
    /\ IF OnPair(t)
       THEN /\ sharedFlock' = sharedFlock \cup {t}
            /\ UNCHANGED lifecycleFlock
       ELSE /\ lifecycleFlock' = lifecycleFlock \cup {t}
            /\ UNCHANGED sharedFlock
    /\ UNCHANGED <<want, readLocked, writeLocked, pairMutex, pairFlock, requests>>

(* The descriptor is closed, and nothing else was taken yet.               *)
FlockLifecycleFails(t) ==
    /\ Go(t, "flock", "idle")
    /\ UNCHANGED <<want, owned, requests>>

(* A writer waiting in Lock() holds new readers back too.                  *)
RWMutexFree(t) ==
    \A u \in Peers(t) \ {t} :
        /\ u \notin writeLocked
        /\ IF OnPair(t) THEN OnPair(u) \/ pc[u] # "rwMutex"
                        ELSE u \notin readLocked

LockRWMutex(t) ==
    /\ RWMutexFree(t)
    /\ IF OnPair(t)
       THEN /\ Go(t, "rwMutex", "pairMutex")
            /\ readLocked' = readLocked \cup {t}
            /\ UNCHANGED writeLocked
       ELSE /\ Go(t, "rwMutex", "locked")
            /\ writeLocked' = writeLocked \cup {t}
            /\ UNCHANGED readLocked
    /\ UNCHANGED <<want, sharedFlock, lifecycleFlock, pairMutex, pairFlock, requests>>

LockPairMutex(t) ==
    /\ \A u \in pairMutex \cap Peers(t) : ~SamePair(t, u)
    /\ Go(t, "pairMutex", "pairOpen")
    /\ pairMutex' = pairMutex \cup {t}
    /\ UNCHANGED <<want, sharedFlock, lifecycleFlock, readLocked, writeLocked,
                   pairFlock, requests>>

(* Mutants: the error path forgets the mutex, or forgets everything.       *)
MutexKept == "rwUnlock"
EverythingKept == "idle"

(* Where a failure after the pair's mutex was locked resumes:              *)
(* mutex.Unlock(), then the unlock function of the lifecycle lock.         *)
AfterFailure == "pairUnlock"

OpenPairFile(t) ==
    /\ \/ Go(t, "pairOpen", "pairFlock")
       \/ Go(t, "pairOpen", AfterFailure)
    /\ UNCHANGED <<want, owned, requests>>

FlockPairFile(t) ==
    /\ \A u \in pairFlock : ~SameFile(t, u)
    /\ Go(t, "pairFlock", "locked")
    /\ pairFlock' = pairFlock \cup {t}
    /\ UNCHANGED <<want, sharedFlock, lifecycleFlock, readLocked, writeLocked,
                   pairMutex, requests>>

FlockPairFileFails(t) ==
    /\ Go(t, "pairFlock", AfterFailure)
    /\ UNCHANGED <<want, owned, requests>>

-----------------------------------------------------------------------------
(* Giving them back, in the order of the two unlock functions.             *)

Unlock(t) ==
    /\ Go(t, "locked", IF OnPair(t) THEN "pairUnflock" ELSE "rwUnlock")
    /\ UNCHANGED <<want, owned, requests>>

UnflockPairFile(t) ==
    /\ Go(t, "pairUnflock", "pairUnlock")
    /\ pairFlock' = pairFlock \ {t}
    /\ UNCHANGED <<want, sharedFlock, lifecycleFlock, readLocked, writeLocked,
                   pairMutex, requests>>

UnlockPairMutex(t) ==
    /\ Go(t, "pairUnlock", "rwUnlock")
    /\ pairMutex' = pairMutex \ {t}
    /\ UNCHANGED <<want, sharedFlock, lifecycleFlock, readLocked, writeLocked,
                   pairFlock, requests>>

UnlockRWMutex(t) ==
    /\ Go(t, "rwUnlock", "unflock")
    /\ readLocked' = readLocked \ {t}
    /\ writeLocked' = writeLocked \ {t}
    /\ UNCHANGED <<want, sharedFlock, lifecycleFlock, pairMutex, pairFlock, requests>>

UnflockLifecycle(t) ==
    /\ Go(t, "unflock", "idle")
    /\ sharedFlock' = sharedFlock \ {t}
    /\ lifecycleFlock' = lifecycleFlock \ {t}
    /\ UNCHANGED <<want, readLocked, writeLocked, pairMutex, pairFlock, requests>>

(* The kernel closes the descriptors of a killed process, which drops its  *)
(* flocks; its mutexes are gone with its memory.                           *)
Crash(process) ==
    LET dead == {t \in Threads : ProcessOf[t] = process}
    IN /\ \E t \in dead : pc[t] # "idle"
       /\ pc' = [t \in Threads |-> IF t \in dead THEN "idle" ELSE pc[t]]
       /\ sharedFlock' = sharedFlock \ dead
       /\ lifecycleFlock' = lifecycleFlock \ dead
       /\ readLocked' = readLocked \ dead
       /\ writeLocked' = writeLocked \ dead
       /\ pairMutex' = pairMutex \ dead
       /\ pairFlock' = pairFlock \ dead
       /\ UNCHANGED <<want, requests>>

-----------------------------------------------------------------------------
Init ==
    /\ pc = [t \in Threads |-> "idle"]
    /\ want \in [Threads -> [kind : {"lifecycle"}]]
    /\ sharedFlock = {} /\ lifecycleFlock = {}
    /\ readLocked = {} /\ writeLocked = {}
    /\ pairMutex = {} /\ pairFlock = {}
    /\ requests = 0

(* The steps a thread takes once it has called lock or lockLifecycle.      *)
Progress(t) ==
    \/ Open(t) \/ FlockLifecycle(t) \/ FlockLifecycleFails(t) \/ LockRWMutex(t)
    \/ LockPairMutex(t) \/ OpenPairFile(t) \/ FlockPairFile(t)
    \/ FlockPairFileFails(t) \/ Unlock(t) \/ UnflockPairFile(t)
    \/ UnlockPairMutex(t) \/ UnlockRWMutex(t) \/ UnflockLifecycle(t)

(* The bound on requests is reached and every one has been answered.       *)
Rest ==
    /\ requests = MaxRequests
    /\ \A t \in Threads : pc[t] = "idle"
    /\ UNCHANGED vars

Next ==
    \/ \E t \in Threads : Request(t) \/ Progress(t)
    \/ \E process \in Processes : Crash(process)
    \/ Rest

Spec == Init /\ [][Next]_vars

(* The calls below are the ones the program goes on with as soon as they   *)
(* can return.  A failing open or flock is never owed to anybody: only the *)
(* waiting calls that succeed are fair.                                    *)
Succeeds(t) ==
    \/ Open(t) \/ FlockLifecycle(t) \/ LockRWMutex(t) \/ LockPairMutex(t)
    \/ OpenPairFile(t) \/ FlockPairFile(t) \/ Unlock(t) \/ UnflockPairFile(t)
    \/ UnlockPairMutex(t) \/ UnlockRWMutex(t) \/ UnflockLifecycle(t)

FairSpec == Spec /\ \A t \in Threads : WF_vars(Succeeds(t))

-----------------------------------------------------------------------------
(* The locks implement LifecycleLock: a thread owns the pairs it asked for *)
(* exactly between the return of lock and the call of unlock.              *)
held ==
    [t \in Threads |->
        IF pc[t] # "locked" THEN {}
        ELSE IF OnPair(t) THEN {want[t].key} ELSE Keys]

Abstract == INSTANCE LifecycleLock WITH held <- held

(* lock and lockLifecycle, over files and mutexes, never let two requests  *)
(* own the same pair, in whatever processes they run (service.go:580-641). *)
MutualExclusion == Abstract!MutualExclusion

(* Every step of the locking code is a step of the abstract lock, or one   *)
(* its callers cannot see (service.go:580-641).                            *)
ImplementsLock == Abstract!LockSpec

(* However a call ends - unlock, a failed open or flock at any stage, a    *)
(* crash - a thread that is no longer in it owns none of the four locks    *)
(* (the error paths of service.go:590-601 and 623-626).                    *)
NothingLeaks ==
    \A t \in Threads :
        pc[t] = "idle" =>
            t \notin sharedFlock \cup lifecycleFlock \cup readLocked
                     \cup writeLocked \cup pairMutex \cup pairFlock

(* The RWMutex is taken after the flock and given back before it, so that  *)
(* no request ever waits for it (service.go:623-639): a goroutine blocked  *)
(* there would hold repositories.lock against every other process.         *)
RWMutexNeverWaits ==
    \A t \in Threads : pc[t] = "rwMutex" => RWMutexFree(t)

(* Every request that started to lock comes back, with the lock or an      *)
(* error, and every unlock completes: no order of requests deadlocks on    *)
(* the four locks (service.go:580-641).                                    *)
EveryCallReturns ==
    \A t \in Threads :
        pc[t] \notin {"idle", "locked"} ~> pc[t] \in {"idle", "locked"}
=============================================================================
