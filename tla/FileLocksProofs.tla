-------------------------- MODULE FileLocksProofs --------------------------
(***************************************************************************)
(* For any number of requests, pairs and processes, and however lock file  *)
(* names collide: what a thread owns follows from the call it is at, the   *)
(* flocks exclude each other, and from the two follow the properties of    *)
(* FileLocks and the abstract lock it implements.                          *)
(***************************************************************************)
EXTENDS FileLocks, TLAPS

AfterFlock == {"rwMutex", "pairMutex", "pairOpen", "pairFlock", "locked",
               "pairUnflock", "pairUnlock", "rwUnlock", "unflock"}
AfterRWMutex == AfterFlock \ {"rwMutex", "unflock"}
PairCalls == {"pairMutex", "pairOpen", "pairFlock", "pairUnflock", "pairUnlock"}
AfterPairMutex == {"pairOpen", "pairFlock", "locked", "pairUnflock", "pairUnlock"}

(* A thread owns what its position in lock or unlock says, and nothing     *)
(* else; only an operation on a pair is in the calls about its pair.       *)
OwnedByCall ==
    \A t \in Threads :
        /\ t \in sharedFlock <=> OnPair(t) /\ pc[t] \in AfterFlock
        /\ t \in lifecycleFlock <=> ~OnPair(t) /\ pc[t] \in AfterFlock
        /\ t \in readLocked <=> OnPair(t) /\ pc[t] \in AfterRWMutex
        /\ t \in writeLocked <=> ~OnPair(t) /\ pc[t] \in AfterRWMutex
        /\ t \in pairMutex <=> OnPair(t) /\ pc[t] \in AfterPairMutex
        /\ t \in pairFlock <=> OnPair(t) /\ pc[t] \in {"locked", "pairUnflock"}
        /\ pc[t] \in PairCalls => OnPair(t)

(* What flock(2) guarantees about the two kinds of files.                  *)
FlocksExclude ==
    /\ \A t \in lifecycleFlock : lifecycleFlock = {t} /\ sharedFlock = {}
    /\ \A t, u \in pairFlock : t # u => ~SameFile(t, u)

LockInv == TypeOK /\ OwnedByCall /\ FlocksExclude

-----------------------------------------------------------------------------
LEMMA InitLockInv == Init => LockInv
  BY FileLocksAssumption DEF Init, LockInv, TypeOK, OwnedByCall, FlocksExclude,
     Calls, Wants, OnPair, AfterFlock, AfterRWMutex, AfterPairMutex, PairCalls

LEMMA RequestInv ==
  ASSUME LockInv, NEW t \in Threads, Request(t)
  PROVE  LockInv'
  BY FileLocksAssumption DEF Request, Go, owned, LockInv, TypeOK, OwnedByCall,
     FlocksExclude, Calls, Wants, OnPair, SameFile, AfterFlock, AfterRWMutex,
     AfterPairMutex, PairCalls

LEMMA OpenInv ==
  ASSUME LockInv, NEW t \in Threads, Open(t)
  PROVE  LockInv'
  BY DEF Open, Go, owned, LockInv, TypeOK, OwnedByCall, FlocksExclude, Calls,
     Wants, OnPair, SameFile, AfterFlock, AfterRWMutex, AfterPairMutex, PairCalls

LEMMA FlockLifecycleInv ==
  ASSUME LockInv, NEW t \in Threads, FlockLifecycle(t)
  PROVE  LockInv'
  BY DEF FlockLifecycle, LifecycleFree, Go, LockInv, TypeOK, OwnedByCall,
     FlocksExclude, Calls, Wants, OnPair, SameFile, AfterFlock, AfterRWMutex,
     AfterPairMutex, PairCalls

LEMMA LockRWMutexInv ==
  ASSUME LockInv, NEW t \in Threads, LockRWMutex(t)
  PROVE  LockInv'
  BY DEF LockRWMutex, Go, LockInv, TypeOK, OwnedByCall, FlocksExclude, Calls,
     Wants, OnPair, SameFile, AfterFlock, AfterRWMutex, AfterPairMutex, PairCalls

LEMMA LockPairMutexInv ==
  ASSUME LockInv, NEW t \in Threads, LockPairMutex(t)
  PROVE  LockInv'
  BY DEF LockPairMutex, Go, LockInv, TypeOK, OwnedByCall, FlocksExclude, Calls,
     Wants, OnPair, SameFile, AfterFlock, AfterRWMutex, AfterPairMutex, PairCalls

LEMMA FlockPairFileInv ==
  ASSUME LockInv, NEW t \in Threads, FlockPairFile(t)
  PROVE  LockInv'
  BY DEF FlockPairFile, Go, LockInv, TypeOK, OwnedByCall, FlocksExclude, Calls,
     Wants, OnPair, SameFile, AfterFlock, AfterRWMutex, AfterPairMutex, PairCalls

(* The calls that only move on or fail, and take or give back nothing.     *)
LEMMA NothingTakenInv ==
  ASSUME LockInv, NEW t \in Threads,
         FlockLifecycleFails(t) \/ OpenPairFile(t) \/ FlockPairFileFails(t) \/ Unlock(t)
  PROVE  LockInv'
  BY DEF FlockLifecycleFails, OpenPairFile, FlockPairFileFails, Unlock,
     AfterFailure, owned, Go, LockInv, TypeOK, OwnedByCall, FlocksExclude, Calls,
     Wants, OnPair, SameFile, AfterFlock, AfterRWMutex, AfterPairMutex, PairCalls

LEMMA UnlockInv ==
  ASSUME LockInv, NEW t \in Threads,
         UnflockPairFile(t) \/ UnlockPairMutex(t) \/ UnlockRWMutex(t) \/ UnflockLifecycle(t)
  PROVE  LockInv'
  <1>1. CASE UnflockPairFile(t)
    BY <1>1 DEF UnflockPairFile, Go, LockInv, TypeOK, OwnedByCall, FlocksExclude, Calls,
       Wants, OnPair, SameFile, AfterFlock, AfterRWMutex, AfterPairMutex, PairCalls
  <1>2. CASE UnlockPairMutex(t)
    BY <1>2 DEF UnlockPairMutex, Go, LockInv, TypeOK, OwnedByCall, FlocksExclude, Calls,
       Wants, OnPair, SameFile, AfterFlock, AfterRWMutex, AfterPairMutex, PairCalls
  <1>3. CASE UnlockRWMutex(t)
    BY <1>3 DEF UnlockRWMutex, Go, LockInv, TypeOK, OwnedByCall, FlocksExclude, Calls,
       Wants, OnPair, SameFile, AfterFlock, AfterRWMutex, AfterPairMutex, PairCalls
  <1>4. CASE UnflockLifecycle(t)
    BY <1>4 DEF UnflockLifecycle, Go, LockInv, TypeOK, OwnedByCall, FlocksExclude, Calls,
       Wants, OnPair, SameFile, AfterFlock, AfterRWMutex, AfterPairMutex, PairCalls
  <1>5. QED
    BY <1>1, <1>2, <1>3, <1>4

LEMMA CrashInv ==
  ASSUME LockInv, NEW process \in Processes, Crash(process)
  PROVE  LockInv'
  BY DEF Crash, LockInv, TypeOK, OwnedByCall, FlocksExclude, Calls, Wants,
     OnPair, SameFile, AfterFlock, AfterRWMutex, AfterPairMutex, PairCalls

LEMMA LockInvStutters ==
  ASSUME LockInv, UNCHANGED vars
  PROVE  LockInv'
  BY DEF vars, LockInv, TypeOK, OwnedByCall, FlocksExclude, OnPair, SameFile

LEMMA LockInvInductive == LockInv /\ [Next]_vars => LockInv'
  <1> SUFFICES ASSUME LockInv, [Next]_vars
               PROVE  LockInv'
    OBVIOUS
  <1>1. CASE \E t \in Threads : Request(t) \/ Progress(t)
    BY <1>1, RequestInv, OpenInv, FlockLifecycleInv, LockRWMutexInv,
       LockPairMutexInv, FlockPairFileInv, NothingTakenInv, UnlockInv DEF Progress
  <1>2. CASE \E process \in Processes : Crash(process)
    BY <1>2, CrashInv
  <1>3. CASE Rest \/ UNCHANGED vars
    BY <1>3, LockInvStutters DEF Rest
  <1>4. QED
    BY <1>1, <1>2, <1>3 DEF Next

(* The locks' state is always what the calls made so far say, and the      *)
(* flocks exclude each other (lock and lockGlobal, service.go:580-641).    *)
THEOREM LocksInvariant == Spec => []LockInv
  BY InitLockInv, LockInvInductive, PTL DEF Spec

-----------------------------------------------------------------------------
(* The variables keep their types (service.go:580-641).                    *)
THEOREM LocksTypeCorrect == Spec => []TypeOK
  <1>1. LockInv => TypeOK
    BY DEF LockInv
  <1>2. QED
    BY <1>1, LocksInvariant, PTL

LEMMA LockInvExcludes == LockInv => MutualExclusion
  <1> SUFFICES ASSUME LockInv,
                      NEW t \in Threads, NEW u \in Threads, t # u,
                      pc[t] = "locked", pc[u] = "locked",
                      NEW k \in held[t] \cap held[u]
               PROVE  FALSE
    BY DEF MutualExclusion, Abstract!MutualExclusion, held
  <1>1. OnPair(t) /\ OnPair(u)
    BY DEF LockInv, OwnedByCall, FlocksExclude, AfterFlock
  <1>2. t \in pairFlock /\ u \in pairFlock
    BY <1>1 DEF LockInv, OwnedByCall
  <1>3. want[t].key = want[u].key
    BY <1>1 DEF held
  <1>4. QED
    BY <1>1, <1>2, <1>3 DEF LockInv, FlocksExclude, SameFile

(* No two requests ever own the same pair, in whatever processes they run  *)
(* and whatever file names collide (service.go:580-641).                   *)
THEOREM LocksExclude == Spec => []MutualExclusion
  BY LockInvExcludes, LocksInvariant, PTL

(* A thread that is not in a lock call or an operation owns no lock, by    *)
(* whatever way it got out (the error paths of service.go:590-601).        *)
THEOREM LocksDoNotLeak == Spec => []NothingLeaks
  <1>1. LockInv => NothingLeaks
    BY DEF LockInv, OwnedByCall, NothingLeaks, AfterFlock, AfterRWMutex, AfterPairMutex
  <1>2. QED
    BY <1>1, LocksInvariant, PTL

(* The RWMutex is free whenever a thread gets to it, because of the flock  *)
(* taken before (service.go:623-631).                                      *)
THEOREM RWMutexIsFree == Spec => []RWMutexNeverWaits
  <1>1. LockInv => RWMutexNeverWaits
    BY DEF LockInv, OwnedByCall, FlocksExclude, RWMutexNeverWaits, RWMutexFree,
       Peers, AfterFlock, AfterRWMutex
  <1>2. QED
    BY <1>1, LocksInvariant, PTL

-----------------------------------------------------------------------------
(* Implementation of the abstract lock.                                    *)

LEMMA TakenIsAcquire ==
  ASSUME LockInv, LockInv', NEW t \in Threads, NEW wanted \in SUBSET Keys,
         held[t] = {}, held' = [held EXCEPT ![t] = wanted]
  PROVE  Abstract!Acquire(t, wanted)
  <1>1. MutualExclusion'
    BY LockInvExcludes, PTL
  <1>2. Abstract!Free(t, wanted)
    BY <1>1 DEF MutualExclusion, Abstract!MutualExclusion, Abstract!Free, held
  <1>3. QED
    BY <1>2 DEF Abstract!Acquire

LEMMA FlockPairFileAcquires ==
  ASSUME LockInv, LockInv', NEW t \in Threads, FlockPairFile(t)
  PROVE  Abstract!LockNext
  <1>1. OnPair(t) /\ want[t].key \in Keys
    BY DEF FlockPairFile, Go, LockInv, TypeOK, OwnedByCall, PairCalls, OnPair, Wants
  <1>2. held[t] = {} /\ held' = [held EXCEPT ![t] = {want[t].key}]
    BY <1>1 DEF FlockPairFile, Go, held, OnPair, LockInv, TypeOK
  <1>3. Abstract!Acquire(t, {want[t].key})
    BY <1>1, <1>2, TakenIsAcquire
  <1>4. QED
    BY <1>1, <1>3 DEF Abstract!LockNext

LEMMA LockRWMutexAcquires ==
  ASSUME LockInv, LockInv', NEW t \in Threads, LockRWMutex(t)
  PROVE  Abstract!LockNext \/ UNCHANGED held
  <1>1. CASE OnPair(t)
    BY <1>1 DEF LockRWMutex, Go, held, OnPair, LockInv, TypeOK
  <1>2. CASE ~OnPair(t)
    <2>1. held[t] = {} /\ held' = [held EXCEPT ![t] = Keys]
      BY <1>2 DEF LockRWMutex, Go, held, OnPair, LockInv, TypeOK
    <2>2. Abstract!Acquire(t, Keys)
      BY <2>1, TakenIsAcquire
    <2>3. QED
      BY <2>2 DEF Abstract!LockNext
  <1>3. QED
    BY <1>1, <1>2

LEMMA UnlockReleases ==
  ASSUME LockInv, NEW t \in Threads, Unlock(t)
  PROVE  Abstract!LockNext
  <1>1. held' = [held EXCEPT ![t] = {}]
    BY DEF Unlock, Go, held, OnPair, LockInv, TypeOK
  <1>2. QED
    BY <1>1 DEF Abstract!LockNext, Abstract!Release

LEMMA CrashDrops ==
  ASSUME LockInv, NEW process \in Processes, Crash(process)
  PROVE  Abstract!LockNext
  <1> DEFINE dead == {t \in Threads : ProcessOf[t] = process}
  <1>1. held' = [t \in Threads |-> IF t \in dead THEN {} ELSE held[t]]
    BY DEF Crash, held, OnPair, LockInv, TypeOK
  <1>2. Abstract!Drop(dead)
    BY <1>1 DEF Abstract!Drop
  <1>3. dead \in SUBSET Threads
    OBVIOUS
  <1>4. QED
    BY <1>2, <1>3 DEF Abstract!LockNext

(* The calls that start or stop nobody's ownership.                        *)
LEMMA OtherStepsHidden ==
  ASSUME LockInv, NEW t \in Threads,
         \/ Request(t) \/ Open(t) \/ FlockLifecycle(t) \/ FlockLifecycleFails(t)
         \/ LockPairMutex(t) \/ OpenPairFile(t) \/ FlockPairFileFails(t)
         \/ UnflockPairFile(t) \/ UnlockPairMutex(t) \/ UnlockRWMutex(t)
         \/ UnflockLifecycle(t)
  PROVE  UNCHANGED held
  BY DEF Request, Open, FlockLifecycle, FlockLifecycleFails, LockPairMutex,
     OpenPairFile, AfterFailure, FlockPairFileFails, UnflockPairFile,
     UnlockPairMutex, UnlockRWMutex, UnflockLifecycle, Go, held, OnPair,
     LockInv, TypeOK

LEMMA StepImplements ==
  LockInv /\ LockInv' /\ [Next]_vars => [Abstract!LockNext]_held
  <1> SUFFICES ASSUME LockInv, LockInv', [Next]_vars
               PROVE  [Abstract!LockNext]_held
    OBVIOUS
  <1>1. CASE \E t \in Threads : Request(t) \/ Progress(t)
    BY <1>1, FlockPairFileAcquires, LockRWMutexAcquires, UnlockReleases,
       OtherStepsHidden DEF Progress
  <1>2. CASE \E process \in Processes : Crash(process)
    BY <1>2, CrashDrops
  <1>3. CASE Rest \/ UNCHANGED vars
    BY <1>3 DEF Rest, vars, held, OnPair
  <1>4. QED
    BY <1>1, <1>2, <1>3 DEF Next

(* The lock files and mutexes implement the abstract lock the other        *)
(* operations are modelled with (lock and lockLifecycle, service.go:580).  *)
THEOREM LocksImplementLifecycleLock == Spec => ImplementsLock
  <1>1. Init => Abstract!LockInit
    BY DEF Init, Abstract!LockInit, held
  <1>2. QED
    BY <1>1, StepImplements, LocksInvariant, PTL
       DEF Spec, ImplementsLock, Abstract!LockSpec
=============================================================================
