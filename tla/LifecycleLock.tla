--------------------------- MODULE LifecycleLock ---------------------------
(***************************************************************************)
(* What the locks of repository.Service promise to its operations.         *)
(*                                                                         *)
(* The promise does not mention files, mutexes or processes.  A thread (a  *)
(* request being served by some pkgdepot process on the data root) holds a *)
(* set of keys; a key is one repository/architecture pair.  lock() takes   *)
(* the key of one pair, lockLifecycle() takes every key at once, and no    *)
(* key is ever held by two threads.  Module FileLocks shows that the       *)
(* lifecycle file, the per-pair files and the mutexes of the source keep   *)
(* this promise.                                                           *)
(***************************************************************************)

CONSTANTS Threads,  \* requests that can be in progress at the same time
          Keys      \* repository/architecture pairs

VARIABLE held       \* held[t]: the keys thread t may write to

LockTypeOK == held \in [Threads -> SUBSET Keys]

LockInit == held = [t \in Threads |-> {}]

Free(t, wanted) == \A other \in Threads \ {t} : held[other] \cap wanted = {}

(* The unlock function of service.go has not been handed out yet, and a    *)
(* thread asks for one lock per operation.                                 *)
Acquire(t, wanted) ==
    /\ held[t] = {}
    /\ Free(t, wanted)
    /\ held' = [held EXCEPT ![t] = wanted]

Release(t) == held' = [held EXCEPT ![t] = {}]

(* flock locks and mutexes die with the process that holds them.           *)
Drop(dead) == held' = [t \in Threads |-> IF t \in dead THEN {} ELSE held[t]]

LockNext ==
    \/ \E t \in Threads, wanted \in {{k} : k \in Keys} \cup {Keys} :
           Acquire(t, wanted)
    \/ \E t \in Threads : Release(t)
    \/ \E dead \in SUBSET Threads : Drop(dead)

LockSpec == LockInit /\ [][LockNext]_held

(* No repository/architecture pair is ever owned by two threads at once:   *)
(* the reason service.go locks at all (lock, service.go:580-608).          *)
MutualExclusion ==
    \A t, u \in Threads : t # u => held[t] \cap held[u] = {}
=============================================================================
