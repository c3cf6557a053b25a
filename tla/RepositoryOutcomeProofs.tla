---------------------- MODULE RepositoryOutcomeProofs ----------------------
(***************************************************************************)
(* What the requests to RepositoryService come to: that a success is true  *)
(* when it is reported, that a rename loses nothing, that nothing is left  *)
(* behind while nothing fails, and that a reader sees the catalog change   *)
(* only as Catalog says.  OutcomeInv (RepositoryInvariant) is shown to be  *)
(* inductive next to ServiceInv: first what depends on a handler alone,    *)
(* then what its call has made of the disk, then what is true of all of    *)
(* it while nothing has failed.                                            *)
(***************************************************************************)
EXTENDS RepositoryInvariantProofs

OthersKept(t) ==
    \A u \in Threads \ {t} : held'[u] = held[u] /\ reply'[u] = reply[u]

LEMMA HandlersAreLocal ==
  ASSUME ControlInv, NEW t \in Threads, Begins(t) \/ Step(t)
  PROVE  OthersKept(t)
  <1> USE DEF ControlInv, TypeOK, OthersKept, Go, Proceed, Refuse, Answer,
              Forget, Begin, RefuseRequest, context, Lock!Acquire, Lock!Release
  <1>1. CASE Begins(t)
    BY <1>1 DEF Begins, BeginUpload, BeginRemove, BeginLifecycle
  <1>2. CASE PublishStep(t)
    BY <1>2 DEF PublishStep, ReceiveUpload, LockForPublish, Inspect,
       MakeDirectory, StatDestination, InstallPackage, InstallSignature,
       AddEntry, AddFails, Cancel, UndoPackage, UndoSignature, Cleanup
  <1>3. CASE RemoveStep(t)
    BY <1>3 DEF RemoveStep, LockForRemove, FindPackage, RemoveEntry,
       RemoveEntryFails, Cancel, RemoveFile, RemoveSignature
  <1>4. CASE LifecycleStep(t)
    BY <1>4 DEF LifecycleStep, LockForLifecycle, Create, CheckRename,
       MakeSnapshot, CopySnapshot, RelabelDatabase, InstallSnapshot,
       DiscardSnapshot, CheckRepository, PurgeFile, PurgeArchitecture,
       PurgeRepository
  <1>5. CASE Unlock(t)
    BY <1>5 DEF Unlock
  <1>6. QED
    BY <1>1, <1>2, <1>3, <1>4, <1>5 DEF Step

-----------------------------------------------------------------------------
(* What depends on a handler alone.                                        *)

LEMMA BeginsHandler ==
  ASSUME ControlInv, NEW t \in Threads, HandlerFits(t), Begins(t)
  PROVE  HandlerFits(t)'
  <1> USE DEF ControlInv, TypeOK, HandlerFits, Begin, Go
  <1>1. CASE BeginUpload(t)
    BY <1>1 DEF BeginUpload, RenameJobs
  <1>2. CASE BeginRemove(t)
    BY <1>2 DEF BeginRemove, RenameJobs
  <1>3. CASE BeginLifecycle(t)
    BY <1>3 DEF BeginLifecycle, RenameJobs
  <1>4. QED
    BY <1>1, <1>2, <1>3 DEF Begins

LEMMA PublishHandler ==
  ASSUME ControlInv, NEW t \in Threads, HandlerFits(t), PublishStep(t)
  PROVE  HandlerFits(t)'
  <1> USE DEF ControlInv, TypeOK, JobsFit, LocksHeld, HandlerFits, Go, Proceed,
              Refuse, Answer, context, request, OnPair, Fits, At, PairWriters,
              PublishCalls, RemoveCalls, LifecycleCalls
  <1> USE DEF PublishJobs, RenameJobs
  <1>1. CASE ReceiveUpload(t) \/ Inspect(t) \/ MakeDirectory(t) \/ StatDestination(t)
    BY <1>1 DEF ReceiveUpload, Inspect, MakeDirectory, StatDestination
  <1>2. CASE LockForPublish(t)
    BY <1>2 DEF LockForPublish
  <1>3. CASE InstallPackage(t) \/ InstallSignature(t)
    BY <1>3 DEF InstallPackage, AfterInstall, InstallSignature
  <1>4. CASE AddEntry(t) \/ AddFails(t)
    BY <1>4 DEF AddEntry, AddFails, Cancel
  <1>5. CASE UndoPackage(t) \/ UndoSignature(t)
    BY <1>5 DEF UndoPackage, AfterUndo, UndoSignature
  <1>6. CASE Cleanup(t)
    BY <1>6 DEF Cleanup, Forget, NoJob
  <1>7. QED
    BY <1>1, <1>2, <1>3, <1>4, <1>5, <1>6 DEF PublishStep

LEMMA RemoveHandler ==
  ASSUME ControlInv, NEW t \in Threads, HandlerFits(t), RemoveStep(t)
  PROVE  HandlerFits(t)'
  <1> USE DEF ControlInv, TypeOK, JobsFit, LocksHeld, HandlerFits, Go, Proceed,
              Refuse, Answer, context, request, OnPair, Fits, At, PairWriters,
              PublishCalls, RemoveCalls, LifecycleCalls, RemoveJobs, RenameJobs
  <1>1. CASE LockForRemove(t)
    BY <1>1 DEF LockForRemove, RefuseRequest, Forget, NoJob
  <1>2. CASE FindPackage(t) \/ RemoveFile(t) \/ RemoveSignature(t)
    BY <1>2 DEF FindPackage, RemoveFile, RemoveSignature
  <1>3. CASE RemoveEntry(t) \/ RemoveEntryFails(t)
    BY <1>3 DEF RemoveEntry, RemoveEntryFails, Cancel
  <1>4. QED
    BY <1>1, <1>2, <1>3 DEF RemoveStep

LEMMA LifecycleHandler ==
  ASSUME ControlInv, NEW t \in Threads, HandlerFits(t), LifecycleStep(t)
  PROVE  HandlerFits(t)'
  <1> USE DEF ControlInv, TypeOK, JobsFit, LocksHeld, HandlerFits, Go, Proceed,
              Refuse, Answer, context, request, OnPair, Fits, At, PairWriters,
              LifecycleWriters, PublishCalls, RemoveCalls, LifecycleCalls,
              LifecycleJobs, RenameJobs, CreateJobs, DeleteJobs
  <1>1. CASE LockForLifecycle(t)
    BY <1>1 DEF LockForLifecycle, RefuseRequest, Forget, NoJob
  <1>2. CASE Create(t) \/ CheckRename(t) \/ CheckRepository(t)
    BY <1>2 DEF Create, CheckRename, CheckRepository
  <1>3. CASE MakeSnapshot(t) \/ CopySnapshot(t)
    BY <1>3 DEF MakeSnapshot, CopySnapshot
  <1>4. CASE RelabelDatabase(t) \/ InstallSnapshot(t) \/ DiscardSnapshot(t)
    BY <1>4 DEF RelabelDatabase, InstallSnapshot, DiscardSnapshot
  <1>5. CASE PurgeFile(t) \/ PurgeArchitecture(t) \/ PurgeRepository(t)
    BY <1>5 DEF PurgeFile, PurgeArchitecture, PurgeRepository
  <1>6. QED
    BY <1>1, <1>2, <1>3, <1>4, <1>5 DEF LifecycleStep

LEMMA UnlockHandler ==
  ASSUME ControlInv, NEW t \in Threads, HandlerFits(t), Unlock(t)
  PROVE  HandlerFits(t)'
  BY DEF ControlInv, TypeOK, HandlerFits, Unlock, Go, Answer, Forget, NoJob,
     RenameJobs, request, Fits

LEMMA HandlerInductive == ControlInv /\ HandlerInv /\ [Next]_vars => HandlerInv'
  <1> SUFFICES ASSUME ControlInv, HandlerInv, [Next]_vars, NEW u \in Threads
               PROVE  HandlerFits(u)'
    BY DEF HandlerInv
  <1> USE DEF HandlerInv
  <1>1. ASSUME NEW t \in Threads, Begins(t) \/ Step(t)
        PROVE  HandlerFits(u)'
    <2>1. CASE u = t
      BY <1>1, <2>1, BeginsHandler, PublishHandler, RemoveHandler,
         LifecycleHandler, UnlockHandler DEF Step
    <2>2. CASE u # t
      <3>1. /\ pc'[u] = pc[u] /\ job'[u] = job[u] /\ subject'[u] = subject[u]
            /\ temp'[u] = temp[u] /\ held'[u] = held[u] /\ reply'[u] = reply[u]
        BY <1>1, <2>2, StepsAreLocal, HandlersAreLocal DEF OthersAlone, OthersKept
      <3>2. QED
        BY <3>1 DEF HandlerFits, Fits, OnPair, At
    <2>3. QED
      BY <2>1, <2>2
  <1>2. CASE \E process \in Processes : Crash(process)
    <2> PICK process \in Processes : Crash(process)
      BY <1>2
    <2>1. CASE ProcessOf[u] = process
      <3>1. pc'[u] = "idle" /\ job'[u] = NoJob /\ temp'[u] = None /\ reply'[u] = "pending"
        BY <2>1 DEF Crash
      <3>2. QED
        BY <3>1 DEF HandlerFits, NoJob, RenameJobs
    <2>2. CASE ProcessOf[u] # process
      <3>1. /\ pc'[u] = pc[u] /\ job'[u] = job[u] /\ subject'[u] = subject[u]
            /\ temp'[u] = temp[u] /\ held'[u] = held[u] /\ reply'[u] = reply[u]
        BY <2>2 DEF Crash, Lock!Drop, ControlInv, TypeOK
      <3>2. QED
        BY <3>1 DEF HandlerFits, Fits, OnPair, At
    <2>3. QED
      BY <2>1, <2>2
  <1>3. CASE Rest \/ UNCHANGED vars
    BY <1>3 DEF Rest, vars, request, HandlerFits, Fits, OnPair, At
  <1>4. QED
    BY <1>1, <1>2, <1>3 DEF Next

(* Two threads that keep something from the others keep different pairs,   *)
(* or one of them is alone.                                                *)
LEMMA HoldersExclude ==
  ASSUME ControlInv, HandlerInv, NEW t \in Threads, NEW u \in Threads, t # u
  PROVE  /\ OnPair(t) /\ OnPair(u) => At(t) # At(u)
         /\ OnTree(t) => ~OnPair(u) /\ ~OnTree(u)
  <1>1. \A v \in Threads : OnPair(v) => At(v) \in Keys /\ held[v] = {At(v)}
    BY DEF ControlInv, JobsFit, LocksHeld, HandlerInv, HandlerFits, OnPair,
       PairWriters, PublishCalls, RemoveCalls, PublishJobs, RemoveJobs,
       LifecycleJobs, RenameJobs, CreateJobs, DeleteJobs, At, Keys
  <1>2. \A v \in Threads : OnTree(v) => held[v] = Keys /\ Keys # {}
    <2> SUFFICES ASSUME NEW v \in Threads, OnTree(v)
                 PROVE  held[v] = Keys /\ Keys # {}
      OBVIOUS
    <2>1. job[v] \in LifecycleJobs /\ job[v].repo \in Repos
          /\ job[v].op \notin {"publish", "remove"}
      BY DEF OnTree, ControlInv, JobsFit, LifecycleWriters, LifecycleJobs, RenameJobs,
         CreateJobs, DeleteJobs
    <2>2. held[v] = Keys
      BY <2>1 DEF OnTree, ControlInv, LocksHeld, HandlerInv, HandlerFits, OnPair,
         PairWriters, PublishCalls, RemoveCalls
    <2>3. PICK a \in Archs : TRUE
      BY ServiceAssumption
    <2>4. [repo |-> job[v].repo, arch |-> a] \in Keys
      BY <2>1 DEF Keys
    <2>5. QED
      BY <2>2, <2>4
  <1>3. held[t] \cap held[u] = {}
    BY DEF ControlInv, Lock!MutualExclusion
  <1>4. QED
    BY <1>1, <1>2, <1>3

-----------------------------------------------------------------------------
(* What a step leaves alone: one for a pair changes files and entries of   *)
(* that pair only and takes no directory away.                             *)
PairStep(t) ==
    /\ dirs \subseteq dirs' /\ archDirs \subseteq archDirs' /\ torn \subseteq torn'
    /\ \A place \in Places \ {At(t)} :
           /\ In(pkgs', place) = In(pkgs, place)
           /\ In(sigs', place) = In(sigs, place)
           /\ In(entries', place) = In(entries, place)

LEMMA FilesElsewhere ==
  ASSUME NEW S, NEW t \in Threads, NEW place \in Places, place # At(t)
  PROVE  /\ In(Placed(S, File(t)), place) = In(S, place)
         /\ In(Unlinked(S, File(t)), place) = In(S, place)
  BY DEF In, Placed, Unlinked, SamePath, File, At, Places

LEMMA EntriesElsewhere ==
  ASSUME NEW t \in Threads, NEW place \in Places, place # At(t), NEW name, NEW u
  PROVE  /\ In(entries \ OfName(At(t), name), place) = In(entries, place)
         /\ In((entries \ OfName(At(t), name)) \cup {Entry(At(t), u)}, place)
                = In(entries, place)
  BY DEF In, OfName, Entry, At, Places

LEMMA PairScope ==
  ASSUME ControlInv, NEW t \in Threads, PublishStep(t) \/ RemoveStep(t)
  PROVE  UNCHANGED disk \/ (pc[t] \in PairWriters /\ PairStep(t))
  <1> USE DEF Go, PairWriters, PublishCalls, RemoveCalls, disk, folders, files,
              database, marks
  <1>1. CASE \/ ReceiveUpload(t) \/ LockForPublish(t) \/ Inspect(t)
             \/ StatDestination(t) \/ Cleanup(t) \/ LockForRemove(t) \/ FindPackage(t)
    BY <1>1 DEF ReceiveUpload, LockForPublish, Inspect, StatDestination, Cleanup,
       LockForRemove, FindPackage, Proceed, Refuse, RefuseRequest
  <1>2. CASE MakeDirectory(t)
    BY <1>2 DEF MakeDirectory, PairStep
  <1>3. CASE InstallPackage(t)
    BY <1>3, FilesElsewhere DEF InstallPackage, Refuse, PairStep
  <1>4. CASE InstallSignature(t)
    BY <1>4, FilesElsewhere DEF InstallSignature, PairStep
  <1>5. CASE AddEntry(t)
    <2>1. PICK x \in pkgs : AddEntry(t)!(x)
      BY <1>5 DEF AddEntry
    <2>2. /\ UNCHANGED <<dirs, archDirs, pkgs, sigs>> /\ pc[t] = "add"
          /\ torn \subseteq torn'
          /\ entries' = (entries \ OfName(At(t), NameOf[x.up])) \cup {Entry(At(t), x.up)}
      BY <2>1 DEF ListPackage
    <2>3. QED
      BY <2>2, EntriesElsewhere DEF PairStep
  <1>6. CASE AddFails(t) \/ RemoveEntryFails(t)
    BY <1>6 DEF AddFails, RemoveEntryFails, Cancel, Refuse, PairStep
  <1>7. CASE UndoPackage(t) \/ UndoSignature(t)
    BY <1>7, FilesElsewhere DEF UndoPackage, UndoSignature, PairStep
  <1>8. CASE RemoveEntry(t)
    BY <1>8, EntriesElsewhere DEF RemoveEntry, DelistPackage, PairStep
  <1>9. CASE RemoveFile(t) \/ RemoveSignature(t)
    BY <1>9, FilesElsewhere DEF RemoveFile, RemoveSignature, Refuse, PairStep
  <1>10. QED
    BY <1>1, <1>2, <1>3, <1>4, <1>5, <1>6, <1>7, <1>8, <1>9 DEF PublishStep, RemoveStep

LEMMA StepScope ==
  ASSUME ControlInv, NEW t \in Threads, Begins(t) \/ Step(t)
  PROVE  \/ UNCHANGED disk
         \/ pc[t] \in PairWriters /\ PairStep(t)
         \/ pc[t] \in LifecycleWriters
  <1>1. CASE Begins(t)
    BY <1>1 DEF Begins, BeginUpload, BeginRemove, BeginLifecycle, Begin
  <1>2. CASE PublishStep(t) \/ RemoveStep(t)
    BY <1>2, PairScope
  <1>3. CASE LifecycleStep(t)
    BY <1>3 DEF LifecycleStep, LockForLifecycle, RefuseRequest, Create,
       CheckRename, MakeSnapshot, CopySnapshot, RelabelDatabase,
       InstallSnapshot, DiscardSnapshot, CheckRepository, PurgeFile,
       PurgeArchitecture, PurgeRepository, Proceed, Refuse, Go,
       LifecycleWriters, LifecycleCalls
  <1>4. CASE Unlock(t)
    BY <1>4 DEF Unlock
  <1>5. QED
    BY <1>1, <1>2, <1>3, <1>4 DEF Step

(* At most calls a handler has established nothing about the disk.         *)
LEMMA NothingEstablished ==
  ASSUME NEW u \in Threads,
         pc'[u] \notin {"sign", "add", "removeFile", "removeSig", "relabel", "purge"},
         pc'[u] = "unlock" => reply'[u] # "ok"
  PROVE  OutcomeOf(u)'
  BY DEF OutcomeOf, Installed, Delisted, SnapshotTrue, NothingLost, Truthful

LEMMA SameOutcome ==
  ASSUME ServiceInv, NEW u \in Threads, OutcomeOf(u),
         UNCHANGED <<dirs, archDirs, pkgs, sigs, dbs, entries>>,
         OnTree(u) => UNCHANGED cmdLocks,
         pc'[u] = pc[u], job'[u] = job[u], subject'[u] = subject[u],
         temp'[u] = temp[u], reply'[u] = reply[u]
  PROVE  OutcomeOf(u)'
  <1> USE DEF OutcomeOf
  <1>1. At(u)' = At(u) /\ File(u)' = File(u)
    BY DEF At, File
  <1>2. Matches(u)' = Matches(u) /\ Listing(At(u))' = Listing(At(u))
    BY <1>1 DEF Matches, Listing, In
  <1>3. Installed(u)' /\ Delisted(u)'
    BY <1>1, <1>2 DEF Installed, Delisted, SamePath
  <1>4. SnapshotTrue(u)' /\ NothingLost(u)'
    BY DEF SnapshotTrue, NothingLost
  <1>5. Truthful(u)'
    <2> SUFFICES ASSUME pc[u] = "unlock", reply[u] = "ok"
                 PROVE  Truthful(u)'
      BY DEF Truthful
    <2>1. CASE job[u].op \in {"publish", "remove"}
      BY <1>1, <1>2, <2>1 DEF Truthful, SamePath
    <2>2. CASE job[u].op \notin {"publish", "remove"}
      <3>1. OnTree(u) /\ job[u].op \in {"create", "rename", "removeRepository"}
        BY <2>2 DEF OnTree, ServiceInv, ControlInv, JobsFit, PublishJobs, RemoveJobs,
           LifecycleJobs, RenameJobs, CreateJobs, DeleteJobs
      <3>2. Gone(job[u].repo)' = Gone(job[u].repo)
        BY <3>1 DEF Gone, Under
      <3>3. QED
        BY <3>1, <3>2 DEF Truthful
    <2>3. QED
      BY <2>1, <2>2
  <1>6. QED
    BY <1>3, <1>4, <1>5

(* What a handler has established is about its own pair, or about all of   *)
(* them while it is alone: the steps of others leave it true.              *)
LEMMA OthersOutcome ==
  ASSUME ServiceInv, HandlerInv, NEW t \in Threads, Begins(t) \/ Step(t),
         NEW u \in Threads, u # t, OutcomeOf(u)
  PROVE  OutcomeOf(u)'
  <1> USE DEF ServiceInv
  <1>1. /\ pc'[u] = pc[u] /\ job'[u] = job[u] /\ subject'[u] = subject[u]
        /\ temp'[u] = temp[u] /\ reply'[u] = reply[u]
        /\ At(u)' = At(u) /\ File(u)' = File(u)
    BY StepsAreLocal, HandlersAreLocal DEF OthersAlone, OthersKept, At, File
  <1>2. CASE UNCHANGED disk
    BY <1>1, <1>2, SameOutcome DEF disk, folders, files, database, marks
  <1>3. CASE pc[t] \in PairWriters /\ PairStep(t)
    <2>1. ~OnTree(u) /\ (OnPair(u) => At(u) # At(t))
      BY <1>3, HoldersExclude DEF OnPair
    <2>2. OnPair(u) => At(u) \in Places
      BY DEF OnPair, ControlInv, JobsFit, PairWriters, PublishCalls, RemoveCalls,
         PublishJobs, RemoveJobs, LifecycleJobs, RenameJobs, CreateJobs,
         DeleteJobs, At, Places, Dirs
    <2>3. OnPair(u) => /\ In(pkgs', At(u)) = In(pkgs, At(u))
                       /\ In(sigs', At(u)) = In(sigs, At(u))
                       /\ In(entries', At(u)) = In(entries, At(u))
      BY <1>3, <2>1, <2>2 DEF PairStep
    <2>4. Installed(u)'
      BY <1>1, <2>3 DEF OutcomeOf, Installed, OnPair, PairWriters, PublishCalls, In,
         File, At
    <2>5. OnPair(u) => Matches(u)' = Matches(u) /\ Listing(At(u))' = Listing(At(u))
      BY <1>1, <2>3 DEF Matches, Listing
    <2>6. OnPair(u) =>
              /\ (\A x \in pkgs : ~SamePath(x, File(u))) =>
                     (\A x \in pkgs' : ~SamePath(x, File(u)))
              /\ (\A x \in sigs : ~SamePath(x, File(u))) =>
                     (\A x \in sigs' : ~SamePath(x, File(u)))
      BY <2>3 DEF In, SamePath, File, At
    <2>7. Delisted(u)'
      BY <1>1, <2>5, <2>6 DEF OutcomeOf, Delisted, OnPair, PairWriters, RemoveCalls,
         SamePath
    <2>8. SnapshotTrue(u)' /\ NothingLost(u)'
      BY <1>1, <2>1 DEF SnapshotTrue, NothingLost, OnTree, LifecycleWriters,
         LifecycleCalls
    <2>9. Truthful(u)'
      <3> SUFFICES ASSUME pc[u] = "unlock", reply[u] = "ok"
                   PROVE  Truthful(u)'
        BY <1>1 DEF Truthful
      <3>1. OnPair(u) /\ job[u].op \in {"publish", "remove"}
        BY <2>1 DEF OnPair, OnTree, ControlInv, JobsFit, PublishJobs, RemoveJobs
      <3>2. CASE job[u].op = "publish"
        <4>1. subject[u] \in Listing(At(u)) /\ File(u) \in pkgs
          BY <3>2 DEF OutcomeOf, Truthful
        <4>2. File(u) \in pkgs'
          BY <2>3, <3>1, <4>1 DEF In, File, At
        <4>3. QED
          BY <1>1, <2>5, <3>1, <3>2, <4>1, <4>2 DEF Truthful
      <3>3. CASE job[u].op = "remove"
        <4>1. Matches(u) = {} /\ \A x \in pkgs \cup sigs : ~SamePath(x, File(u))
          BY <3>3 DEF OutcomeOf, Truthful
        <4>2. \A x \in pkgs' \cup sigs' : ~SamePath(x, File(u))
          BY <2>6, <3>1, <4>1
        <4>3. QED
          BY <1>1, <2>5, <3>1, <3>3, <4>1, <4>2 DEF Truthful, SamePath
      <3>4. QED
        BY <3>1, <3>2, <3>3
    <2>10. QED
      BY <2>4, <2>7, <2>8, <2>9 DEF OutcomeOf
  <1>4. CASE pc[t] \in LifecycleWriters
    <2>1. ~OnPair(u) /\ ~OnTree(u)
      BY <1>4, HoldersExclude DEF OnTree
    <2>2. /\ pc[u] \notin {"sign", "add", "removeFile", "removeSig", "relabel", "purge"}
          /\ pc[u] # "unlock"
      BY <2>1 DEF OnPair, OnTree, PairWriters, LifecycleWriters, PublishCalls,
         RemoveCalls, LifecycleCalls, ControlInv, JobsFit, PublishJobs, RemoveJobs
    <2>3. QED
      BY <1>1, <2>2, NothingEstablished
  <1>5. QED
    BY <1>2, <1>3, <1>4, StepScope

-----------------------------------------------------------------------------
(* What a call makes of the disk for the handler that makes it.            *)

LEMMA RefuseOutcome ==
  ASSUME ControlInv, NEW t \in Threads, NEW from, NEW to, Refuse(t, from, to),
         to \in {"unlock", "cleanup", "undo", "discard"}
  PROVE  OutcomeOf(t)'
  <1>1. pc'[t] = to /\ reply'[t] = "error"
    BY DEF ControlInv, TypeOK, Refuse, Go, Answer
  <1>2. QED
    BY <1>1, NothingEstablished

LEMMA PlainOutcome ==
  ASSUME ControlInv, HandlerInv, NEW t \in Threads,
         \/ Begins(t) \/ ReceiveUpload(t) \/ LockForPublish(t) \/ Inspect(t)
         \/ MakeDirectory(t) \/ StatDestination(t) \/ AddFails(t)
         \/ UndoPackage(t) \/ UndoSignature(t) \/ Cleanup(t)
         \/ LockForRemove(t) \/ FindPackage(t) \/ RemoveEntryFails(t)
         \/ LockForLifecycle(t) \/ CheckRename(t) \/ MakeSnapshot(t)
         \/ DiscardSnapshot(t) \/ Unlock(t)
  PROVE  OutcomeOf(t)'
  <1> USE DEF ControlInv, TypeOK, HandlerInv, HandlerFits, Begin, Proceed, Refuse,
              RefuseRequest, Cancel, Go, Answer
  <1>1. CASE Begins(t) \/ LockForPublish(t) \/ LockForRemove(t) \/ LockForLifecycle(t)
    BY <1>1, NothingEstablished DEF Begins, BeginUpload, BeginRemove, BeginLifecycle,
       LockForPublish, LockForRemove, LockForLifecycle
  <1>2. CASE \/ ReceiveUpload(t) \/ Inspect(t) \/ MakeDirectory(t)
             \/ StatDestination(t) \/ AddFails(t)
    BY <1>2, NothingEstablished DEF ReceiveUpload, Inspect, MakeDirectory,
       StatDestination, AddFails
  <1>3. CASE UndoPackage(t) \/ UndoSignature(t) \/ Cleanup(t) \/ Unlock(t)
    BY <1>3, NothingEstablished DEF UndoPackage, AfterUndo, UndoSignature, Cleanup,
       Unlock
  <1>4. CASE FindPackage(t) \/ RemoveEntryFails(t)
    BY <1>4, NothingEstablished DEF FindPackage, RemoveEntryFails
  <1>5. CASE CheckRename(t) \/ MakeSnapshot(t) \/ DiscardSnapshot(t)
    BY <1>5, NothingEstablished DEF CheckRename, MakeSnapshot, DiscardSnapshot
  <1>6. QED
    BY <1>1, <1>2, <1>3, <1>4, <1>5

LEMMA InstallOutcome ==
  ASSUME ServiceInv, NEW t \in Threads, OutcomeOf(t),
         InstallPackage(t) \/ InstallSignature(t)
  PROVE  OutcomeOf(t)'
  <1> USE DEF ServiceInv, ControlInv, TypeOK, Go, context, request
  <1>1. CASE InstallPackage(t)
    <2>1. CASE Refuse(t, "install", "unlock")
      BY <2>1, RefuseOutcome
    <2>2. CASE pkgs' = Placed(pkgs, File(t)) /\ pc'[t] \in {"sign", "add"}
               /\ UNCHANGED <<job, subject>>
      BY <2>2 DEF Placed, OutcomeOf, Installed, Delisted, SnapshotTrue, NothingLost,
         Truthful, File
    <2>3. QED
      BY <1>1, <2>1, <2>2 DEF InstallPackage, AfterInstall
  <1>2. CASE InstallSignature(t)
    <2>1. CASE pc'[t] = "unlock" /\ reply'[t] = "error"
      BY <2>1, NothingEstablished
    <2>2. CASE pc[t] = "sign" /\ pc'[t] = "add" /\ UNCHANGED <<pkgs, job, subject>>
      BY <2>2 DEF OutcomeOf, Installed, Delisted, SnapshotTrue, NothingLost,
         Truthful, File
    <2>3. QED
      BY <1>2, <2>1, <2>2 DEF InstallSignature, Answer
  <1>3. QED
    BY <1>1, <1>2

(* What repo-add finds at the path of the package is that package.         *)
LEMMA AddedIsInstalled ==
  ASSUME ServiceInv, NEW t \in Threads, Installed(t), pc[t] = "add",
         NEW x \in pkgs, SamePath(x, File(t))
  PROVE  x = File(t) /\ x.up = subject[t]
  <1>1. x = File(t)
    BY DEF ServiceInv, DiskInv, PathsUnique, Installed
  <1>2. QED
    BY <1>1 DEF File

LEMMA AddEntryOutcome ==
  ASSUME ServiceInv, NEW t \in Threads, OutcomeOf(t), AddEntry(t)
  PROVE  OutcomeOf(t)'
  <1>1. PICK x \in pkgs : AddEntry(t)!(x)
    BY DEF AddEntry
  <1>2. /\ UNCHANGED <<pkgs, job, subject>> /\ pc[t] = "add"
        /\ SamePath(x, File(t))
        /\ entries' = (entries \ OfName(At(t), NameOf[x.up])) \cup {Entry(At(t), x.up)}
        /\ \/ pc'[t] = "undo"
           \/ pc'[t] = "unlock"
    BY <1>1 DEF ListPackage, Go, files, context, request, ServiceInv, ControlInv, TypeOK
  <1>3. CASE pc'[t] = "undo"
    BY <1>3, NothingEstablished
  <1>4. CASE pc'[t] = "unlock"
    <2>1. x = File(t) /\ x.up = subject[t] /\ File(t) \in pkgs
      BY <1>2, AddedIsInstalled DEF OutcomeOf
    <2>2. job[t].op = "publish"
      BY <1>2 DEF ServiceInv, ControlInv, JobsFit, PublishCalls, PublishJobs
    <2>3. Entry(At(t), subject[t]) \in entries'
      BY <1>2, <2>1
    <2>4. subject[t] \in Listing(At(t))'
      BY <1>2, <2>3 DEF Listing, In, Entry, At
    <2>5. Truthful(t)'
      BY <1>2, <2>1, <2>2, <2>4 DEF Truthful, File, At
    <2>6. QED
      BY <1>4, <2>5 DEF OutcomeOf, Installed, Delisted, SnapshotTrue, NothingLost
  <1>5. QED
    BY <1>2, <1>3, <1>4

LEMMA RemoveOutcome ==
  ASSUME ServiceInv, NEW t \in Threads, OutcomeOf(t),
         RemoveEntry(t) \/ RemoveFile(t) \/ RemoveSignature(t)
  PROVE  OutcomeOf(t)'
  <1> USE DEF ServiceInv, ControlInv, TypeOK, Go, context, request
  <1>1. CASE RemoveEntry(t)
    <2>1. /\ UNCHANGED <<job, subject>>
          /\ entries' = entries \ OfName(At(t), job[t].name)
          /\ \/ pc'[t] = "removeFile"
             \/ pc'[t] = "unlock" /\ reply'[t] = "error"
      BY <1>1 DEF RemoveEntry, DelistPackage, Answer
    <2>2. Matches(t)' = {}
      BY <2>1 DEF Matches, Listing, In, OfName, At
    <2>3. QED
      BY <2>1, <2>2, NothingEstablished DEF OutcomeOf, Installed, Delisted,
         SnapshotTrue, NothingLost, Truthful
  <1>2. CASE RemoveFile(t)
    <2>1. CASE Refuse(t, "removeFile", "unlock")
      BY <2>1, RefuseOutcome
    <2>2. CASE /\ pc[t] = "removeFile" /\ pc'[t] = "removeSig"
               /\ UNCHANGED <<job, subject, entries>>
               /\ pkgs' = Unlinked(pkgs, File(t))
      <3>1. Matches(t)' = Matches(t) /\ File(t)' = File(t)
        BY <2>2 DEF Matches, Listing, In, At, File
      <3>2. \A x \in pkgs' : ~SamePath(x, File(t))
        BY <2>2 DEF Unlinked, SamePath
      <3>3. QED
        BY <2>2, <3>1, <3>2 DEF OutcomeOf, Installed, Delisted, SnapshotTrue,
           NothingLost, Truthful, SamePath
    <2>3. QED
      BY <1>2, <2>1, <2>2 DEF RemoveFile, database
  <1>3. CASE RemoveSignature(t)
    <2>1. CASE Refuse(t, "removeSig", "unlock")
      BY <2>1, RefuseOutcome
    <2>2. CASE /\ pc[t] = "removeSig" /\ pc'[t] = "unlock"
               /\ UNCHANGED <<job, subject, entries, pkgs>>
               /\ sigs' = Unlinked(sigs, File(t))
      <3>1. Matches(t)' = Matches(t) /\ File(t)' = File(t)
        BY <2>2 DEF Matches, Listing, In, At, File
      <3>2. \A x \in pkgs' \cup sigs' : ~SamePath(x, File(t))
        BY <2>2 DEF Unlinked, SamePath, OutcomeOf, Delisted
      <3>3. job[t].op = "remove"
        BY <2>2 DEF JobsFit, RemoveCalls, RemoveJobs
      <3>4. QED
        BY <2>2, <3>1, <3>2, <3>3 DEF OutcomeOf, Installed, Delisted, SnapshotTrue,
           NothingLost, Truthful, SamePath
    <2>3. QED
      BY <1>3, <2>1, <2>2 DEF RemoveSignature, database
  <1>4. QED
    BY <1>1, <1>2, <1>3

LEMMA CreateOutcome ==
  ASSUME ServiceInv, NEW t \in Threads, Create(t)
  PROVE  OutcomeOf(t)'
  <1>1. CASE Refuse(t, "check", "unlock")
    BY <1>1, RefuseOutcome DEF ServiceInv
  <1>2. CASE /\ pc'[t] = "unlock" /\ UNCHANGED job /\ job[t].op = "create"
             /\ dirs' = dirs \cup {job[t].repo}
    BY <1>2 DEF OutcomeOf, Installed, Delisted, SnapshotTrue, NothingLost, Truthful
  <1>3. QED
    BY <1>1, <1>2 DEF Create, Go, context, request, ServiceInv, ControlInv, TypeOK

(* The names of the databases of a repository, hence of its entries.       *)
LEMMA EntriesNamed ==
  ASSUME ServiceInv, NEW e \in entries, e.repo \in Repos
  PROVE  e.name = e.repo
  BY DEF ServiceInv, DiskInv, TreeShape, DatabaseNamed

(* A directory without architecture directories holds nothing.             *)
LEMMA NothingUnder ==
  ASSUME ServiceInv, SideFiles, NEW dir, Under(archDirs, dir) = {}
  PROVE  /\ \A x \in pkgs \cup sigs \cup dbs \cup entries \cup cmdLocks : x.repo # dir
         /\ Under(pkgs, dir) = {} /\ Under(sigs, dir) = {} /\ Under(dbs, dir) = {}
         /\ Under(entries, dir) = {} /\ Under(cmdLocks, dir) = {}
  <1>1. \A place \in archDirs : place.repo # dir
    BY DEF Under
  <1>2. \A x \in pkgs \cup sigs \cup dbs \cup cmdLocks :
            PlaceOf(x) \in archDirs /\ PlaceOf(x).repo = x.repo
    BY DEF ServiceInv, DiskInv, TreeShape, SideFiles, PlaceOf
  <1>3. ASSUME NEW e \in entries
        PROVE  \E d \in dbs : d.repo = e.repo
    <2>1. [repo |-> e.repo, arch |-> e.arch, name |-> e.name] \in dbs
      BY DEF ServiceInv, DiskInv, TreeShape
    <2>2. QED
      BY <2>1
  <1>4. \A x \in pkgs \cup sigs \cup dbs \cup entries \cup cmdLocks : x.repo # dir
    BY <1>1, <1>2, <1>3
  <1>5. QED
    BY <1>4 DEF Under

(* What is where after the snapshot has been copied.                       *)
LEMMA SnapshotCopy ==
  ASSUME ServiceInv, SideFiles, NEW t \in Threads, pc[t] = "copy",
         CopyTree(job[t].repo, temp[t])
  PROVE  /\ job[t].repo \in Repos /\ temp[t] \in TempNames /\ job[t].repo # temp[t]
         /\ \A x \in pkgs \cup sigs \cup dbs \cup entries \cup cmdLocks : x.repo # temp[t]
         /\ pkgs' \subseteq Files /\ sigs' \subseteq Files
         /\ torn' \subseteq Places /\ entries' \subseteq Entries
         /\ \A x \in Files :
                /\ x \in pkgs' <=> \/ x \in pkgs
                                   \/ x.repo = temp[t] /\ FileIn(job[t].repo, x) \in pkgs
                /\ x \in sigs' <=> \/ x \in sigs
                                   \/ x.repo = temp[t] /\ FileIn(job[t].repo, x) \in sigs
         /\ \A p \in Places :
                p \in torn' <=> \/ p \in torn
                                \/ /\ p.repo = temp[t]
                                   /\ [repo |-> job[t].repo, arch |-> p.arch] \in torn
         /\ \A e \in Entries :
                e \in entries' <=> \/ e \in entries
                                   \/ /\ e.repo = temp[t] /\ e.name = job[t].repo
                                      /\ EntryIn(job[t].repo, e) \in entries
  <1> DEFINE from == job[t].repo
             to == temp[t]
  <1>1. from \in Repos /\ to \in TempNames /\ from \in Dirs /\ to \in Dirs /\ from # to
    BY ServiceAssumption DEF ServiceInv, ControlInv, JobsFit, Dirs, LifecycleCalls,
       RenameJobs
  <1>2. \A x \in pkgs \cup sigs \cup dbs \cup entries \cup cmdLocks : x.repo # temp[t]
    BY NothingUnder DEF ServiceInv, DiskInv, ThreadInv, SnapshotFresh
  <1>3. /\ pkgs \in SUBSET Files /\ sigs \in SUBSET Files /\ torn \in SUBSET Places
        /\ entries \in SUBSET Entries
    BY DEF ServiceInv, ControlInv, TypeOK
  <1>4. /\ pkgs' = pkgs \cup Copies(pkgs, from, to)
        /\ sigs' = sigs \cup Copies(sigs, from, to)
        /\ torn' = torn \cup Copies(torn, from, to)
        /\ entries' = entries \cup Copies(entries, from, to)
    BY DEF CopyTree
  <1>5. /\ Copies(pkgs, from, to) =
               {x \in Files : x.repo = to /\ FileIn(from, x) \in pkgs}
        /\ Copies(sigs, from, to) =
               {x \in Files : x.repo = to /\ FileIn(from, x) \in sigs}
    BY <1>1, <1>3, FileCopies DEF FileIn
  <1>6. Copies(torn, from, to) =
            {p \in Places : p.repo = to /\ [repo |-> from, arch |-> p.arch] \in torn}
    BY <1>1, <1>3, PlaceCopies
  <1>7. Copies(entries, from, to) =
            {e \in Entries : /\ e.repo = to /\ e.name = from
                             /\ EntryIn(from, e) \in entries}
    <2>1. ASSUME NEW e \in Entries
          PROVE  LET g == [repo |-> from, arch |-> e.arch, name |-> e.name, up |-> e.up]
                 IN  g \in entries <=> e.name = from /\ EntryIn(from, e) \in entries
      <3> DEFINE g == [repo |-> from, arch |-> e.arch, name |-> e.name, up |-> e.up]
      <3>1. g \in entries => g.name = from
        BY <1>1, EntriesNamed
      <3>2. e.name = from => g = EntryIn(from, e)
        BY DEF EntryIn
      <3>3. QED
        BY <3>1, <3>2
    <2>2. Copies(entries, from, to) =
            {e \in Entries : /\ e.repo = to
                             /\ [repo |-> from, arch |-> e.arch,
                                 name |-> e.name, up |-> e.up] \in entries}
      BY <1>1, <1>3, EntryCopies
    <2>3. QED
      BY <2>1, <2>2
  <1>8. /\ pkgs' \subseteq Files /\ sigs' \subseteq Files
        /\ torn' \subseteq Places /\ entries' \subseteq Entries
    BY <1>3, <1>4, <1>5, <1>6, <1>7
  <1>9. \A x \in Files :
          /\ x \in pkgs' <=> x \in pkgs \/ (x.repo = to /\ FileIn(from, x) \in pkgs)
          /\ x \in sigs' <=> x \in sigs \/ (x.repo = to /\ FileIn(from, x) \in sigs)
    BY <1>4, <1>5
  <1>10. \A p \in Places :
           p \in torn' <=> \/ p \in torn
                           \/ p.repo = to /\ [repo |-> from, arch |-> p.arch] \in torn
    BY <1>4, <1>6
  <1>11. \A e \in Entries :
           e \in entries' <=> \/ e \in entries
                              \/ e.repo = to /\ e.name = from /\ EntryIn(from, e) \in entries
    BY <1>4, <1>7
  <1>12. QED
    BY <1>1, <1>2, <1>8, <1>9, <1>10, <1>11

LEMMA CopyOutcome ==
  ASSUME ServiceInv, SideFiles, NEW t \in Threads, CopySnapshot(t)
  PROVE  OutcomeOf(t)'
  <1> DEFINE from == job[t].repo
             to == temp[t]
  <1>1. CASE Refuse(t, "copy", "discard")
    BY <1>1, RefuseOutcome DEF ServiceInv
  <1>2. CASE ~Refuse(t, "copy", "discard")
    <2>1. /\ CopyTree(from, to) /\ UNCHANGED <<job, temp>>
          /\ pc[t] = "copy" /\ pc'[t] = "relabel"
      BY <1>2 DEF CopySnapshot, Go, context, request, ServiceInv, ControlInv, TypeOK
    <2>2. /\ from # to
          /\ \A x \in pkgs \cup sigs \cup entries : x.repo # to
          /\ pkgs' \subseteq Files /\ sigs' \subseteq Files /\ entries' \subseteq Entries
          /\ \A x \in Files :
               /\ x \in pkgs' <=> x \in pkgs \/ (x.repo = to /\ FileIn(from, x) \in pkgs)
               /\ x \in sigs' <=> x \in sigs \/ (x.repo = to /\ FileIn(from, x) \in sigs)
          /\ \A e \in Entries :
               e \in entries' <=> \/ e \in entries
                                  \/ e.repo = to /\ e.name = from /\ EntryIn(from, e) \in entries
      BY <2>1, SnapshotCopy
    <2>3. Copies(pkgs', from, to) \subseteq pkgs' /\ Copies(sigs', from, to) \subseteq sigs'
      <3>1. Under(pkgs', from) = Under(pkgs, from) /\ Under(sigs', from) = Under(sigs, from)
        BY <2>2 DEF Under, ServiceInv, ControlInv, TypeOK
      <3>2. /\ Copies(pkgs', from, to) = Copies(pkgs, from, to)
            /\ Copies(sigs', from, to) = Copies(sigs, from, to)
        BY <3>1 DEF Copies
      <3>3. QED
        BY <2>1, <3>2 DEF CopyTree
    <2>4. ASSUME NEW x \in Under(pkgs', to)
          PROVE  FileIn(from, x) \in pkgs'
      BY <2>2 DEF Under, ServiceInv, ControlInv, TypeOK
    <2>5. ASSUME NEW e \in Under(entries', to)
          PROVE  EntryIn(from, e) \in entries'
      BY <2>2 DEF Under, ServiceInv, ControlInv, TypeOK
    <2>6. ASSUME NEW e \in Under(entries', from)
          PROVE  \E f \in Under(entries', to) : f.arch = e.arch /\ f.up = e.up
      <3> DEFINE f == [repo |-> to, arch |-> e.arch, name |-> from, up |-> e.up]
      <3>1. e \in entries /\ e.repo = from /\ e \in Entries /\ from \in Repos
        BY <2>1, <2>2, SnapshotCopy DEF Under
      <3>2. e = EntryIn(from, f)
        BY <3>1, EntriesNamed DEF EntryIn, Entries
      <3>3. f \in Entries
        BY <2>1, <3>1, SnapshotCopy DEF Entries, Dirs
      <3>4. f \in Under(entries', to)
        BY <2>2, <3>1, <3>2, <3>3 DEF Under
      <3>5. QED
        BY <3>4
    <2>7. SnapshotTrue(t)'
      BY <2>1, <2>3, <2>4, <2>5, <2>6 DEF SnapshotTrue
    <2>8. QED
      BY <2>1, <2>7 DEF OutcomeOf, Installed, Delisted, NothingLost, Truthful
  <1>3. QED
    BY <1>1, <1>2

LEMMA RelabelledEntries ==
  ASSUME NEW E \in SUBSET Entries, NEW d \in Databases, NEW name \in Repos
  PROVE  /\ \A f \in Relabelled(E, d, name) : f \in Entries
         /\ \A f \in Relabelled(E, d, name) : \E e \in E :
                /\ f.repo = e.repo /\ f.arch = e.arch /\ f.up = e.up
                /\ f = e \/ e.repo = d.repo
         /\ \A e \in E : \E f \in Relabelled(E, d, name) :
                /\ f.repo = e.repo /\ f.arch = e.arch /\ f.up = e.up
                /\ f = e \/ e.repo = d.repo
  <1> DEFINE new(x) == IF x.repo = d.repo /\ x.arch = d.arch /\ x.name = d.name
                       THEN [x EXCEPT !.name = name] ELSE x
  <1>1. \A x \in E : /\ new(x) \in Entries
                     /\ new(x).repo = x.repo /\ new(x).arch = x.arch /\ new(x).up = x.up
                     /\ new(x) = x \/ x.repo = d.repo
    BY DEF Entries
  <1>2. Relabelled(E, d, name) = {new(x) : x \in E}
    BY DEF Relabelled
  <1> HIDE DEF new
  <1>3. QED
    BY <1>1, <1>2

(* Relabelling changes no file, and no more than the name of an entry of   *)
(* the snapshot.                                                           *)
LEMMA RelabelOutcome ==
  ASSUME ServiceInv, NEW t \in Threads, OutcomeOf(t), RelabelDatabase(t)
  PROVE  OutcomeOf(t)'
  <1> DEFINE from == job[t].repo
             to == temp[t]
  <1>1. CASE Refuse(t, "relabel", "discard")
    BY <1>1, RefuseOutcome DEF ServiceInv
  <1>2. CASE ~Refuse(t, "relabel", "discard")
    <2>1. PICK d \in Unlabelled(t) :
            /\ entries' = Relabelled(entries, d, job[t].to)
            /\ pc[t] = "relabel" /\ pc'[t] \in {"relabel", "discard"}
            /\ pc'[t] = "discard" => reply'[t] = "error"
            /\ UNCHANGED <<pkgs, sigs, job, temp>>
      BY <1>2 DEF RelabelDatabase, Go, Answer, files, context, request,
         ServiceInv, ControlInv, TypeOK
    <2>2. CASE pc'[t] = "discard"
      BY <2>1, <2>2, NothingEstablished
    <2>3. CASE pc'[t] = "relabel"
      <3>1. d.repo = to /\ from # to
        BY <2>1, ServiceAssumption DEF Unlabelled, Under, ServiceInv, ControlInv,
           JobsFit, LifecycleCalls, RenameJobs
      <3>2. entries \in SUBSET Entries
        BY DEF ServiceInv, ControlInv, TypeOK
      <3>3. /\ entries' \in SUBSET Entries
            /\ \A f \in entries' : \E e \in entries :
                   /\ f.repo = e.repo /\ f.arch = e.arch /\ f.up = e.up
                   /\ f = e \/ e.repo = to
            /\ \A e \in entries : \E f \in entries' :
                   /\ f.repo = e.repo /\ f.arch = e.arch /\ f.up = e.up
                   /\ f = e \/ e.repo = to
        <4>1. d \in Databases /\ job[t].to \in Repos
          BY <2>1 DEF Unlabelled, Under, ServiceInv, ControlInv, TypeOK, JobsFit,
             LifecycleCalls, RenameJobs
        <4>2. QED
          BY <2>1, <3>1, <3>2, <4>1, RelabelledEntries
      <3>5. SnapshotTrue(t)
        BY DEF OutcomeOf
      <3>6. ASSUME NEW f \in Under(entries', to)
            PROVE  EntryIn(from, f) \in entries'
        <4>1. PICK e \in Under(entries, to) : f.arch = e.arch /\ f.up = e.up
          BY <3>3 DEF Under
        <4>2. EntryIn(from, f) = EntryIn(from, e) /\ EntryIn(from, f).repo = from
          BY <4>1 DEF EntryIn
        <4>3. EntryIn(from, e) \in entries
          BY <2>1, <3>5 DEF SnapshotTrue
        <4>4. QED
          BY <3>1, <3>3, <4>2, <4>3
      <3>7. ASSUME NEW e \in Under(entries', from)
            PROVE  \E f \in Under(entries', to) : f.arch = e.arch /\ f.up = e.up
        <4>1. e \in Under(entries, from)
          BY <3>1, <3>3 DEF Under
        <4>2. PICK g \in Under(entries, to) : g.arch = e.arch /\ g.up = e.up
          BY <2>1, <3>5, <4>1 DEF SnapshotTrue
        <4>3. QED
          BY <3>3, <4>2 DEF Under
      <3>8. SnapshotTrue(t)'
        BY <2>1, <3>5, <3>6, <3>7 DEF SnapshotTrue
      <3>9. QED
        BY <2>3, <3>8 DEF OutcomeOf, Installed, Delisted, NothingLost, Truthful
    <2>4. QED
      BY <2>1, <2>2, <2>3
  <1>3. QED
    BY <1>1, <1>2

(* What is where after the snapshot has been moved to its new name.        *)
LEMMA SnapshotMove ==
  ASSUME ServiceInv, HandlerInv, SideFiles, NEW t \in Threads, pc[t] = "relabel",
         job[t].to \notin dirs, ~Relabelling(t), MoveTree(temp[t], job[t].to)
  PROVE  /\ job[t].repo \in Repos /\ job[t].to \in Repos /\ temp[t] \in TempNames
         /\ job[t].repo # job[t].to /\ temp[t] \notin Repos
         /\ \A x \in pkgs \cup sigs \cup dbs \cup entries \cup cmdLocks : x.repo # job[t].to
         /\ \A e \in entries : e.repo = temp[t] => e.name = job[t].to
         /\ pkgs' \subseteq Files /\ sigs' \subseteq Files
         /\ torn' \subseteq Places /\ entries' \subseteq Entries
         /\ \A x \in Files :
                /\ x \in pkgs' <=> \/ x.repo # temp[t] /\ x \in pkgs
                                   \/ x.repo = job[t].to /\ FileIn(temp[t], x) \in pkgs
                /\ x \in sigs' <=> \/ x.repo # temp[t] /\ x \in sigs
                                   \/ x.repo = job[t].to /\ FileIn(temp[t], x) \in sigs
         /\ \A p \in Places :
                p \in torn' <=> \/ p.repo # temp[t] /\ p \in torn
                                \/ /\ p.repo = job[t].to
                                   /\ [repo |-> temp[t], arch |-> p.arch] \in torn
         /\ \A e \in Entries :
                e \in entries' <=> \/ e.repo # temp[t] /\ e \in entries
                                   \/ /\ e.repo = job[t].to /\ e.name = job[t].to
                                      /\ [repo |-> temp[t], arch |-> e.arch,
                                          name |-> job[t].to, up |-> e.up] \in entries
  <1> DEFINE from == temp[t]
             to == job[t].to
  <1>1. job[t].repo \in Repos /\ to \in Repos /\ from \in TempNames
        /\ job[t].repo # to /\ from \notin Repos /\ from \in Dirs /\ to \in Dirs
    BY ServiceAssumption DEF ServiceInv, ControlInv, JobsFit, Dirs, LifecycleCalls,
       RenameJobs, HandlerInv, HandlerFits
  <1>2. \A x \in pkgs \cup sigs \cup dbs \cup entries \cup cmdLocks : x.repo # to
    <2>1. Under(archDirs, to) = {}
      BY DEF ServiceInv, DiskInv, TreeShape, Under
    <2>2. QED
      BY <2>1, NothingUnder
  <1>3. ASSUME NEW e \in entries, e.repo = from
        PROVE  e.name = to
    <2> DEFINE d == [repo |-> e.repo, arch |-> e.arch, name |-> e.name]
    <2>1. d \in Under(dbs, from) /\ d.name = e.name
      BY <1>3 DEF ServiceInv, DiskInv, TreeShape, Under
    <2>2. d.name \in {job[t].repo, to}
      BY <2>1 DEF ServiceInv, DiskInv, ThreadInv, SnapshotFresh
    <2>3. d.name # job[t].repo
      BY <2>1 DEF Relabelling, Unlabelled
    <2>4. QED
      BY <2>1, <2>2, <2>3
  <1>4. /\ pkgs \in SUBSET Files /\ sigs \in SUBSET Files /\ torn \in SUBSET Places
        /\ entries \in SUBSET Entries
    BY DEF ServiceInv, ControlInv, TypeOK
  <1>5. /\ pkgs' = Outside(pkgs, from) \cup Copies(pkgs, from, to)
        /\ sigs' = Outside(sigs, from) \cup Copies(sigs, from, to)
        /\ torn' = Outside(torn, from) \cup Copies(torn, from, to)
        /\ entries' = Outside(entries, from) \cup Copies(entries, from, to)
    BY DEF MoveTree, Moved
  <1>6. ASSUME NEW S \in SUBSET Files
        PROVE  Copies(S, from, to) = {x \in Files : x.repo = to /\ FileIn(from, x) \in S}
    BY <1>1, <1>6, FileCopies DEF FileIn
  <1>7. Copies(torn, from, to) =
            {p \in Places : p.repo = to /\ [repo |-> from, arch |-> p.arch] \in torn}
    BY <1>1, <1>4, PlaceCopies
  <1>8. Copies(entries, from, to) =
            {e \in Entries : /\ e.repo = to /\ e.name = to
                             /\ [repo |-> from, arch |-> e.arch,
                                 name |-> to, up |-> e.up] \in entries}
    <2>1. ASSUME NEW e \in Entries
          PROVE  LET g == [repo |-> from, arch |-> e.arch, name |-> e.name, up |-> e.up]
                 IN  g \in entries <=> /\ e.name = to
                                      /\ [repo |-> from, arch |-> e.arch,
                                          name |-> to, up |-> e.up] \in entries
      <3> DEFINE g == [repo |-> from, arch |-> e.arch, name |-> e.name, up |-> e.up]
      <3>1. g \in entries => g.name = to
        BY <1>3
      <3>2. QED
        BY <3>1
    <2>2. Copies(entries, from, to) =
            {e \in Entries : /\ e.repo = to
                             /\ [repo |-> from, arch |-> e.arch,
                                 name |-> e.name, up |-> e.up] \in entries}
      BY <1>1, <1>4, EntryCopies
    <2>3. QED
      BY <2>1, <2>2
  <1>9. /\ pkgs' \subseteq Files /\ sigs' \subseteq Files
        /\ torn' \subseteq Places /\ entries' \subseteq Entries
    BY <1>4, <1>5, <1>6, <1>7, <1>8 DEF Outside
  <1>10. \A x \in Files :
           /\ x \in pkgs' <=> \/ x.repo # from /\ x \in pkgs
                              \/ x.repo = to /\ FileIn(from, x) \in pkgs
           /\ x \in sigs' <=> \/ x.repo # from /\ x \in sigs
                              \/ x.repo = to /\ FileIn(from, x) \in sigs
    BY <1>4, <1>5, <1>6 DEF Outside
  <1>11. \A p \in Places :
           p \in torn' <=> \/ p.repo # from /\ p \in torn
                           \/ p.repo = to /\ [repo |-> from, arch |-> p.arch] \in torn
    BY <1>4, <1>5, <1>7 DEF Outside
  <1>12. \A e \in Entries : e \in entries' <=>
            \/ e.repo # from /\ e \in entries
            \/ /\ e.repo = to /\ e.name = to
               /\ [repo |-> from, arch |-> e.arch, name |-> to, up |-> e.up] \in entries
    BY <1>4, <1>5, <1>8 DEF Outside
  <1>13. QED
    BY <1>1, <1>2, <1>3, <1>9, <1>10, <1>11, <1>12

LEMMA InstallSnapshotOutcome ==
  ASSUME ServiceInv, HandlerInv, SideFiles, NEW t \in Threads, OutcomeOf(t),
         InstallSnapshot(t)
  PROVE  OutcomeOf(t)'
  <1> DEFINE old == job[t].repo
             from == temp[t]
             to == job[t].to
  <1>1. CASE Refuse(t, "relabel", "discard")
    BY <1>1, RefuseOutcome DEF ServiceInv
  <1>2. CASE ~Refuse(t, "relabel", "discard")
    <2>1. /\ MoveTree(from, to) /\ to \notin dirs /\ ~Relabelling(t)
          /\ UNCHANGED <<job, temp>> /\ pc[t] = "relabel" /\ pc'[t] = "purge"
      BY <1>2 DEF InstallSnapshot, Go, context, request, ServiceInv, ControlInv, TypeOK
    <2>2. /\ old \in Repos /\ to \in Repos /\ from \in TempNames
          /\ old # to /\ from \notin Repos
          /\ \A e \in entries : e.repo = from => e.name = to
          /\ pkgs' \subseteq Files /\ sigs' \subseteq Files /\ entries' \subseteq Entries
          /\ \A x \in Files :
               /\ x \in pkgs' <=> \/ x.repo # from /\ x \in pkgs
                                  \/ x.repo = to /\ FileIn(from, x) \in pkgs
               /\ x \in sigs' <=> \/ x.repo # from /\ x \in sigs
                                  \/ x.repo = to /\ FileIn(from, x) \in sigs
          /\ \A e \in Entries : e \in entries' <=>
               \/ e.repo # from /\ e \in entries
               \/ /\ e.repo = to /\ e.name = to
                  /\ [repo |-> from, arch |-> e.arch, name |-> to, up |-> e.up] \in entries
      BY <2>1, SnapshotMove
    <2>3. /\ pkgs \in SUBSET Files /\ sigs \in SUBSET Files /\ entries \in SUBSET Entries
          /\ old \in Dirs /\ to \in Dirs /\ from \in Dirs
      BY <2>2 DEF ServiceInv, ControlInv, TypeOK, Dirs
    <2>4. SnapshotTrue(t)
      BY DEF OutcomeOf
    <2>5. ASSUME NEW S \in SUBSET Files, Copies(S, old, from) \subseteq S,
                 NEW T \in SUBSET Files,
                 \A x \in Files : x \in T <=> \/ x.repo # from /\ x \in S
                                              \/ x.repo = to /\ FileIn(from, x) \in S
          PROVE  Copies(T, old, to) \subseteq T
      <3>2. Copies(T, old, to) = {x \in Files : x.repo = to /\ FileIn(old, x) \in T}
        BY <2>3, FileCopies DEF FileIn
      <3>3. Copies(S, old, from) = {x \in Files : x.repo = from /\ FileIn(old, x) \in S}
        BY <2>3, <2>5, FileCopies DEF FileIn
      <3>4. ASSUME NEW x \in Files, x.repo = to, FileIn(old, x) \in T
            PROVE  x \in T
        <4>1. FileIn(old, x) \in S
          BY <2>2, <2>5, <3>4 DEF FileIn
        <4>2. FileIn(from, x) \in Files /\ FileIn(from, x).repo = from
              /\ FileIn(old, FileIn(from, x)) = FileIn(old, x)
          BY <2>3 DEF FileIn, Files
        <4>3. FileIn(from, x) \in S
          BY <2>5, <3>3, <4>1, <4>2
        <4>4. QED
          BY <2>5, <3>4, <4>3
      <3>5. QED
        BY <3>2, <3>4
    <2>6. Copies(pkgs', old, to) \subseteq pkgs' /\ Copies(sigs', old, to) \subseteq sigs'
      <3>1. Copies(pkgs, old, from) \subseteq pkgs /\ Copies(sigs, old, from) \subseteq sigs
        BY <2>1, <2>4 DEF SnapshotTrue
      <3>2. QED
        BY <2>2, <2>3, <2>5, <3>1
    <2>7. ASSUME NEW e \in Under(entries', old)
          PROVE  EntryIn(to, e) \in entries'
      <3>1. e \in Under(entries, old)
        BY <2>2 DEF Under
      <3>2. PICK f \in Under(entries, from) : f.arch = e.arch /\ f.up = e.up
        BY <2>1, <2>4, <3>1 DEF SnapshotTrue
      <3>3. f \in Entries /\ f \in entries /\ f.repo = from /\ f.name = to
        BY <2>2, <2>3, <3>2 DEF Under
      <3>4. f = [repo |-> from, arch |-> e.arch, name |-> to, up |-> e.up]
        BY <3>2, <3>3 DEF Entries
      <3>5. EntryIn(to, e) \in Entries
        BY <2>2, <2>3, <3>2, <3>3 DEF EntryIn, Entries
      <3>6. QED
        BY <2>2, <3>3, <3>4, <3>5 DEF EntryIn
    <2>8. to \in dirs' /\ from \notin dirs'
      BY <2>1, <2>2 DEF MoveTree
    <2>9. NothingLost(t)'
      BY <2>1, <2>6, <2>7, <2>8 DEF NothingLost
    <2>10. QED
      BY <2>1, <2>9 DEF OutcomeOf, Installed, Delisted, SnapshotTrue, Truthful
  <1>3. QED
    BY <1>1, <1>2

LEMMA CheckRepositoryOutcome ==
  ASSUME ServiceInv, NEW t \in Threads, CheckRepository(t)
  PROVE  OutcomeOf(t)'
  <1>1. \/ pc'[t] = "purge" /\ job'[t].op = "removeRepository"
        \/ pc'[t] = "unlock" /\ reply'[t] = "error"
    BY DEF CheckRepository, Proceed, Refuse, Go, Answer, context, request,
       ServiceInv, ControlInv, TypeOK
  <1>2. QED
    BY <1>1 DEF OutcomeOf, Installed, Delisted, SnapshotTrue, NothingLost, Truthful

(* Whatever a purge takes is under the name that is going away.            *)
LEMMA PurgeTakesOld ==
  ASSUME ServiceInv, NEW t \in Threads, PurgeFile(t)
  PROVE  /\ pkgs' \subseteq pkgs /\ \A x \in pkgs \ pkgs' : x.repo = job[t].repo
         /\ sigs' \subseteq sigs /\ \A x \in sigs \ sigs' : x.repo = job[t].repo
         /\ entries' \subseteq entries
         /\ \A e \in entries \ entries' : e.repo = job[t].repo
  BY DEF PurgeFile, files, database, Under, ListedIn, In, PlaceOf

LEMMA PurgeKeepsNew ==
  ASSUME ServiceInv, HandlerInv, NEW t \in Threads, NothingLost(t), pc[t] = "purge",
         PurgeFile(t) \/ PurgeArchitecture(t)
  PROVE  NothingLost(t)'
  <1> DEFINE old == job[t].repo
             to == job[t].to
  <1>1. SUFFICES ASSUME job[t].op = "rename"
                 PROVE  NothingLost(t)'
    BY DEF PurgeFile, PurgeArchitecture, context, request, NothingLost
  <1>2. /\ pkgs' \subseteq pkgs /\ \A x \in pkgs \ pkgs' : x.repo = old
        /\ sigs' \subseteq sigs /\ \A x \in sigs \ sigs' : x.repo = old
        /\ entries' \subseteq entries
        /\ \A e \in entries \ entries' : e.repo = old
    BY PurgeTakesOld DEF PurgeArchitecture, files, database
  <1>3. UNCHANGED <<job, temp, dirs>>
    BY DEF PurgeFile, PurgeArchitecture, context, request, folders
  <1>4. /\ old \in Repos /\ to \in Repos /\ old # to /\ old \in Dirs /\ to \in Dirs
        /\ pkgs \in SUBSET Files /\ sigs \in SUBSET Files
    BY <1>1 DEF ServiceInv, ControlInv, TypeOK, JobsFit, LifecycleCalls, LifecycleJobs,
       RenameJobs, CreateJobs, DeleteJobs, HandlerInv, HandlerFits, Dirs
  <1>5. ASSUME NEW S \in SUBSET Files, NEW T \in SUBSET S,
               \A x \in S \ T : x.repo = old, Copies(S, old, to) \subseteq S
        PROVE  Copies(T, old, to) \subseteq T
    <2>1. T \in SUBSET Files
      OBVIOUS
    <2>2. Copies(S, old, to) = {x \in Files : x.repo = to /\ FileIn(old, x) \in S}
      BY <1>4, FileCopies DEF FileIn
    <2>3. Copies(T, old, to) = {x \in Files : x.repo = to /\ FileIn(old, x) \in T}
      BY <1>4, <2>1, FileCopies DEF FileIn
    <2>4. QED
      BY <1>4, <1>5, <2>2, <2>3
  <1>6. /\ Copies(pkgs', old, to) \subseteq pkgs'
        /\ Copies(sigs', old, to) \subseteq sigs'
    BY <1>1, <1>2, <1>4, <1>5 DEF NothingLost
  <1>7. ASSUME NEW e \in Under(entries', old)
        PROVE  EntryIn(to, e) \in entries'
    <2>1. EntryIn(to, e) \in entries /\ EntryIn(to, e).repo = to
      BY <1>1, <1>2 DEF NothingLost, Under, EntryIn
    <2>2. QED
      BY <1>2, <1>4, <2>1
  <1>8. to \in dirs /\ temp[t] \notin dirs
    BY <1>1 DEF NothingLost
  <1>9. QED
    BY <1>3, <1>6, <1>7, <1>8 DEF NothingLost

LEMMA PurgeOutcome ==
  ASSUME ServiceInv, HandlerInv, SideFiles, NEW t \in Threads, OutcomeOf(t),
         PurgeFile(t) \/ PurgeArchitecture(t) \/ PurgeRepository(t)
  PROVE  OutcomeOf(t)'
  <1> USE DEF ServiceInv, ControlInv, TypeOK, Go
  <1>1. CASE PurgeFile(t) \/ PurgeArchitecture(t)
    <2>1. pc[t] = "purge" /\ pc'[t] = "purge"
      BY <1>1 DEF PurgeFile, PurgeArchitecture
    <2>2. NothingLost(t)'
      BY <1>1, <2>1, PurgeKeepsNew DEF OutcomeOf
    <2>3. QED
      BY <2>1, <2>2 DEF OutcomeOf, Installed, Delisted, SnapshotTrue, Truthful
  <1>2. CASE Refuse(t, "purge", "unlock")
    BY <1>2, RefuseOutcome
  <1>3. CASE PurgeRepository(t) /\ ~Refuse(t, "purge", "unlock")
    <2>1. /\ pc[t] = "purge" /\ pc'[t] = "unlock"
          /\ Under(archDirs, job[t].repo) = {} /\ dirs' = dirs \ {job[t].repo}
          /\ UNCHANGED <<archDirs, pkgs, sigs, dbs, entries, cmdLocks, job>>
      BY <1>3 DEF PurgeRepository, files, database, marks, context, request
    <2>2. Gone(job[t].repo)'
      <3>1. /\ Under(pkgs, job[t].repo) = {} /\ Under(sigs, job[t].repo) = {}
            /\ Under(dbs, job[t].repo) = {} /\ Under(entries, job[t].repo) = {}
            /\ Under(cmdLocks, job[t].repo) = {}
        BY <2>1, NothingUnder
      <3>2. QED
        BY <2>1, <3>1 DEF Gone, Under
    <2>3. job[t] \in RenameJobs \cup DeleteJobs
      BY <2>1 DEF HandlerInv, HandlerFits
    <2>4. job[t] \in RenameJobs => job[t].to \in dirs'
      BY <2>1 DEF OutcomeOf, NothingLost, HandlerInv, HandlerFits, RenameJobs
    <2>5. Truthful(t)'
      BY <2>1, <2>2, <2>3, <2>4 DEF Truthful, RenameJobs, DeleteJobs
    <2>6. QED
      BY <2>1, <2>5 DEF OutcomeOf, Installed, Delisted, SnapshotTrue, NothingLost
  <1>4. QED
    BY <1>1, <1>2, <1>3 DEF PurgeRepository

LEMMA OutcomesInductive ==
  ASSUME ServiceInv, OutcomeInv, [Next]_vars, NEW u \in Threads
  PROVE  OutcomeOf(u)'
  <1> USE DEF OutcomeInv
  <1>1. ASSUME NEW t \in Threads, Begins(t) \/ Step(t)
        PROVE  OutcomeOf(u)'
    <2>1. CASE u # t
      BY <1>1, <2>1, OthersOutcome
    <2>2. CASE u = t /\ (Begins(t) \/ Unlock(t))
      BY <2>2, PlainOutcome DEF ServiceInv
    <2>3. CASE u = t /\ PublishStep(t)
      BY <2>3, PlainOutcome, InstallOutcome, AddEntryOutcome DEF PublishStep, ServiceInv
    <2>4. CASE u = t /\ RemoveStep(t)
      BY <2>4, PlainOutcome, RemoveOutcome DEF RemoveStep, ServiceInv
    <2>5. CASE u = t /\ LifecycleStep(t)
      BY <2>5, PlainOutcome, CreateOutcome, CopyOutcome, RelabelOutcome,
         InstallSnapshotOutcome, CheckRepositoryOutcome, PurgeOutcome
         DEF LifecycleStep, ServiceInv
    <2>6. QED
      BY <1>1, <2>1, <2>2, <2>3, <2>4, <2>5 DEF Step
  <1>2. CASE \E process \in Processes : Crash(process)
    <2> PICK process \in Processes : Crash(process)
      BY <1>2
    <2>1. CASE ProcessOf[u] = process
      <3>1. pc'[u] = "idle"
        BY <2>1 DEF Crash
      <3>2. QED
        BY <3>1, NothingEstablished
    <2>2. CASE ProcessOf[u] # process
      <3>1. /\ pc'[u] = pc[u] /\ job'[u] = job[u] /\ subject'[u] = subject[u]
            /\ temp'[u] = temp[u] /\ reply'[u] = reply[u]
            /\ UNCHANGED <<dirs, archDirs, pkgs, sigs, dbs, entries>>
        BY <2>2 DEF Crash, folders, files, database
      <3>2. ASSUME OnTree(u)
            PROVE  UNCHANGED cmdLocks
        <4>1. \A v \in Threads : v # u => ~InCommand(v)
          BY <3>2, HoldersExclude DEF ServiceInv, InCommand, OnPair, PairWriters,
             PublishCalls, RemoveCalls
        <4>2. {Database(At(v)) : v \in {w \in {x \in Threads : ProcessOf[x] = process} :
                                InCommand(w)}} = {}
          BY <2>2, <4>1
        <4>3. QED
          BY <4>2 DEF Crash
      <3>3. QED
        BY <3>1, <3>2, SameOutcome
    <2>3. QED
      BY <2>1, <2>2
  <1>3. CASE Rest \/ UNCHANGED vars
    BY <1>3, SameOutcome DEF Rest, vars, request, disk, folders, files, database, marks
  <1>4. QED
    BY <1>1, <1>2, <1>3 DEF Next

-----------------------------------------------------------------------------
(* Signatures and command locks have a directory to be in.                 *)

(* The directory that the database of a pair is in.                        *)
LEMMA DatabasePlaced ==
  ASSUME NEW t \in Threads
  PROVE  PlaceOf(Database(At(t))) = At(t)
  BY DEF PlaceOf, Database, At

LEMMA LocksPlaced ==
  ASSUME NEW S \in SUBSET Databases, NEW A \in SUBSET Places, NEW from \in Dirs,
         NEW to \in Dirs, \A l \in S : PlaceOf(l) \in A
  PROVE  \A l \in Copies(S, from, to) : PlaceOf(l) \in Copies(A, from, to)
  <1> SUFFICES ASSUME NEW l \in Copies(S, from, to)
               PROVE  PlaceOf(l) \in Copies(A, from, to)
    OBVIOUS
  <1> DEFINE k == [repo |-> from, arch |-> l.arch, name |-> l.name]
  <1>1. l \in Databases /\ l.repo = to /\ k \in S
    BY DatabaseCopies
  <1>2. PlaceOf(k) \in A /\ PlaceOf(k) = [repo |-> from, arch |-> l.arch]
    BY <1>1 DEF PlaceOf
  <1>3. PlaceOf(l) \in Places /\ PlaceOf(l).repo = to /\ PlaceOf(l).arch = l.arch
    BY <1>1 DEF PlaceOf, Places, Databases
  <1>4. QED
    BY <1>2, <1>3, PlaceCopies

LEMMA CopiesPlaced ==
  ASSUME NEW S \in SUBSET Files, NEW A \in SUBSET Places, NEW from \in Dirs,
         NEW to \in Dirs, \A x \in S : PlaceOf(x) \in A
  PROVE  \A x \in Copies(S, from, to) : PlaceOf(x) \in Copies(A, from, to)
  <1> SUFFICES ASSUME NEW x \in Copies(S, from, to)
               PROVE  PlaceOf(x) \in Copies(A, from, to)
    OBVIOUS
  <1> DEFINE y == [repo |-> from, arch |-> x.arch, up |-> x.up]
  <1>1. x \in Files /\ x.repo = to /\ y \in S
    BY FileCopies
  <1>2. PlaceOf(y) \in A /\ PlaceOf(y) = [repo |-> from, arch |-> x.arch]
    BY <1>1 DEF PlaceOf
  <1>3. PlaceOf(x) \in Places /\ PlaceOf(x).repo = to /\ PlaceOf(x).arch = x.arch
    BY <1>1 DEF PlaceOf, Places, Files
  <1>4. QED
    BY <1>2, <1>3, PlaceCopies

(* A command works in a directory that is there.                           *)
LEMMA CommandDirectory ==
  ASSUME ServiceInv, NEW v \in Threads, pc[v] \in {"add", "removeEntry"}
  PROVE  At(v) \in archDirs
  <1>1. CASE pc[v] = "add"
    BY <1>1 DEF ServiceInv, DiskInv, ThreadInv, DirectoryMade
  <1>2. CASE pc[v] = "removeEntry"
    <2>1. PICK e \in entries : PlaceOf(e) = At(v)
      BY <1>2 DEF ServiceInv, DiskInv, ThreadInv, FoundIsListed, Matches, Listing,
         In, At, PlaceOf
    <2> DEFINE d == [repo |-> e.repo, arch |-> e.arch, name |-> e.name]
    <2>2. d \in dbs /\ PlaceOf(d) = PlaceOf(e)
      BY DEF ServiceInv, DiskInv, TreeShape, PlaceOf
    <2>3. QED
      BY <2>1, <2>2 DEF ServiceInv, DiskInv, TreeShape
  <1>3. QED
    BY <1>1, <1>2

LEMMA SideFilesPublish ==
  ASSUME ServiceInv, SideFiles, NEW t \in Threads, PublishStep(t) \/ RemoveStep(t)
  PROVE  SideFiles'
  <1> USE DEF SideFiles, PlaceOf, disk, folders, files, database, marks, Go
  <1>1. CASE UNCHANGED disk
    BY <1>1
  <1>2. CASE MakeDirectory(t)
    BY <1>2 DEF MakeDirectory
  <1>3. CASE InstallPackage(t) \/ UndoPackage(t) \/ RemoveFile(t)
    BY <1>3 DEF InstallPackage, UndoPackage, RemoveFile, Refuse
  <1>4. CASE InstallSignature(t)
    <2>1. At(t) \in archDirs /\ PlaceOf(File(t)) = At(t)
      BY <1>4 DEF InstallSignature, ServiceInv, DiskInv, ThreadInv, DirectoryMade,
         File, At
    <2>2. sigs' \subseteq sigs \cup {File(t)} /\ UNCHANGED <<archDirs, cmdLocks>>
      BY <1>4 DEF InstallSignature, Placed, Unlinked
    <2>3. QED
      BY <2>1, <2>2
  <1>5. CASE UndoSignature(t) \/ RemoveSignature(t)
    BY <1>5 DEF UndoSignature, RemoveSignature, Refuse, Unlinked
  <1>6. CASE AddEntry(t) \/ AddFails(t)
    <2>1. At(t) \in archDirs
      BY <1>6, CommandDirectory DEF AddEntry, AddFails, Cancel, Refuse
    <2>2. cmdLocks' \subseteq cmdLocks \cup {Database(At(t))} /\ UNCHANGED <<archDirs, sigs>>
      BY <1>6 DEF AddEntry, AddFails, Cancel, Refuse, LeaveCommandLock
    <2>3. QED
      BY <2>1, <2>2, DatabasePlaced
  <1>7. CASE RemoveEntry(t) \/ RemoveEntryFails(t)
    <2>1. At(t) \in archDirs
      BY <1>7, CommandDirectory DEF RemoveEntry, RemoveEntryFails, Cancel, Refuse
    <2>2. cmdLocks' \subseteq cmdLocks \cup {Database(At(t))} /\ UNCHANGED <<archDirs, sigs>>
      BY <1>7 DEF RemoveEntry, RemoveEntryFails, Cancel, Refuse, LeaveCommandLock
    <2>3. QED
      BY <2>1, <2>2, DatabasePlaced
  <1>8. CASE \/ ReceiveUpload(t) \/ LockForPublish(t) \/ Inspect(t)
             \/ StatDestination(t) \/ Cleanup(t) \/ LockForRemove(t) \/ FindPackage(t)
    BY <1>1, <1>8 DEF ReceiveUpload, LockForPublish, Inspect, StatDestination, Cleanup,
       LockForRemove, FindPackage, Proceed, Refuse, RefuseRequest
  <1>9. QED
    BY <1>2, <1>3, <1>4, <1>5, <1>6, <1>7, <1>8 DEF PublishStep, RemoveStep

LEMMA SideFilesLifecycle ==
  ASSUME ServiceInv, SideFiles, NEW t \in Threads, LifecycleStep(t)
  PROVE  SideFiles'
  <1> USE DEF PlaceOf, disk, folders, files, database, marks, Go
  <1>0. /\ sigs \in SUBSET Files /\ archDirs \in SUBSET Places
        /\ cmdLocks \in SUBSET Databases
    BY DEF ServiceInv, ControlInv, TypeOK
  <1>1. CASE UNCHANGED <<archDirs, sigs, cmdLocks>>
    BY <1>1 DEF SideFiles
  <1>2. CASE \/ LockForLifecycle(t) \/ Create(t) \/ CheckRename(t) \/ MakeSnapshot(t)
             \/ RelabelDatabase(t) \/ CheckRepository(t) \/ PurgeRepository(t)
    BY <1>1, <1>2 DEF LockForLifecycle, RefuseRequest, Create, CheckRename,
       MakeSnapshot, RelabelDatabase, CheckRepository, PurgeRepository, Proceed, Refuse
  <1>3. CASE CopySnapshot(t)
    <2>1. CASE Refuse(t, "copy", "discard")
      BY <1>1, <2>1 DEF Refuse
    <2>2. CASE pc[t] = "copy" /\ CopyTree(job[t].repo, temp[t])
      <3>1. job[t].repo \in Dirs /\ temp[t] \in Dirs
        BY <2>2 DEF ServiceInv, ControlInv, JobsFit, Dirs, LifecycleCalls, RenameJobs
      <3>2. \A x \in Copies(sigs, job[t].repo, temp[t]) :
               PlaceOf(x) \in Copies(archDirs, job[t].repo, temp[t])
        BY <1>0, <3>1, CopiesPlaced DEF SideFiles
      <3>3. \A l \in Copies(cmdLocks, job[t].repo, temp[t]) :
               PlaceOf(l) \in Copies(archDirs, job[t].repo, temp[t])
        BY <1>0, <3>1, LocksPlaced DEF SideFiles
      <3>4. QED
        BY <2>2, <3>2, <3>3 DEF CopyTree, SideFiles
    <2>3. QED
      BY <1>3, <2>1, <2>2 DEF CopySnapshot
  <1>4. CASE InstallSnapshot(t)
    <2>1. CASE Refuse(t, "relabel", "discard")
      BY <1>1, <2>1 DEF Refuse
    <2>2. CASE pc[t] = "relabel" /\ MoveTree(temp[t], job[t].to)
      <3>1. job[t].to \in Dirs /\ temp[t] \in Dirs
        BY <2>2 DEF ServiceInv, ControlInv, JobsFit, Dirs, LifecycleCalls, RenameJobs
      <3>2. \A x \in Copies(sigs, temp[t], job[t].to) :
               PlaceOf(x) \in Copies(archDirs, temp[t], job[t].to)
        BY <1>0, <3>1, CopiesPlaced DEF SideFiles
      <3>3. \A l \in Copies(cmdLocks, temp[t], job[t].to) :
               PlaceOf(l) \in Copies(archDirs, temp[t], job[t].to)
        BY <1>0, <3>1, LocksPlaced DEF SideFiles
      <3>4. QED
        BY <2>2, <3>2, <3>3 DEF MoveTree, Moved, Outside, SideFiles
    <2>3. QED
      BY <1>4, <2>1, <2>2 DEF InstallSnapshot
  <1>5. CASE DiscardSnapshot(t)
    BY <1>5 DEF DiscardSnapshot, Outside, SideFiles
  <1>6. CASE PurgeFile(t)
    BY <1>6 DEF PurgeFile, SideFiles
  <1>7. CASE PurgeArchitecture(t)
    <2>1. PICK place \in archDirs :
            /\ EmptyPlace(place) /\ archDirs' = archDirs \ {place}
            /\ UNCHANGED <<sigs, cmdLocks>>
      BY <1>7 DEF PurgeArchitecture, Under
    <2>2. \A s \in sigs : PlaceOf(s) # place
      BY <2>1 DEF EmptyPlace, In
    <2>3. \A l \in cmdLocks : PlaceOf(l) # place
      BY <2>1 DEF EmptyPlace, In
    <2>4. QED
      BY <2>1, <2>2, <2>3 DEF SideFiles
  <1>8. QED
    BY <1>2, <1>3, <1>4, <1>5, <1>6, <1>7 DEF LifecycleStep

LEMMA SideFilesInductive == ServiceInv /\ SideFiles /\ [Next]_vars => SideFiles'
  <1> SUFFICES ASSUME ServiceInv, SideFiles, [Next]_vars
               PROVE  SideFiles'
    OBVIOUS
  <1>1. CASE UNCHANGED disk
    BY <1>1 DEF disk, folders, files, database, marks, SideFiles, PlaceOf
  <1>2. ASSUME NEW t \in Threads, Begins(t) \/ Step(t)
        PROVE  SideFiles'
    BY <1>1, <1>2, SideFilesPublish, SideFilesLifecycle DEF Step, Unlock, Begins,
       BeginUpload, BeginRemove, BeginLifecycle, Begin
  <1>3. ASSUME NEW process \in Processes, Crash(process)
        PROVE  SideFiles'
    <2>1. \A v \in Threads : InCommand(v) => At(v) \in archDirs
      BY CommandDirectory DEF InCommand
    <2>2. /\ UNCHANGED <<archDirs, sigs>>
          /\ \A l \in cmdLocks' \ cmdLocks :
                 \E v \in Threads : InCommand(v) /\ l = Database(At(v))
      BY <1>3 DEF Crash, folders, files
    <2>3. \A l \in cmdLocks' : PlaceOf(l) \in archDirs
      BY <2>1, <2>2, DatabasePlaced DEF SideFiles
    <2>4. QED
      BY <2>2, <2>3 DEF SideFiles, PlaceOf
  <1>4. CASE Rest \/ UNCHANGED vars
    BY <1>1, <1>4 DEF Rest, vars
  <1>5. QED
    BY <1>2, <1>3, <1>4 DEF Next

-----------------------------------------------------------------------------
(* The ways in which what the databases list can change.                   *)

LEMMA StepEntries ==
  ASSUME ServiceInv, NEW t \in Threads, Begins(t) \/ Step(t)
  PROVE  \/ UNCHANGED entries
         \/ AddEntry(t)
         \/ pc[t] = "removeEntry" /\ entries' = entries \ OfName(At(t), job[t].name)
         \/ pc[t] = "copy" /\ CopyTree(job[t].repo, temp[t])
         \/ /\ pc[t] = "relabel"
            /\ \E d \in Unlabelled(t) : entries' = Relabelled(entries, d, job[t].to)
         \/ /\ pc[t] = "relabel" /\ ~Relabelling(t) /\ job[t].to \notin dirs
            /\ MoveTree(temp[t], job[t].to)
         \/ pc[t] = "discard" /\ entries' = Outside(entries, temp[t])
         \/ /\ pc[t] = "purge"
            /\ \E d \in Under(dbs, job[t].repo) : entries' = entries \ ListedIn(d)
  <1> USE DEF Go, Proceed, Refuse, Begin, RefuseRequest, disk, database
  <1>1. CASE Begins(t)
    BY <1>1 DEF Begins, BeginUpload, BeginRemove, BeginLifecycle
  <1>2. CASE PublishStep(t)
    BY <1>2 DEF PublishStep, ReceiveUpload, LockForPublish, Inspect,
       MakeDirectory, StatDestination, InstallPackage, InstallSignature,
       AddFails, Cancel, UndoPackage, UndoSignature, Cleanup
  <1>3. CASE RemoveStep(t)
    BY <1>3 DEF RemoveStep, LockForRemove, FindPackage, RemoveEntry, DelistPackage,
       RemoveEntryFails, Cancel, RemoveFile, RemoveSignature
  <1>4. CASE LifecycleStep(t)
    BY <1>4 DEF LifecycleStep, LockForLifecycle, Create, CheckRename,
       MakeSnapshot, CopySnapshot, RelabelDatabase, InstallSnapshot,
       DiscardSnapshot, CheckRepository, PurgeFile, PurgeArchitecture,
       PurgeRepository
  <1>5. CASE Unlock(t)
    BY <1>5 DEF Unlock
  <1>6. QED
    BY <1>1, <1>2, <1>3, <1>4, <1>5 DEF Step

(* What repo-add makes of the list it is given.                            *)
LEMMA AddedEntries ==
  ASSUME ServiceInv, NEW t \in Threads, Installed(t), AddEntry(t)
  PROVE  /\ pc[t] = "add" /\ job[t].repo \in Repos /\ job[t].arch \in Archs
         /\ subject[t] \in Packages /\ At(t) \in Keys /\ UNCHANGED <<pkgs, sigs>>
         /\ entries' = (entries \ OfName(At(t), NameOf[subject[t]]))
                           \cup {Entry(At(t), subject[t])}
  <1>1. PICK x \in pkgs : AddEntry(t)!(x)
    BY DEF AddEntry
  <1>2. x.up = subject[t]
    BY <1>1, AddedIsInstalled
  <1>3. pc[t] = "add"
    BY <1>1
  <1>4. job[t] \in PublishJobs /\ subject[t] \in Packages
    BY <1>3 DEF ServiceInv, ControlInv, JobsFit, PublishCalls
  <1>5. QED
    BY <1>1, <1>2, <1>3, <1>4 DEF ListPackage, files, PublishJobs, At, Keys

(* One version of each package.                                            *)
LEMMA OneVersionInductive ==
  ServiceInv /\ OutcomeInv /\ [Next]_vars => OneVersionListed'
  <1> SUFFICES ASSUME ServiceInv, OutcomeInv, [Next]_vars
               PROVE  OneVersionListed'
    OBVIOUS
  <1>1. CASE entries' \subseteq entries
    BY <1>1 DEF OutcomeInv, OneVersionListed, PlaceOf
  <1>2. ASSUME NEW t \in Threads, Begins(t) \/ Step(t)
        PROVE  OneVersionListed'
    <2>1. CASE AddEntry(t)
      <3>1. /\ job[t].repo \in Repos
            /\ entries' = (entries \ OfName(At(t), NameOf[subject[t]]))
                              \cup {Entry(At(t), subject[t])}
        BY <2>1, AddedEntries DEF OutcomeInv, OutcomeOf
      <3>2. \A e \in entries : PlaceOf(e) = At(t) => e.name = At(t).repo
        BY <3>1, EntriesNamed DEF PlaceOf, At
      <3>3. \A e \in entries' : PlaceOf(e) = At(t) /\ NameOf[e.up] = NameOf[subject[t]]
                                  => e.up = subject[t]
        BY <3>1, <3>2 DEF OfName, In, PlaceOf, At, Entry
      <3>4. \A e \in entries' : e \in entries
                \/ (PlaceOf(e) = At(t) /\ e.up = subject[t])
        BY <3>1 DEF Entry, PlaceOf, At
      <3>5. QED
        BY <3>3, <3>4 DEF OutcomeInv, OneVersionListed, PlaceOf
    <2>2. CASE pc[t] = "copy" /\ CopyTree(job[t].repo, temp[t])
      <3> DEFINE from == job[t].repo
                 to == temp[t]
      <3>1. /\ from # to /\ entries' \subseteq Entries
            /\ \A e \in entries : e.repo # to
            /\ \A e \in entries' : \/ e \in entries /\ e.repo # to
                                   \/ e.repo = to /\ EntryIn(from, e) \in entries
        BY <2>2, SnapshotCopy DEF OutcomeInv
      <3>2. ASSUME NEW e \in entries', NEW f \in entries', PlaceOf(e) = PlaceOf(f),
                   NameOf[e.up] = NameOf[f.up], e.repo = to
            PROVE  e.up = f.up
        <4>1. e.arch = f.arch /\ f.repo = to
          BY <3>2 DEF PlaceOf
        <4>2. EntryIn(from, e) \in entries /\ EntryIn(from, f) \in entries
          BY <3>1, <3>2, <4>1
        <4>3. /\ PlaceOf(EntryIn(from, e)) = PlaceOf(EntryIn(from, f))
              /\ EntryIn(from, e).up = e.up /\ EntryIn(from, f).up = f.up
          BY <4>1 DEF EntryIn, PlaceOf
        <4>4. QED
          BY <3>2, <4>2, <4>3 DEF OutcomeInv, OneVersionListed
      <3>3. ASSUME NEW e \in entries', NEW f \in entries', PlaceOf(e) = PlaceOf(f),
                   NameOf[e.up] = NameOf[f.up], e.repo # to
            PROVE  e.up = f.up
        BY <3>1, <3>3 DEF OutcomeInv, OneVersionListed, PlaceOf
      <3>4. QED
        BY <3>2, <3>3 DEF OneVersionListed, PlaceOf
    <2>3. CASE pc[t] = "relabel" /\ \E d \in Unlabelled(t) :
                   entries' = Relabelled(entries, d, job[t].to)
      <3>1. PICK d \in Unlabelled(t) : entries' = Relabelled(entries, d, job[t].to)
        BY <2>3
      <3>2. d \in Databases /\ job[t].to \in Repos /\ entries \in SUBSET Entries
        BY <2>3 DEF Unlabelled, Under, ServiceInv, ControlInv, TypeOK, JobsFit,
           LifecycleCalls, RenameJobs
      <3>3. \A f \in entries' : \E e \in entries : PlaceOf(f) = PlaceOf(e) /\ f.up = e.up
        BY <3>1, <3>2, RelabelledEntries DEF PlaceOf
      <3> SUFFICES ASSUME NEW e \in entries', NEW f \in entries', PlaceOf(e) = PlaceOf(f),
                          NameOf[e.up] = NameOf[f.up]
                   PROVE  e.up = f.up
        BY DEF OneVersionListed, PlaceOf
      <3>4. PICK e0 \in entries : PlaceOf(e) = PlaceOf(e0) /\ e.up = e0.up
        BY <3>3
      <3>5. PICK f0 \in entries : PlaceOf(f) = PlaceOf(f0) /\ f.up = f0.up
        BY <3>3
      <3>6. QED
        BY <3>4, <3>5 DEF OutcomeInv, OneVersionListed
    <2>4. CASE /\ pc[t] = "relabel" /\ ~Relabelling(t) /\ job[t].to \notin dirs
               /\ MoveTree(temp[t], job[t].to)
      <3> DEFINE from == temp[t]
                 to == job[t].to
      <3>1. /\ entries' \subseteq Entries
            /\ \A e \in entries : e.repo # to
            /\ \A e \in entries' :
                   \/ e \in entries /\ e.repo # to
                   \/ /\ e.repo = to
                      /\ [repo |-> from, arch |-> e.arch, name |-> to, up |-> e.up] \in entries
        BY <2>4, SnapshotMove DEF OutcomeInv
      <3>2. ASSUME NEW e \in entries', NEW f \in entries', PlaceOf(e) = PlaceOf(f),
                   NameOf[e.up] = NameOf[f.up], e.repo = to
            PROVE  e.up = f.up
        <4> DEFINE Old(x) == [repo |-> from, arch |-> x.arch, name |-> to, up |-> x.up]
        <4>1. e.arch = f.arch /\ f.repo = to
          BY <3>2 DEF PlaceOf
        <4>2. Old(e) \in entries /\ Old(f) \in entries
          BY <3>1, <3>2, <4>1
        <4>3. /\ PlaceOf(Old(e)) = PlaceOf(Old(f))
              /\ Old(e).up = e.up /\ Old(f).up = f.up
          BY <4>1 DEF PlaceOf
        <4>4. QED
          BY <3>2, <4>2, <4>3 DEF OutcomeInv, OneVersionListed
      <3>3. ASSUME NEW e \in entries', NEW f \in entries', PlaceOf(e) = PlaceOf(f),
                   NameOf[e.up] = NameOf[f.up], e.repo # to
            PROVE  e.up = f.up
        BY <3>1, <3>3 DEF OutcomeInv, OneVersionListed, PlaceOf
      <3>4. QED
        BY <3>2, <3>3 DEF OneVersionListed, PlaceOf
    <2>5. QED
      BY <1>1, <1>2, <2>1, <2>2, <2>3, <2>4, StepEntries DEF Outside
  <1>3. CASE \E process \in Processes : Crash(process)
    BY <1>1, <1>3 DEF Crash, database
  <1>4. CASE Rest \/ UNCHANGED vars
    BY <1>1, <1>4 DEF Rest, vars, disk, database
  <1>5. QED
    BY <1>2, <1>3, <1>4 DEF Next

-----------------------------------------------------------------------------
(* While nothing fails.                                                    *)

LEMMA UndisturbedBefore ==
  ASSUME ControlInv, [Next]_vars, Undisturbed'
  PROVE  /\ Undisturbed /\ faults' = faults
         /\ \/ \E t \in Threads : Begins(t) \/ Step(t)
            \/ UNCHANGED vars
  <1>1. faults \in Nat /\ crashes \in Nat /\ faults' = 0 /\ crashes' = 0
    BY ServiceAssumption DEF ControlInv, TypeOK, Undisturbed
  <1>2. ASSUME NEW t \in Threads, Begins(t) \/ Step(t)
        PROVE  (faults' = faults \/ faults' = faults + 1) /\ crashes' = crashes
    <2> USE DEF Proceed, Refuse, Begin, RefuseRequest, Cancel, Fault, budgets
    <2>1. CASE Begins(t)
      BY <2>1 DEF Begins, BeginUpload, BeginRemove, BeginLifecycle
    <2>2. CASE PublishStep(t)
      BY <2>2 DEF PublishStep, ReceiveUpload, LockForPublish, Inspect,
         MakeDirectory, StatDestination, InstallPackage, InstallSignature,
         AddEntry, AddFails, UndoPackage, UndoSignature, Cleanup
    <2>3. CASE RemoveStep(t)
      BY <2>3 DEF RemoveStep, LockForRemove, FindPackage, RemoveEntry,
         RemoveEntryFails, RemoveFile, RemoveSignature
    <2>4. CASE LifecycleStep(t)
      BY <2>4 DEF LifecycleStep, LockForLifecycle, Create, CheckRename,
         MakeSnapshot, CopySnapshot, RelabelDatabase, InstallSnapshot,
         DiscardSnapshot, CheckRepository, PurgeFile, PurgeArchitecture,
         PurgeRepository
    <2>5. CASE Unlock(t)
      BY <2>5 DEF Unlock
    <2>6. QED
      BY <1>2, <2>1, <2>2, <2>3, <2>4, <2>5 DEF Step
  <1>3. CASE \E process \in Processes : Crash(process)
    BY <1>1, <1>3 DEF Crash
  <1>4. CASE Rest \/ UNCHANGED vars
    BY <1>1, <1>4 DEF Rest, vars, budgets, Undisturbed
  <1>5. CASE \E t \in Threads : Begins(t) \/ Step(t)
    BY <1>1, <1>2, <1>5 DEF Undisturbed
  <1>6. QED
    BY <1>3, <1>4, <1>5 DEF Next, Rest

LEMMA UntroubledStep ==
  ASSUME ControlInv, Untroubled, NEW t \in Threads, Begins(t) \/ Step(t),
         faults' = faults
  PROVE  Untroubled'
  <1>1. OthersAlone(t)
    BY StepsAreLocal
  <1>2. cmdLocks' = {} /\ pc'[t] \notin {"undo", "undoSig", "discard"}
    <2>0. faults # faults + 1
      BY ServiceAssumption DEF ControlInv, TypeOK
    <2> USE <2>0 DEF ControlInv, TypeOK, Untroubled, Go, Proceed, Refuse, Begin,
                RefuseRequest, Cancel, Fault, disk, marks
    <2>1. CASE Begins(t)
      BY <2>1 DEF Begins, BeginUpload, BeginRemove, BeginLifecycle
    <2>2. CASE PublishStep(t)
      BY <2>2 DEF PublishStep, ReceiveUpload, LockForPublish, Inspect,
         MakeDirectory, StatDestination, InstallPackage, AfterInstall,
         InstallSignature, AddEntry, AddFails, CommandLocked, UndoPackage,
         UndoSignature, Cleanup
    <2>3. CASE RemoveStep(t)
      BY <2>3 DEF RemoveStep, LockForRemove, FindPackage, RemoveEntry,
         RemoveEntryFails, RemoveFile, RemoveSignature
    <2>4. CASE LifecycleStep(t)
      BY <2>4 DEF LifecycleStep, LockForLifecycle, Create, CheckRename,
         MakeSnapshot, CopySnapshot, CopyTree, RelabelDatabase, InstallSnapshot,
         MoveTree, Moved, Copies, Under, Outside, DiscardSnapshot, CheckRepository,
         PurgeFile, PurgeArchitecture, PurgeRepository
    <2>5. CASE Unlock(t)
      BY <2>5 DEF Unlock
    <2>6. QED
      BY <2>1, <2>2, <2>3, <2>4, <2>5 DEF Step
  <1>3. QED
    BY <1>1, <1>2 DEF Untroubled, OthersAlone

(* What a step that does not fail does to files and signatures.            *)
LEMMA QuietFiles ==
  ASSUME ControlInv, Untroubled, NEW t \in Threads, Begins(t) \/ Step(t),
         faults' = faults
  PROVE  \/ UNCHANGED <<pkgs, sigs, torn>> /\ pc[t] \notin {"sign", "removeSig"}
         \/ /\ pc[t] = "install" /\ pc'[t] = AfterInstall(t)
            /\ pkgs' = Placed(pkgs, File(t)) /\ UNCHANGED <<sigs, torn, job, subject>>
         \/ /\ pc[t] = "sign" /\ pc'[t] = "add"
            /\ sigs' = Placed(sigs, File(t)) /\ UNCHANGED <<pkgs, torn, job, subject>>
         \/ /\ pc[t] = "removeFile" /\ pc'[t] = "removeSig"
            /\ pkgs' = Unlinked(pkgs, File(t)) /\ UNCHANGED <<sigs, torn, job, subject>>
         \/ /\ pc[t] = "removeSig" /\ pc'[t] = "unlock"
            /\ sigs' = Unlinked(sigs, File(t)) /\ UNCHANGED <<pkgs, torn, job, subject>>
         \/ pc[t] = "copy" /\ CopyTree(job[t].repo, temp[t])
         \/ /\ pc[t] = "relabel" /\ ~Relabelling(t) /\ job[t].to \notin dirs
            /\ MoveTree(temp[t], job[t].to)
         \/ pc[t] = "purge" /\ (PurgeFile(t) \/ PurgeArchitecture(t))
  <1>0. faults # faults + 1
    BY ServiceAssumption DEF ControlInv, TypeOK
  <1> USE <1>0 DEF ControlInv, TypeOK, Untroubled, Go, Proceed, Refuse, Begin,
              RefuseRequest, Cancel, Fault, disk, files, marks, context, request
  <1>1. CASE Begins(t)
    BY <1>1 DEF Begins, BeginUpload, BeginRemove, BeginLifecycle
  <1>2. CASE PublishStep(t)
    BY <1>2 DEF PublishStep, ReceiveUpload, LockForPublish, Inspect,
       MakeDirectory, StatDestination, InstallPackage, InstallSignature,
       AddEntry, AddFails, UndoPackage, UndoSignature, Cleanup
  <1>3. CASE RemoveStep(t)
    BY <1>3 DEF RemoveStep, LockForRemove, FindPackage, RemoveEntry,
       RemoveEntryFails, RemoveFile, RemoveSignature
  <1>4. CASE LifecycleStep(t)
    BY <1>4 DEF LifecycleStep, LockForLifecycle, Create, CheckRename,
       MakeSnapshot, CopySnapshot, RelabelDatabase, InstallSnapshot,
       DiscardSnapshot, CheckRepository, PurgeFile, PurgeArchitecture,
       PurgeRepository
  <1>5. CASE Unlock(t)
    BY <1>5 DEF Unlock
  <1>6. QED
    BY <1>1, <1>2, <1>3, <1>4, <1>5 DEF Step

LEMMA SignaturesPairWork ==
  ASSUME ServiceInv, DestinationFree, HandlerInv, SignaturesPaired,
         NEW t \in Threads, OutcomeOf(t), OthersAlone(t), UNCHANGED <<torn, job, subject>>,
         \/ /\ pc[t] = "install" /\ pc'[t] = AfterInstall(t)
            /\ pkgs' = Placed(pkgs, File(t)) /\ UNCHANGED sigs
         \/ /\ pc[t] = "sign" /\ pc'[t] = "add"
            /\ sigs' = Placed(sigs, File(t)) /\ UNCHANGED pkgs
         \/ /\ pc[t] = "removeFile" /\ pc'[t] = "removeSig"
            /\ pkgs' = Unlinked(pkgs, File(t)) /\ UNCHANGED sigs
         \/ /\ pc[t] = "removeSig" /\ pc'[t] = "unlock"
            /\ sigs' = Unlinked(sigs, File(t)) /\ UNCHANGED pkgs
  PROVE  SignaturesPaired'
  <1>1. \A u \in Threads : File(u)' = File(u)
    BY DEF File
  <1>2. \A u \in Threads \ {t} : pc'[u] = pc[u]
    BY DEF OthersAlone
  <1>3. /\ pkgs \subseteq Files /\ sigs \subseteq Files
        /\ \A x, y \in pkgs : SamePath(x, y) => x = y
    BY DEF ServiceInv, ControlInv, TypeOK, DiskInv, PathsUnique
  <1>4. /\ File(t).up = subject[t] /\ SamePath(File(t), File(t))
        /\ \A x \in Files : SamePath(x, File(t)) <=> SamePath(File(t), x)
    BY DEF File, SamePath
  <1>5. CASE /\ pc[t] = "install" /\ pc'[t] = AfterInstall(t)
             /\ pkgs' = Placed(pkgs, File(t)) /\ UNCHANGED sigs
    <2>1. pkgs' = pkgs \cup {File(t)}
      BY <1>5 DEF DestinationFree, FileExists, Placed, Unlinked, SamePath
    <2>2. ASSUME NEW s \in sigs'
          PROVE  SignatureBacked(s)'
      BY <1>1, <1>2, <1>5, <2>1 DEF SignaturesPaired, SignatureBacked
    <2>3. ASSUME NEW x \in pkgs'
          PROVE  PackageSigned(x)'
      <3>1. CASE x \in pkgs
        BY <1>1, <1>2, <1>5, <3>1 DEF SignaturesPaired, PackageSigned
      <3>2. CASE x = File(t)
        BY <1>1, <1>4, <1>5, <3>2 DEF PackageSigned, AfterInstall
      <3>3. QED
        BY <2>1, <2>3, <3>1, <3>2
    <2>4. QED
      BY <2>2, <2>3 DEF SignaturesPaired
  <1>6. CASE /\ pc[t] = "sign" /\ pc'[t] = "add"
             /\ sigs' = Placed(sigs, File(t)) /\ UNCHANGED pkgs
    <2>1. subject[t] \in Signed /\ File(t) \in pkgs
      BY <1>6 DEF HandlerInv, HandlerFits, OutcomeOf, Installed
    <2>2. ASSUME NEW s \in sigs'
          PROVE  SignatureBacked(s)'
      <3>1. CASE s = File(t)
        BY <1>4, <1>6, <2>1, <3>1 DEF SignatureBacked
      <3>2. CASE s \in sigs
        BY <1>1, <1>2, <1>6, <3>2 DEF SignaturesPaired, SignatureBacked
      <3>3. QED
        BY <1>6, <2>2, <3>1, <3>2 DEF Placed, Unlinked
    <2>3. ASSUME NEW x \in pkgs'
          PROVE  PackageSigned(x)'
      <3>1. CASE x = File(t)
        BY <1>6, <3>1 DEF PackageSigned, Placed
      <3>2. CASE x # File(t)
        <4>1. x \in pkgs /\ ~SamePath(x, File(t))
          BY <1>3, <1>6, <2>1, <2>3, <3>2
        <4>2. x \in sigs => x \in sigs'
          BY <1>3, <1>4, <1>6, <4>1 DEF Placed, Unlinked
        <4>3. \A u \in Threads : pc[u] = "sign" /\ File(u) = x =>
                  pc'[u] = "sign" /\ File(u)' = x
          BY <1>1, <1>2, <3>2
        <4>4. QED
          BY <1>6, <4>1, <4>2, <4>3 DEF SignaturesPaired, PackageSigned
      <3>3. QED
        BY <3>1, <3>2
    <2>4. QED
      BY <2>2, <2>3 DEF SignaturesPaired
  <1>7. CASE /\ pc[t] = "removeFile" /\ pc'[t] = "removeSig"
             /\ pkgs' = Unlinked(pkgs, File(t)) /\ UNCHANGED sigs
    <2>1. ASSUME NEW s \in sigs'
          PROVE  SignatureBacked(s)'
      <3>1. CASE SamePath(s, File(t))
        <4>1. pc'[t] = "removeSig" /\ SamePath(s, File(t)')
          BY <1>1, <1>7, <3>1
        <4>2. QED
          BY <1>7, <2>1, <4>1 DEF SignaturesPaired, SignatureBacked
      <3>2. CASE ~SamePath(s, File(t))
        <4>1. s \in pkgs => s \in pkgs'
          BY <1>3, <1>4, <1>7, <3>2 DEF Unlinked
        <4>2. \A u \in Threads : pc[u] = "removeSig" => pc'[u] = "removeSig"
          BY <1>2, <1>7
        <4>3. QED
          BY <1>1, <1>7, <2>1, <4>1, <4>2 DEF SignaturesPaired, SignatureBacked
      <3>3. QED
        BY <3>1, <3>2
    <2>2. ASSUME NEW x \in pkgs'
          PROVE  PackageSigned(x)'
      BY <1>1, <1>2, <1>7 DEF SignaturesPaired, PackageSigned, Unlinked
    <2>3. QED
      BY <2>1, <2>2 DEF SignaturesPaired
  <1>8. CASE /\ pc[t] = "removeSig" /\ pc'[t] = "unlock"
             /\ sigs' = Unlinked(sigs, File(t)) /\ UNCHANGED pkgs
    <2>1. ASSUME NEW s \in sigs'
          PROVE  SignatureBacked(s)'
      <3>1. s \in sigs /\ ~SamePath(s, File(t))
        BY <1>3, <1>4, <1>8, <2>1 DEF Unlinked
      <3>2. \A u \in Threads : pc[u] = "removeSig" /\ SamePath(s, File(u)) =>
                pc'[u] = "removeSig" /\ SamePath(s, File(u)')
        BY <1>1, <1>2, <3>1
      <3>3. QED
        BY <1>8, <3>1, <3>2 DEF SignaturesPaired, SignatureBacked
    <2>2. ASSUME NEW x \in pkgs'
          PROVE  PackageSigned(x)'
      <3>1. ~SamePath(x, File(t)) /\ x \in pkgs
        BY <1>8, <2>2 DEF OutcomeOf, Delisted
      <3>2. x \in sigs => x \in sigs'
        BY <1>3, <1>4, <1>8, <3>1 DEF Unlinked
      <3>3. \A u \in Threads : pc[u] = "sign" => pc'[u] = "sign" /\ File(u)' = File(u)
        BY <1>1, <1>2, <1>8
      <3>4. QED
        BY <1>8, <3>1, <3>2, <3>3 DEF SignaturesPaired, PackageSigned
    <2>3. QED
      BY <2>1, <2>2 DEF SignaturesPaired
  <1>9. QED
    BY <1>5, <1>6, <1>7, <1>8

(* Nobody is at a call that signs or removes while a thread has the tree.  *)
LEMMA NobodySigns ==
  ASSUME ControlInv, HandlerInv, NEW t \in Threads, pc[t] \in LifecycleWriters
  PROVE  \A u \in Threads : pc[u] \notin {"sign", "removeSig"}
  <1>1. OnTree(t) /\ pc[t] \notin {"sign", "removeSig"}
    BY DEF OnTree, LifecycleWriters, LifecycleCalls
  <1>2. \A u \in Threads : pc[u] \in {"sign", "removeSig"} => OnPair(u)
    BY DEF OnPair, PairWriters, PublishCalls, RemoveCalls
  <1>3. QED
    BY <1>1, <1>2, HoldersExclude

LEMMA SignaturesTreeWork ==
  ASSUME ServiceInv, HandlerInv, SideFiles, SignaturesPaired, NEW t \in Threads,
         \/ pc[t] = "copy" /\ CopyTree(job[t].repo, temp[t])
         \/ /\ pc[t] = "relabel" /\ ~Relabelling(t) /\ job[t].to \notin dirs
            /\ MoveTree(temp[t], job[t].to)
         \/ pc[t] = "purge" /\ (PurgeFile(t) \/ PurgeArchitecture(t))
  PROVE  SignaturesPaired'
  <1>1. \A u \in Threads : pc[u] \notin {"sign", "removeSig"}
    BY NobodySigns DEF LifecycleWriters, LifecycleCalls, ServiceInv
  <1>2. /\ pkgs \subseteq Files /\ sigs \subseteq Files
        /\ \A x \in Files : PlaceOf(x) \in Places
    BY DEF ServiceInv, ControlInv, TypeOK, Files, Places, PlaceOf
  <1>3. /\ \A s \in sigs : PlaceOf(s) \notin torn => s.up \in Signed /\ s \in pkgs
        /\ \A x \in pkgs : PlaceOf(x) \notin torn /\ x.up \in Signed => x \in sigs
    BY <1>1 DEF SignaturesPaired, SignatureBacked, PackageSigned
  <1>4. SUFFICES
          /\ \A s \in sigs' : PlaceOf(s) \notin torn' => s.up \in Signed /\ s \in pkgs'
          /\ \A x \in pkgs' : PlaceOf(x) \notin torn' /\ x.up \in Signed => x \in sigs'
    BY DEF SignaturesPaired, SignatureBacked, PackageSigned, PlaceOf
  <1>5. CASE pc[t] = "copy" /\ CopyTree(job[t].repo, temp[t])
    <2> DEFINE from == job[t].repo
               to == temp[t]
    <2>1. /\ from \in Repos /\ from \in Dirs
          /\ pkgs' \subseteq Files /\ sigs' \subseteq Files
          /\ \A x \in Files :
                 /\ x \in pkgs' <=> x \in pkgs \/ (x.repo = to /\ FileIn(from, x) \in pkgs)
                 /\ x \in sigs' <=> x \in sigs \/ (x.repo = to /\ FileIn(from, x) \in sigs)
          /\ \A p \in Places :
                 p \in torn' <=> \/ p \in torn
                                 \/ p.repo = to /\ [repo |-> from, arch |-> p.arch] \in torn
      BY <1>5, SnapshotCopy DEF Dirs
    <2>2. \A x \in Files : PlaceOf(x) \notin torn' =>
              PlaceOf(x) \notin torn /\ (x.repo = to => PlaceOf(FileIn(from, x)) \notin torn)
      BY <1>2, <2>1 DEF PlaceOf, FileIn
    <2>3. \A x \in Files : FileIn(from, x).up = x.up
      BY DEF FileIn
    <2>4. QED
      BY <1>2, <1>3, <2>1, <2>2, <2>3
  <1>6. CASE /\ pc[t] = "relabel" /\ ~Relabelling(t) /\ job[t].to \notin dirs
             /\ MoveTree(temp[t], job[t].to)
    <2> DEFINE from == temp[t]
               to == job[t].to
    <2>1. /\ pkgs' \subseteq Files /\ sigs' \subseteq Files
          /\ \A x \in Files :
                 /\ x \in pkgs' <=> \/ x.repo # from /\ x \in pkgs
                                    \/ x.repo = to /\ FileIn(from, x) \in pkgs
                 /\ x \in sigs' <=> \/ x.repo # from /\ x \in sigs
                                    \/ x.repo = to /\ FileIn(from, x) \in sigs
          /\ \A p \in Places :
                 p \in torn' <=> \/ p.repo # from /\ p \in torn
                                 \/ p.repo = to /\ [repo |-> from, arch |-> p.arch] \in torn
      BY <1>6, SnapshotMove
    <2>2. \A x \in Files : PlaceOf(x) \notin torn' =>
              /\ x.repo # from => PlaceOf(x) \notin torn
              /\ x.repo = to => PlaceOf(FileIn(from, x)) \notin torn
      BY <1>2, <2>1 DEF PlaceOf, FileIn
    <2>3. \A x \in Files : FileIn(from, x).up = x.up
      BY DEF FileIn
    <2>4. QED
      BY <1>2, <1>3, <2>1, <2>2, <2>3
  <1>7. CASE PurgeFile(t)
    BY <1>3, <1>7 DEF PurgeFile, files, marks
  <1>8. CASE PurgeArchitecture(t)
    <2>1. PICK place \in Under(archDirs, job[t].repo) :
              /\ EmptyPlace(place) /\ torn' = torn \ {place} /\ UNCHANGED <<pkgs, sigs>>
      BY <1>8 DEF PurgeArchitecture, files
    <2>2. \A x \in pkgs \cup sigs : PlaceOf(x) # place
      BY <2>1 DEF EmptyPlace, In, PlaceOf
    <2>3. QED
      BY <1>3, <2>1, <2>2
  <1>9. QED
    BY <1>5, <1>6, <1>7, <1>8

(* Whose upload directory, and whose hidden snapshot, a directory is.      *)
OwnsUpload(t, d) == temp[t] = d /\ job[t].op = "publish"
OwnsSnapshot(t, d) == temp[t] = d /\ pc[t] \in {"copy", "relabel", "discard"}

(* A handler gives up its upload directory only by removing it.            *)
LEMMA UploadsKept ==
  ASSUME ServiceInv, HandlerInv, NEW t \in Threads, Begins(t) \/ Step(t), ~RemovalFailed,
         NEW d \in staging'
  PROVE  OwnsUpload(t, d)' \/ (d \in staging /\ ~OwnsUpload(t, d))
  <1>1. /\ JobsFit /\ DOMAIN temp = Threads /\ DOMAIN job = Threads /\ DOMAIN pc = Threads
        /\ pc[t] = "idle" => job[t].op = "none"
    BY DEF ServiceInv, ControlInv, TypeOK, HandlerInv, HandlerFits, NoJob
  <1> USE DEF OwnsUpload, Go, Proceed, Refuse, Begin, RefuseRequest, Cancel, Forget,
              context, request, PublishJobs, RemoveJobs, RenameJobs, CreateJobs,
              DeleteJobs, LifecycleJobs
  <1>2. CASE Begins(t)
    <2>1. CASE BeginUpload(t)
      <3>1. PICK place \in Keys, e \in TempNames :
                 /\ staging' = staging \cup {e} /\ temp' = [temp EXCEPT ![t] = e]
                 /\ job' = [job EXCEPT ![t] =
                              [op |-> "publish", repo |-> place.repo, arch |-> place.arch]]
                 /\ pc[t] = "idle"
        BY <2>1 DEF BeginUpload
      <3>2. temp'[t] = e /\ job'[t].op = "publish" /\ ~OwnsUpload(t, d)
        BY <1>1, <3>1
      <3>3. QED
        BY <3>1, <3>2
    <2>2. CASE BeginRemove(t) \/ BeginLifecycle(t)
      BY <1>1, <2>2 DEF BeginRemove, BeginLifecycle
    <2>3. QED
      BY <1>2, <2>1, <2>2 DEF Begins
  <1>3. CASE Cleanup(t)
    <2>1. pc[t] = "cleanup" /\ pc'[t] = "idle"
      BY <1>1, <1>3 DEF Cleanup
    <2>2. faults' = faults
      BY <2>1 DEF RemovalFailed
    <2>3. faults # faults + 1
      BY ServiceAssumption DEF ServiceInv, ControlInv, TypeOK
    <2>4. staging' = staging \ {temp[t]}
      BY <1>3, <2>2, <2>3 DEF Cleanup, Fault
    <2>5. QED
      BY <2>4
  <1>4. CASE PublishStep(t) /\ ~Cleanup(t)
    BY <1>4 DEF PublishStep, ReceiveUpload, LockForPublish, Inspect,
       MakeDirectory, StatDestination, InstallPackage, InstallSignature,
       AddEntry, AddFails, UndoPackage, UndoSignature
  <1>5. CASE RemoveStep(t)
    <2>1. pc[t] \in RemoveCalls => job[t].op = "remove"
      BY <1>1 DEF JobsFit
    <2>2. QED
      BY <1>5, <2>1 DEF RemoveStep, LockForRemove, FindPackage, RemoveEntry,
         RemoveEntryFails, RemoveFile, RemoveSignature, RemoveCalls
  <1>6. CASE LifecycleStep(t)
    <2>1. pc[t] \in LifecycleCalls => job[t].op # "publish"
      BY <1>1 DEF JobsFit
    <2>2. CASE LockForLifecycle(t) \/ Create(t) \/ CheckRename(t) \/ MakeSnapshot(t)
               \/ CopySnapshot(t) \/ RelabelDatabase(t) \/ InstallSnapshot(t)
      BY <2>1, <2>2 DEF LockForLifecycle, Create, CheckRename, MakeSnapshot,
         CopySnapshot, RelabelDatabase, InstallSnapshot, LifecycleCalls
    <2>3. CASE DiscardSnapshot(t) \/ CheckRepository(t) \/ PurgeFile(t)
               \/ PurgeArchitecture(t) \/ PurgeRepository(t)
      BY <2>1, <2>3 DEF DiscardSnapshot, CheckRepository, PurgeFile,
         PurgeArchitecture, PurgeRepository, LifecycleCalls
    <2>4. QED
      BY <1>6, <2>2, <2>3 DEF LifecycleStep
  <1>7. CASE Unlock(t)
    BY <1>7 DEF Unlock
  <1>8. QED
    BY <1>2, <1>3, <1>4, <1>5, <1>6, <1>7 DEF Step

(* A handler gives up its snapshot only by installing or removing it.      *)
LEMMA SnapshotsKept ==
  ASSUME ServiceInv, HandlerInv, NEW t \in Threads, Begins(t) \/ Step(t), ~RemovalFailed,
         NEW d \in dirs' \cap TempNames
  PROVE  OwnsSnapshot(t, d)' \/ (d \in dirs /\ ~OwnsSnapshot(t, d))
  <1>1. /\ JobsFit /\ DOMAIN temp = Threads /\ DOMAIN pc = Threads
        /\ d \notin Repos
    BY ServiceAssumption DEF ServiceInv, ControlInv, TypeOK
  <1> USE DEF OwnsSnapshot, Go, Proceed, Refuse, Begin, RefuseRequest, Cancel, Forget,
              disk, folders, context, request
  <1>2. CASE Begins(t) \/ Unlock(t)
    BY <1>2 DEF Begins, BeginUpload, BeginRemove, BeginLifecycle, Unlock
  <1>3. CASE PublishStep(t)
    <2>1. pc[t] \in PublishCalls => job[t].repo \in Repos
      BY <1>1 DEF JobsFit, PublishJobs
    <2>2. QED
      BY <1>1, <1>3, <2>1 DEF PublishStep, ReceiveUpload, LockForPublish, Inspect,
         MakeDirectory, StatDestination, InstallPackage, InstallSignature,
         AddEntry, AddFails, UndoPackage, UndoSignature, Cleanup, PublishCalls
  <1>4. CASE RemoveStep(t)
    BY <1>4 DEF RemoveStep, LockForRemove, FindPackage, RemoveEntry,
       RemoveEntryFails, RemoveFile, RemoveSignature
  <1>5. CASE LifecycleStep(t)
    <2>1. pc[t] \in LifecycleCalls => job[t].repo \in Repos
      BY <1>1 DEF JobsFit, LifecycleJobs, RenameJobs, CreateJobs, DeleteJobs
    <2>2. CASE LockForLifecycle(t) \/ Create(t) \/ CheckRename(t) \/ CheckRepository(t)
               \/ PurgeFile(t) \/ PurgeArchitecture(t) \/ PurgeRepository(t)
      BY <1>1, <2>1, <2>2 DEF LockForLifecycle, Create, CheckRename, CheckRepository,
         PurgeFile, PurgeArchitecture, PurgeRepository, LifecycleCalls
    <2>3. CASE MakeSnapshot(t)
      BY <1>1, <2>3 DEF MakeSnapshot
    <2>4. CASE CopySnapshot(t) \/ RelabelDatabase(t)
      BY <1>1, <2>4 DEF CopySnapshot, RelabelDatabase
    <2>5. CASE InstallSnapshot(t)
      <3>1. pc[t] = "relabel" => job[t].to \in Repos
        BY <1>1 DEF JobsFit, RenameJobs
      <3>2. QED
        BY <1>1, <2>5, <3>1 DEF InstallSnapshot, MoveTree
    <2>6. CASE DiscardSnapshot(t)
      <3>1. pc[t] = "discard" /\ pc'[t] = "unlock"
        BY <1>1, <2>6 DEF DiscardSnapshot
      <3>2. faults' = faults
        BY <3>1 DEF RemovalFailed
      <3>3. faults # faults + 1
        BY ServiceAssumption DEF ServiceInv, ControlInv, TypeOK
      <3>4. dirs' = dirs \ {temp[t]}
        BY <2>6, <3>2, <3>3 DEF DiscardSnapshot, Fault
      <3>5. QED
        BY <3>4
    <2>7. QED
      BY <1>5, <2>2, <2>3, <2>4, <2>5, <2>6 DEF LifecycleStep
  <1>6. QED
    BY <1>2, <1>3, <1>4, <1>5 DEF Step

LEMMA NothingAbandoned ==
  ASSUME ServiceInv, HandlerInv, NEW t \in Threads, Begins(t) \/ Step(t), ~RemovalFailed
  PROVE  Abandoned' \subseteq Abandoned
  <1>1. \A u \in Threads \ {t} : pc'[u] = pc[u] /\ temp'[u] = temp[u] /\ job'[u] = job[u]
    BY StepsAreLocal DEF OthersAlone, ServiceInv
  <1>2. ASSUME NEW d \in staging', ~\E u \in Threads : OwnsUpload(u, d)'
        PROVE  d \in staging /\ ~\E u \in Threads : OwnsUpload(u, d)
    <2>1. d \in staging /\ ~OwnsUpload(t, d)
      BY <1>2, UploadsKept
    <2>2. \A u \in Threads \ {t} : ~OwnsUpload(u, d)
      BY <1>1, <1>2 DEF OwnsUpload
    <2>3. QED
      BY <2>1, <2>2
  <1>3. ASSUME NEW d \in dirs' \cap TempNames, ~\E u \in Threads : OwnsSnapshot(u, d)'
        PROVE  d \in dirs /\ ~\E u \in Threads : OwnsSnapshot(u, d)
    <2>1. d \in dirs /\ ~OwnsSnapshot(t, d)
      BY <1>3, SnapshotsKept
    <2>2. \A u \in Threads \ {t} : ~OwnsSnapshot(u, d)
      BY <1>1, <1>3 DEF OwnsSnapshot
    <2>3. QED
      BY <2>1, <2>2
  <1>4. QED
    BY <1>2, <1>3 DEF Abandoned, OwnsUpload, OwnsSnapshot

LEMMA QuietInductive ==
  ServiceInv /\ DestinationFree /\ OutcomeInv /\ [Next]_vars => (Undisturbed => Quiet)'
  <1> SUFFICES ASSUME ServiceInv, DestinationFree, OutcomeInv, [Next]_vars, Undisturbed'
               PROVE  Quiet'
    BY DEF Undisturbed
  <1>1. ControlInv
    BY DEF ServiceInv
  <1>2. /\ Undisturbed /\ faults' = faults
        /\ (\E t \in Threads : Begins(t) \/ Step(t)) \/ UNCHANGED vars
    BY <1>1, UndisturbedBefore
  <1>3. Quiet /\ HandlerInv /\ SideFiles /\ \A t \in Threads : OutcomeOf(t)
    BY <1>2 DEF OutcomeInv
  <1>4. ASSUME NEW t \in Threads, Begins(t) \/ Step(t)
        PROVE  Quiet'
    <2>1. Untroubled'
      BY <1>1, <1>2, <1>3, <1>4, UntroubledStep DEF Quiet
    <2>2. SignaturesPaired'
      <3>1. OthersAlone(t)
        BY <1>1, <1>4, StepsAreLocal
      <3>2. CASE UNCHANGED <<pkgs, sigs, torn>> /\ pc[t] \notin {"sign", "removeSig"}
        <4>1. \A u \in Threads : pc[u] \in {"sign", "removeSig"} =>
                  pc'[u] = pc[u] /\ File(u)' = File(u)
          BY <3>1, <3>2 DEF OthersAlone, File
        <4>2. ASSUME NEW s \in sigs
              PROVE  SignatureBacked(s)'
          <5>1. SignatureBacked(s)
            BY <1>3 DEF Quiet, SignaturesPaired
          <5>2. QED
            BY <3>2, <4>1, <5>1 DEF SignatureBacked
        <4>3. ASSUME NEW x \in pkgs
              PROVE  PackageSigned(x)'
          <5>1. PackageSigned(x)
            BY <1>3 DEF Quiet, SignaturesPaired
          <5>2. QED
            BY <3>2, <4>1, <5>1 DEF PackageSigned
        <4>4. QED
          BY <3>2, <4>2, <4>3 DEF SignaturesPaired
      <3>3. CASE \/ pc[t] = "copy" /\ CopyTree(job[t].repo, temp[t])
                 \/ /\ pc[t] = "relabel" /\ ~Relabelling(t) /\ job[t].to \notin dirs
                    /\ MoveTree(temp[t], job[t].to)
                 \/ pc[t] = "purge" /\ (PurgeFile(t) \/ PurgeArchitecture(t))
        BY <1>3, <3>3, SignaturesTreeWork DEF Quiet
      <3>4. CASE \/ /\ pc[t] = "install" /\ pc'[t] = AfterInstall(t)
                    /\ pkgs' = Placed(pkgs, File(t)) /\ UNCHANGED <<sigs, torn, job, subject>>
                 \/ /\ pc[t] = "sign" /\ pc'[t] = "add"
                    /\ sigs' = Placed(sigs, File(t)) /\ UNCHANGED <<pkgs, torn, job, subject>>
                 \/ /\ pc[t] = "removeFile" /\ pc'[t] = "removeSig"
                    /\ pkgs' = Unlinked(pkgs, File(t)) /\ UNCHANGED <<sigs, torn, job, subject>>
                 \/ /\ pc[t] = "removeSig" /\ pc'[t] = "unlock"
                    /\ sigs' = Unlinked(sigs, File(t)) /\ UNCHANGED <<pkgs, torn, job, subject>>
        BY <1>3, <3>1, <3>4, SignaturesPairWork DEF Quiet
      <3>5. QED
        BY <1>1, <1>2, <1>3, <1>4, <3>2, <3>3, <3>4, QuietFiles DEF Quiet
    <2>3. QED
      BY <2>1, <2>2 DEF Quiet
  <1>5. CASE UNCHANGED vars
    <2>1. UNCHANGED <<cmdLocks, pc, sigs, pkgs, torn, job, subject>>
      BY <1>5 DEF vars, disk, files, marks, request
    <2>2. Untroubled'
      BY <1>3, <2>1 DEF Quiet, Untroubled
    <2>3. SignaturesPaired'
      BY <1>3, <2>1 DEF Quiet, SignaturesPaired, SignatureBacked, PackageSigned, File
    <2>4. QED
      BY <2>2, <2>3 DEF Quiet
  <1>6. QED
    BY <1>2, <1>4, <1>5

-----------------------------------------------------------------------------
(* What the handlers make of the disk, from the first state on.            *)
LEMMA InitOutcome == Init => OutcomeInv
  <1> SUFFICES ASSUME Init
               PROVE  OutcomeInv
    OBVIOUS
  <1>1. /\ \A t \in Threads : /\ pc[t] = "idle" /\ job[t] = NoJob /\ temp[t] = None
                              /\ reply[t] = "pending"
        /\ entries = {} /\ sigs = {} /\ pkgs = {} /\ cmdLocks = {} /\ staging = {}
        /\ dirs = {}
    BY DEF Init
  <1>2. HandlerInv
    BY <1>1 DEF HandlerInv, HandlerFits, NoJob, RenameJobs, DeleteJobs
  <1>3. SideFiles /\ OneVersionListed
    BY <1>1 DEF SideFiles, OneVersionListed
  <1>4. \A t \in Threads : OutcomeOf(t)
    BY <1>1 DEF OutcomeOf, Installed, Delisted, SnapshotTrue, NothingLost, Truthful
  <1>5. Quiet
    BY <1>1 DEF Quiet, Untroubled, SignaturesPaired
  <1>6. QED
    BY <1>2, <1>3, <1>4, <1>5 DEF OutcomeInv

LEMMA OutcomeInductive ==
  ServiceInv /\ DestinationFree /\ OutcomeInv /\ [Next]_vars => OutcomeInv'
  <1> SUFFICES ASSUME ServiceInv, DestinationFree, OutcomeInv, [Next]_vars
               PROVE  OutcomeInv'
    OBVIOUS
  <1>1. HandlerInv'
    BY HandlerInductive DEF ServiceInv, OutcomeInv
  <1>2. SideFiles'
    BY SideFilesInductive DEF OutcomeInv
  <1>3. OneVersionListed'
    BY OneVersionInductive
  <1>4. \A t \in Threads : OutcomeOf(t)'
    BY OutcomesInductive
  <1>5. (Undisturbed => Quiet)'
    BY QuietInductive
  <1>6. QED
    BY <1>1, <1>2, <1>3, <1>4, <1>5 DEF OutcomeInv

(* The inductive invariant behind what the requests come to: every handler *)
(* has established what its call relies on, and while nothing has failed   *)
(* every signature belongs to its package (service.go:148-369).            *)
THEOREM OutcomeInvariant == Spec => []OutcomeInv
  <1>1. QED
    BY InitOutcome, ServiceInvariant, DestinationStaysFree, OutcomeInductive, PTL DEF Spec

(* A success about to be reported is still true: published means listed    *)
(* and there, removed means gone with its signature, created means there,  *)
(* and nothing is left of what was renamed or removed (the returns of      *)
(* service.go:196, 235, 322, 341 and 367).                                 *)
THEOREM RepliesTruthfulAlways == Spec => []RepliesTruthful
  <1>1. OutcomeInv => RepliesTruthful
    BY DEF OutcomeInv, OutcomeOf, Truthful, RepliesTruthful
  <1>2. QED
    BY <1>1, OutcomeInvariant, PTL

(* A database never lists two versions of a package: repo-add replaces the *)
(* entry, and neither a copy nor a renamed database brings a second one    *)
(* (service.go:188, 303-318).                                              *)
THEOREM OneVersionListedAlways == Spec => []OneVersionListed
  <1>1. OutcomeInv => OneVersionListed
    BY DEF OutcomeInv
  <1>2. QED
    BY <1>1, OutcomeInvariant, PTL

LEMMA EntryUnder ==
  ASSUME NEW e \in Entries, NEW r \in Repos
  PROVE  [e EXCEPT !.repo = r, !.name = r] = EntryIn(r, e)
  <1>1. PICK f \in Entries : f = [e EXCEPT !.repo = r]
    BY DEF Entries, Dirs
  <1>2. f.repo = r /\ f.arch = e.arch /\ f.up = e.up
    BY <1>1 DEF Entries
  <1>3. [f EXCEPT !.name = r] = EntryIn(r, e)
    BY <1>2 DEF Entries, EntryIn
  <1>4. [e EXCEPT !.repo = r, !.name = r] = [f EXCEPT !.name = r]
    BY <1>1 DEF Entries
  <1>5. QED
    BY <1>3, <1>4

(* While Rename removes the old repository, all that is left of it is also *)
(* under the new name, listed in its database: a process that dies here    *)
(* loses no package (service.go:303-321).                                  *)
THEOREM RenameLosesNothingAlways == Spec => []RenameLosesNothing
  <1>1. ServiceInv /\ OutcomeInv => RenameLosesNothing
    <2> SUFFICES ASSUME ServiceInv, OutcomeInv, NEW t \in Threads,
                        pc[t] = "purge", job[t].op = "rename"
                 PROVE  /\ Copies(pkgs, job[t].repo, job[t].to) \subseteq pkgs
                        /\ Copies(sigs, job[t].repo, job[t].to) \subseteq sigs
                        /\ \A e \in Under(entries, job[t].repo) :
                               [e EXCEPT !.repo = job[t].to, !.name = job[t].to] \in entries
      BY DEF RenameLosesNothing
    <2>1. NothingLost(t)
      BY DEF OutcomeInv, OutcomeOf
    <2>2. ASSUME NEW e \in Under(entries, job[t].repo)
          PROVE  [e EXCEPT !.repo = job[t].to, !.name = job[t].to] = EntryIn(job[t].to, e)
      <3>1. e \in Entries
        BY DEF Under, ServiceInv, ControlInv, TypeOK
      <3>2. job[t].to \in Repos
        BY DEF OutcomeInv, HandlerInv, HandlerFits, RenameJobs, DeleteJobs
      <3>3. QED
        BY <3>1, <3>2, EntryUnder
    <2>3. QED
      BY <2>1, <2>2 DEF NothingLost
  <1>2. QED
    BY <1>1, ServiceInvariant, OutcomeInvariant, PTL

(* Whatever else fails, no step but the death of a process or a failure of *)
(* the very call that removes it leaves an upload directory or a hidden    *)
(* snapshot that no handler is going to remove: every return path runs     *)
(* Cleanup, and the deferred RemoveAll of a snapshot that was not          *)
(* installed (service.go:78, 150, 302).                                    *)
THEOREM TemporariesReclaimedAlways == Spec => TemporariesReclaimed
  <1>1. ServiceInv /\ OutcomeInv /\ [Next]_vars =>
            [crashes' = crashes /\ ~RemovalFailed => Abandoned' \subseteq Abandoned]_vars
    <2> SUFFICES ASSUME ServiceInv, HandlerInv, Next, crashes' = crashes, ~RemovalFailed
                 PROVE  Abandoned' \subseteq Abandoned
      BY DEF OutcomeInv
    <2>1. CASE \E t \in Threads : Begins(t) \/ Step(t)
      BY <2>1, NothingAbandoned
    <2>2. CASE \E process \in Processes : Crash(process)
      <3>1. crashes # crashes + 1
        BY ServiceAssumption DEF ServiceInv, ControlInv, TypeOK
      <3>2. QED
        BY <2>2, <3>1 DEF Crash
    <2>3. CASE Rest
      BY <2>3 DEF Rest, vars, Abandoned, disk, folders, request, context
    <2>4. QED
      BY <2>1, <2>2, <2>3 DEF Next
  <1>2. QED
    BY <1>1, ServiceInvariant, OutcomeInvariant, PTL DEF Spec, TemporariesReclaimed

(* While nothing fails, a listed package has the signature it was uploaded *)
(* with and no other: nobody is between its installation and that of its   *)
(* signature, or between the two unlinks, for a package that is listed     *)
(* (service.go:180-186, 221-234).                                          *)
THEOREM SignaturesFaithfulAlways == Spec => []SignaturesFaithful
  <1>1. ServiceInv /\ OutcomeInv => SignaturesFaithful
    <2> SUFFICES ASSUME ServiceInv, OutcomeInv, Undisturbed, NEW e \in entries,
                        PlaceOf(e) \notin torn
                 PROVE  {s.up : s \in {x \in sigs : SamePath(x, FileOfEntry(e))}}
                            = {e.up} \cap Signed
      BY DEF SignaturesFaithful
    <2> DEFINE file == FileOfEntry(e)
    <2>1. /\ file \in pkgs /\ file.up = e.up /\ PlaceOf(file) = PlaceOf(e)
          /\ SamePath(file, file)
      BY DEF ServiceInv, DiskInv, DatabaseBacked, FileOfEntry, PlaceOf, SamePath
    <2>2. ASSUME NEW u \in Threads, pc[u] \in {"sign", "removeSig"}
          PROVE  ~SamePath(file, File(u))
      <3>1. CASE pc[u] = "sign"
        <4>1. At(u) \in torn \/ ~SamePath(file, File(u))
          BY <3>1 DEF ServiceInv, DiskInv, ThreadInv, PathClaimed
        <4>2. SamePath(file, File(u)) => At(u) = PlaceOf(e)
          BY DEF SamePath, File, At, FileOfEntry, PlaceOf
        <4>3. QED
          BY <4>1, <4>2
      <3>2. CASE pc[u] = "removeSig"
        BY <2>1, <3>2 DEF OutcomeInv, OutcomeOf, Delisted
      <3>3. QED
        BY <2>2, <3>1, <3>2
    <2>3. ASSUME NEW s \in sigs, SamePath(s, file)
          PROVE  s.up = e.up /\ e.up \in Signed
      <3>1. PlaceOf(s) = PlaceOf(e)
        BY <2>3 DEF SamePath, FileOfEntry, PlaceOf
      <3>2. \A u \in Threads : pc[u] = "removeSig" => ~SamePath(s, File(u))
        BY <2>2, <2>3 DEF SamePath
      <3>3. s.up \in Signed /\ s \in pkgs
        BY <3>1, <3>2 DEF OutcomeInv, Quiet, SignaturesPaired, SignatureBacked
      <3>4. s = file
        BY <2>1, <2>3, <3>3 DEF ServiceInv, DiskInv, PathsUnique
      <3>5. QED
        BY <2>1, <3>3, <3>4
    <2>4. ASSUME e.up \in Signed
          PROVE  file \in sigs
      <3>1. \A u \in Threads : pc[u] = "sign" => File(u) # file
        BY <2>1, <2>2
      <3>2. QED
        BY <2>1, <2>4, <3>1 DEF OutcomeInv, Quiet, SignaturesPaired, PackageSigned
    <2>5. QED
      BY <2>1, <2>3, <2>4
  <1>2. QED
    BY <1>1, ServiceInvariant, OutcomeInvariant, PTL
=============================================================================
