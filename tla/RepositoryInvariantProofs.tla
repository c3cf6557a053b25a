---------------------- MODULE RepositoryInvariantProofs ----------------------
(***************************************************************************)
(* The invariant of RepositoryService holds in every state.                *)
(*                                                                         *)
(* Its control half, ControlInv, comes first, an action at a time: what a  *)
(* request may be about at each call, which locks it owns there, and that  *)
(* locks exclude.  DiskInv relies on it: a step of one thread touches one  *)
(* pair, which it owns, or happens alone.  At the end, the theorems that   *)
(* follow, and that package files are never overwritten.                   *)
(***************************************************************************)
EXTENDS RepositoryInvariant, TLAPS

-----------------------------------------------------------------------------
(* Requests and locks.                                                     *)

LEMMA BeginUploadControl ==
  ASSUME ControlInv, NEW t \in Threads, BeginUpload(t)
  PROVE  ControlInv'
  <1> USE ServiceAssumption DEF ControlInv, BeginUpload, Go, disk, folders, files,
             database, marks, context, request, budgets
  <1>1. TypeOK'
    BY DEF TypeOK, Calls, PublishCalls, RemoveCalls, LifecycleCalls, Begin,
       Keys, PublishJobs
  <1>2. JobsFit'
    BY DEF TypeOK, JobsFit, Calls, PublishCalls, RemoveCalls, LifecycleCalls,
       Begin, Keys, PublishJobs
  <1>3. LocksHeld'
    BY DEF TypeOK, LocksHeld, Calls, PublishCalls, RemoveCalls,
       LifecycleCalls, PairWriters, LifecycleWriters, At, Begin
  <1>4. Lock!MutualExclusion'
    BY DEF TypeOK, Lock!MutualExclusion, Begin
  <1>5. QED
    BY <1>1, <1>2, <1>3, <1>4

LEMMA ReceiveUploadControl ==
  ASSUME ControlInv, NEW t \in Threads, ReceiveUpload(t)
  PROVE  ControlInv'
  <1> USE ServiceAssumption DEF ControlInv, ReceiveUpload, Go, disk, folders, files,
             database, marks, context, request, budgets
  <1>1. TypeOK'
    BY DEF TypeOK, Calls, PublishCalls, RemoveCalls, LifecycleCalls, Proceed,
       Refuse, Answer
  <1>2. JobsFit'
    BY DEF TypeOK, JobsFit, Calls, PublishCalls, RemoveCalls, LifecycleCalls,
       Proceed, Refuse, Answer
  <1>3. LocksHeld'
    BY DEF TypeOK, LocksHeld, Calls, PublishCalls, RemoveCalls,
       LifecycleCalls, PairWriters, LifecycleWriters, At, Proceed, Refuse,
       Answer
  <1>4. Lock!MutualExclusion'
    BY DEF TypeOK, Lock!MutualExclusion, Proceed, Refuse, Answer
  <1>5. QED
    BY <1>1, <1>2, <1>3, <1>4

LEMMA LockForPublishControl ==
  ASSUME ControlInv, NEW t \in Threads, LockForPublish(t)
  PROVE  ControlInv'
  <1> USE ServiceAssumption DEF ControlInv, LockForPublish, Go, disk, folders, files,
             database, marks, context, request, budgets
  <1>1. TypeOK'
    BY DEF TypeOK, Calls, PublishCalls, RemoveCalls, LifecycleCalls, Refuse,
       Answer, Fault, Lock!Acquire, Lock!Free, JobsFit, At, PublishJobs, Keys
  <1>2. JobsFit'
    BY DEF TypeOK, JobsFit, Calls, PublishCalls, RemoveCalls, LifecycleCalls,
       Refuse, Answer, Fault, Lock!Acquire, Lock!Free
  <1>3. LocksHeld'
    BY DEF TypeOK, LocksHeld, Calls, PublishCalls, RemoveCalls,
       LifecycleCalls, PairWriters, LifecycleWriters, At, Refuse, Answer,
       Fault, Lock!Acquire, Lock!Free
  <1>4. Lock!MutualExclusion'
    BY DEF TypeOK, Lock!MutualExclusion, Refuse, Answer, Fault, Lock!Acquire,
       Lock!Free
  <1>5. QED
    BY <1>1, <1>2, <1>3, <1>4

LEMMA InspectControl ==
  ASSUME ControlInv, NEW t \in Threads, Inspect(t)
  PROVE  ControlInv'
  <1> USE ServiceAssumption DEF ControlInv, Inspect, Fault, Go, disk, folders, files,
             database, marks, context, request, budgets
  <1>1. TypeOK'
    BY DEF TypeOK, Calls, PublishCalls, RemoveCalls, LifecycleCalls, Proceed,
       Refuse, Answer
  <1>2. JobsFit'
    BY DEF TypeOK, JobsFit, Calls, PublishCalls, RemoveCalls, LifecycleCalls,
       Proceed, Refuse, Answer
  <1>3. LocksHeld'
    BY DEF TypeOK, LocksHeld, Calls, PublishCalls, RemoveCalls,
       LifecycleCalls, PairWriters, LifecycleWriters, At, Proceed, Refuse,
       Answer
  <1>4. Lock!MutualExclusion'
    BY DEF TypeOK, Lock!MutualExclusion, Proceed, Refuse, Answer
  <1>5. QED
    BY <1>1, <1>2, <1>3, <1>4

LEMMA MakeDirectoryControl ==
  ASSUME ControlInv, NEW t \in Threads, MakeDirectory(t)
  PROVE  ControlInv'
  <1> USE ServiceAssumption DEF ControlInv, MakeDirectory, Go, disk, folders, files,
             database, marks, context, request, budgets
  <1>1. TypeOK'
    BY DEF TypeOK, Calls, PublishCalls, RemoveCalls, LifecycleCalls, Answer,
       Fault, JobsFit, At, Places, Databases, Dirs, PublishJobs
  <1>2. JobsFit'
    BY DEF TypeOK, JobsFit, Calls, PublishCalls, RemoveCalls, LifecycleCalls,
       Answer, Fault
  <1>3. LocksHeld'
    BY DEF TypeOK, LocksHeld, Calls, PublishCalls, RemoveCalls,
       LifecycleCalls, PairWriters, LifecycleWriters, At, Answer, Fault
  <1>4. Lock!MutualExclusion'
    BY DEF TypeOK, Lock!MutualExclusion, Answer, Fault
  <1>5. QED
    BY <1>1, <1>2, <1>3, <1>4

LEMMA StatDestinationControl ==
  ASSUME ControlInv, NEW t \in Threads, StatDestination(t)
  PROVE  ControlInv'
  <1> USE ServiceAssumption DEF ControlInv, StatDestination, Go, disk, folders, files,
             database, marks, context, request, budgets
  <1>1. TypeOK'
    BY DEF TypeOK, Calls, PublishCalls, RemoveCalls, LifecycleCalls, Proceed,
       Refuse, Answer, Fault
  <1>2. JobsFit'
    BY DEF TypeOK, JobsFit, Calls, PublishCalls, RemoveCalls, LifecycleCalls,
       Proceed, Refuse, Answer, Fault
  <1>3. LocksHeld'
    BY DEF TypeOK, LocksHeld, Calls, PublishCalls, RemoveCalls,
       LifecycleCalls, PairWriters, LifecycleWriters, At, Proceed, Refuse,
       Answer, Fault
  <1>4. Lock!MutualExclusion'
    BY DEF TypeOK, Lock!MutualExclusion, Proceed, Refuse, Answer, Fault
  <1>5. QED
    BY <1>1, <1>2, <1>3, <1>4

LEMMA InstallPackageControl ==
  ASSUME ControlInv, NEW t \in Threads, InstallPackage(t)
  PROVE  ControlInv'
  <1> USE ServiceAssumption DEF ControlInv, InstallPackage, Go, disk, folders, files,
             database, marks, context, request, budgets
  <1>1. TypeOK'
    BY DEF TypeOK, Calls, PublishCalls, RemoveCalls, LifecycleCalls,
       AfterInstall, Refuse, Answer, Fault, JobsFit, Placed, Unlinked, File,
       Files, Dirs, PublishJobs
  <1>2. JobsFit'
    BY DEF TypeOK, JobsFit, Calls, PublishCalls, RemoveCalls, LifecycleCalls,
       AfterInstall, Refuse, Answer, Fault
  <1>3. LocksHeld'
    BY DEF TypeOK, LocksHeld, Calls, PublishCalls, RemoveCalls,
       LifecycleCalls, PairWriters, LifecycleWriters, At, AfterInstall,
       Refuse, Answer, Fault
  <1>4. Lock!MutualExclusion'
    BY DEF TypeOK, Lock!MutualExclusion, AfterInstall, Refuse, Answer, Fault
  <1>5. QED
    BY <1>1, <1>2, <1>3, <1>4

LEMMA InstallSignatureControl ==
  ASSUME ControlInv, NEW t \in Threads, InstallSignature(t)
  PROVE  ControlInv'
  <1> USE ServiceAssumption DEF ControlInv, InstallSignature, Go, disk, folders, files,
             database, marks, context, request, budgets
  <1>1. TypeOK'
    BY DEF TypeOK, Calls, PublishCalls, RemoveCalls, LifecycleCalls, Answer,
       Fault, JobsFit, Placed, Unlinked, File, Files, Dirs, PublishJobs
  <1>2. JobsFit'
    BY DEF TypeOK, JobsFit, Calls, PublishCalls, RemoveCalls, LifecycleCalls,
       Answer, Fault
  <1>3. LocksHeld'
    BY DEF TypeOK, LocksHeld, Calls, PublishCalls, RemoveCalls,
       LifecycleCalls, PairWriters, LifecycleWriters, At, Answer, Fault
  <1>4. Lock!MutualExclusion'
    BY DEF TypeOK, Lock!MutualExclusion, Answer, Fault
  <1>5. QED
    BY <1>1, <1>2, <1>3, <1>4

LEMMA AddEntryControl ==
  ASSUME ControlInv, NEW t \in Threads, AddEntry(t)
  PROVE  ControlInv'
  <1> USE ServiceAssumption DEF ControlInv, AddEntry, Go, disk, folders, files,
             database, marks, context, request, budgets
  <1>1. TypeOK'
    BY DEF TypeOK, Calls, PublishCalls, RemoveCalls, LifecycleCalls, Answer,
       Fault, ListPackage, LeaveCommandLock, CommandLocked, Database, JobsFit, Entry, Entries,
       Database, Databases, At, Places, Databases, Dirs, Files, PublishJobs
  <1>2. JobsFit'
    BY DEF TypeOK, JobsFit, Calls, PublishCalls, RemoveCalls, LifecycleCalls,
       Answer, Fault, ListPackage, LeaveCommandLock, CommandLocked, Database
  <1>3. LocksHeld'
    BY DEF TypeOK, LocksHeld, Calls, PublishCalls, RemoveCalls,
       LifecycleCalls, PairWriters, LifecycleWriters, At, Answer, Fault,
       ListPackage, LeaveCommandLock, CommandLocked, Database
  <1>4. Lock!MutualExclusion'
    BY DEF TypeOK, Lock!MutualExclusion, Answer, Fault, ListPackage,
       LeaveCommandLock, CommandLocked, Database
  <1>5. QED
    BY <1>1, <1>2, <1>3, <1>4

LEMMA AddFailsControl ==
  ASSUME ControlInv, NEW t \in Threads, AddFails(t)
  PROVE  ControlInv'
  <1> USE ServiceAssumption DEF ControlInv, AddFails, Go, disk, folders, files,
             database, marks, context, request, budgets
  <1>1. TypeOK'
    BY DEF TypeOK, Calls, PublishCalls, RemoveCalls, LifecycleCalls, Answer,
       Fault, LeaveCommandLock, CommandLocked, Database, Cancel, Refuse, JobsFit, At, Places, Databases, Dirs,
       PublishJobs
  <1>2. JobsFit'
    BY DEF TypeOK, JobsFit, Calls, PublishCalls, RemoveCalls, LifecycleCalls,
       Answer, Fault, LeaveCommandLock, CommandLocked, Database, Cancel, Refuse
  <1>3. LocksHeld'
    BY DEF TypeOK, LocksHeld, Calls, PublishCalls, RemoveCalls,
       LifecycleCalls, PairWriters, LifecycleWriters, At, Answer, Fault,
       LeaveCommandLock, CommandLocked, Database, Cancel, Refuse
  <1>4. Lock!MutualExclusion'
    BY DEF TypeOK, Lock!MutualExclusion, Answer, Fault, LeaveCommandLock, CommandLocked, Database,
       Cancel, Refuse
  <1>5. QED
    BY <1>1, <1>2, <1>3, <1>4

LEMMA UndoPackageControl ==
  ASSUME ControlInv, NEW t \in Threads, UndoPackage(t)
  PROVE  ControlInv'
  <1> USE ServiceAssumption DEF ControlInv, UndoPackage, Go, disk, folders, files,
             database, marks, context, request, budgets
  <1>1. TypeOK'
    BY DEF TypeOK, Calls, PublishCalls, RemoveCalls, LifecycleCalls,
       AfterUndo, Fault, Unlinked
  <1>2. JobsFit'
    BY DEF TypeOK, JobsFit, Calls, PublishCalls, RemoveCalls, LifecycleCalls,
       AfterUndo, Fault
  <1>3. LocksHeld'
    BY DEF TypeOK, LocksHeld, Calls, PublishCalls, RemoveCalls,
       LifecycleCalls, PairWriters, LifecycleWriters, At, AfterUndo, Fault
  <1>4. Lock!MutualExclusion'
    BY DEF TypeOK, Lock!MutualExclusion, AfterUndo, Fault
  <1>5. QED
    BY <1>1, <1>2, <1>3, <1>4

LEMMA UndoSignatureControl ==
  ASSUME ControlInv, NEW t \in Threads, UndoSignature(t)
  PROVE  ControlInv'
  <1> USE ServiceAssumption DEF ControlInv, UndoSignature, Go, disk, folders, files,
             database, marks, context, request, budgets
  <1>1. TypeOK'
    BY DEF TypeOK, Calls, PublishCalls, RemoveCalls, LifecycleCalls, Fault,
       Unlinked
  <1>2. JobsFit'
    BY DEF TypeOK, JobsFit, Calls, PublishCalls, RemoveCalls, LifecycleCalls,
       Fault
  <1>3. LocksHeld'
    BY DEF TypeOK, LocksHeld, Calls, PublishCalls, RemoveCalls,
       LifecycleCalls, PairWriters, LifecycleWriters, At, Fault
  <1>4. Lock!MutualExclusion'
    BY DEF TypeOK, Lock!MutualExclusion, Fault
  <1>5. QED
    BY <1>1, <1>2, <1>3, <1>4

LEMMA UnlockControl ==
  ASSUME ControlInv, NEW t \in Threads, Unlock(t)
  PROVE  ControlInv'
  <1> USE ServiceAssumption DEF ControlInv, Unlock, Go, disk, folders, files,
             database, marks, context, request, budgets
  <1>1. TypeOK'
    BY DEF TypeOK, Calls, PublishCalls, RemoveCalls, LifecycleCalls, Forget,
       Answer, Lock!Release, Keys
  <1>2. JobsFit'
    BY DEF TypeOK, JobsFit, Calls, PublishCalls, RemoveCalls, LifecycleCalls,
       Forget, Answer, Lock!Release, NoJob, RemoveJobs, LifecycleJobs,
       RenameJobs, CreateJobs, DeleteJobs
  <1>3. LocksHeld'
    BY DEF TypeOK, LocksHeld, Calls, PublishCalls, RemoveCalls,
       LifecycleCalls, PairWriters, LifecycleWriters, At, Forget, Answer,
       Lock!Release
  <1>4. Lock!MutualExclusion'
    BY DEF TypeOK, Lock!MutualExclusion, Forget, Answer, Lock!Release
  <1>5. QED
    BY <1>1, <1>2, <1>3, <1>4

LEMMA CleanupControl ==
  ASSUME ControlInv, NEW t \in Threads, Cleanup(t)
  PROVE  ControlInv'
  <1> USE ServiceAssumption DEF ControlInv, Cleanup, Go, disk, folders, files,
             database, marks, context, request, budgets
  <1>1. TypeOK'
    BY DEF TypeOK, Calls, PublishCalls, RemoveCalls, LifecycleCalls, Forget,
       Answer, Fault
  <1>2. JobsFit'
    BY DEF TypeOK, JobsFit, Calls, PublishCalls, RemoveCalls, LifecycleCalls,
       Forget, Answer, Fault
  <1>3. LocksHeld'
    BY DEF TypeOK, LocksHeld, Calls, PublishCalls, RemoveCalls,
       LifecycleCalls, PairWriters, LifecycleWriters, At, Forget, Answer,
       Fault
  <1>4. Lock!MutualExclusion'
    BY DEF TypeOK, Lock!MutualExclusion, Forget, Answer, Fault
  <1>5. QED
    BY <1>1, <1>2, <1>3, <1>4

LEMMA BeginRemoveControl ==
  ASSUME ControlInv, NEW t \in Threads, BeginRemove(t)
  PROVE  ControlInv'
  <1> USE ServiceAssumption DEF ControlInv, BeginRemove, Go, disk, folders, files,
             database, marks, context, request, budgets
  <1>1. TypeOK'
    BY DEF TypeOK, Calls, PublishCalls, RemoveCalls, LifecycleCalls, Begin,
       Keys, RemoveJobs
  <1>2. JobsFit'
    BY DEF TypeOK, JobsFit, Calls, PublishCalls, RemoveCalls, LifecycleCalls,
       Begin, Keys, RemoveJobs
  <1>3. LocksHeld'
    BY DEF TypeOK, LocksHeld, Calls, PublishCalls, RemoveCalls,
       LifecycleCalls, PairWriters, LifecycleWriters, At, Begin
  <1>4. Lock!MutualExclusion'
    BY DEF TypeOK, Lock!MutualExclusion, Begin
  <1>5. QED
    BY <1>1, <1>2, <1>3, <1>4

LEMMA LockForRemoveControl ==
  ASSUME ControlInv, NEW t \in Threads, LockForRemove(t)
  PROVE  ControlInv'
  <1> USE ServiceAssumption DEF ControlInv, LockForRemove, Go, disk, folders, files,
             database, marks, context, request, budgets
  <1>1. TypeOK'
    BY DEF TypeOK, Calls, PublishCalls, RemoveCalls, LifecycleCalls,
       RefuseRequest, Forget, Fault, Lock!Acquire, Lock!Free, JobsFit, At,
       RemoveJobs, Keys
  <1>2. JobsFit'
    BY DEF TypeOK, JobsFit, Calls, PublishCalls, RemoveCalls, LifecycleCalls,
       RefuseRequest, Forget, Fault, Lock!Acquire, Lock!Free
  <1>3. LocksHeld'
    BY DEF TypeOK, LocksHeld, Calls, PublishCalls, RemoveCalls,
       LifecycleCalls, PairWriters, LifecycleWriters, At, RefuseRequest,
       Forget, Fault, Lock!Acquire, Lock!Free
  <1>4. Lock!MutualExclusion'
    BY DEF TypeOK, Lock!MutualExclusion, RefuseRequest, Forget, Fault,
       Lock!Acquire, Lock!Free
  <1>5. QED
    BY <1>1, <1>2, <1>3, <1>4

LEMMA FindPackageControl ==
  ASSUME ControlInv, NEW t \in Threads, FindPackage(t)
  PROVE  ControlInv'
  <1> USE ServiceAssumption DEF ControlInv, FindPackage, Go, disk, folders, files,
             database, marks, context, request, budgets
  <1>1. TypeOK'
    BY DEF TypeOK, Calls, PublishCalls, RemoveCalls, LifecycleCalls, Refuse,
       Answer, Fault, Matches, Listing, In, Entries
  <1>2. JobsFit'
    BY DEF TypeOK, JobsFit, Calls, PublishCalls, RemoveCalls, LifecycleCalls,
       Refuse, Answer, Fault, Matches, Listing, In, Entries, RemoveJobs
  <1>3. LocksHeld'
    BY DEF TypeOK, LocksHeld, Calls, PublishCalls, RemoveCalls,
       LifecycleCalls, PairWriters, LifecycleWriters, At, Refuse, Answer,
       Fault, Matches, Listing, In
  <1>4. Lock!MutualExclusion'
    BY DEF TypeOK, Lock!MutualExclusion, Refuse, Answer, Fault, Matches,
       Listing, In
  <1>5. QED
    BY <1>1, <1>2, <1>3, <1>4

LEMMA RemoveEntryControl ==
  ASSUME ControlInv, NEW t \in Threads, RemoveEntry(t)
  PROVE  ControlInv'
  <1> USE ServiceAssumption DEF ControlInv, RemoveEntry, Go, disk, folders, files,
             database, marks, context, request, budgets
  <1>1. TypeOK'
    BY DEF TypeOK, Calls, PublishCalls, RemoveCalls, LifecycleCalls, Answer,
       Fault, DelistPackage, LeaveCommandLock, CommandLocked, Database, JobsFit, At, Places, Databases, Dirs,
       RemoveJobs
  <1>2. JobsFit'
    BY DEF TypeOK, JobsFit, Calls, PublishCalls, RemoveCalls, LifecycleCalls,
       Answer, Fault, DelistPackage, LeaveCommandLock, CommandLocked, Database, RemoveJobs
  <1>3. LocksHeld'
    BY DEF TypeOK, LocksHeld, Calls, PublishCalls, RemoveCalls,
       LifecycleCalls, PairWriters, LifecycleWriters, At, Answer, Fault,
       DelistPackage, LeaveCommandLock, CommandLocked, Database
  <1>4. Lock!MutualExclusion'
    BY DEF TypeOK, Lock!MutualExclusion, Answer, Fault, DelistPackage,
       LeaveCommandLock, CommandLocked, Database
  <1>5. QED
    BY <1>1, <1>2, <1>3, <1>4

LEMMA RemoveEntryFailsControl ==
  ASSUME ControlInv, NEW t \in Threads, RemoveEntryFails(t)
  PROVE  ControlInv'
  <1> USE ServiceAssumption DEF ControlInv, RemoveEntryFails, Go, disk, folders, files,
             database, marks, context, request, budgets
  <1>1. TypeOK'
    BY DEF TypeOK, Calls, PublishCalls, RemoveCalls, LifecycleCalls, Answer,
       Fault, LeaveCommandLock, CommandLocked, Database, Cancel, Refuse, JobsFit, At, Places, Databases, Dirs,
       RemoveJobs
  <1>2. JobsFit'
    BY DEF TypeOK, JobsFit, Calls, PublishCalls, RemoveCalls, LifecycleCalls,
       Answer, Fault, LeaveCommandLock, CommandLocked, Database, Cancel, Refuse, RemoveJobs
  <1>3. LocksHeld'
    BY DEF TypeOK, LocksHeld, Calls, PublishCalls, RemoveCalls,
       LifecycleCalls, PairWriters, LifecycleWriters, At, Answer, Fault,
       LeaveCommandLock, CommandLocked, Database, Cancel, Refuse
  <1>4. Lock!MutualExclusion'
    BY DEF TypeOK, Lock!MutualExclusion, Answer, Fault, LeaveCommandLock, CommandLocked, Database,
       Cancel, Refuse
  <1>5. QED
    BY <1>1, <1>2, <1>3, <1>4

LEMMA RemoveFileControl ==
  ASSUME ControlInv, NEW t \in Threads, RemoveFile(t)
  PROVE  ControlInv'
  <1> USE ServiceAssumption DEF ControlInv, RemoveFile, Go, disk, folders, files,
             database, marks, context, request, budgets
  <1>1. TypeOK'
    BY DEF TypeOK, Calls, PublishCalls, RemoveCalls, LifecycleCalls, Refuse,
       Answer, Fault, Unlinked
  <1>2. JobsFit'
    BY DEF TypeOK, JobsFit, Calls, PublishCalls, RemoveCalls, LifecycleCalls,
       Refuse, Answer, Fault, RemoveJobs
  <1>3. LocksHeld'
    BY DEF TypeOK, LocksHeld, Calls, PublishCalls, RemoveCalls,
       LifecycleCalls, PairWriters, LifecycleWriters, At, Refuse, Answer,
       Fault
  <1>4. Lock!MutualExclusion'
    BY DEF TypeOK, Lock!MutualExclusion, Refuse, Answer, Fault
  <1>5. QED
    BY <1>1, <1>2, <1>3, <1>4

LEMMA RemoveSignatureControl ==
  ASSUME ControlInv, NEW t \in Threads, RemoveSignature(t)
  PROVE  ControlInv'
  <1> USE ServiceAssumption DEF ControlInv, RemoveSignature, Go, disk, folders, files,
             database, marks, context, request, budgets
  <1>1. TypeOK'
    BY DEF TypeOK, Calls, PublishCalls, RemoveCalls, LifecycleCalls, Refuse,
       Answer, Fault, Unlinked
  <1>2. JobsFit'
    BY DEF TypeOK, JobsFit, Calls, PublishCalls, RemoveCalls, LifecycleCalls,
       Refuse, Answer, Fault, RemoveJobs
  <1>3. LocksHeld'
    BY DEF TypeOK, LocksHeld, Calls, PublishCalls, RemoveCalls,
       LifecycleCalls, PairWriters, LifecycleWriters, At, Refuse, Answer,
       Fault
  <1>4. Lock!MutualExclusion'
    BY DEF TypeOK, Lock!MutualExclusion, Refuse, Answer, Fault
  <1>5. QED
    BY <1>1, <1>2, <1>3, <1>4

LEMMA BeginLifecycleControl ==
  ASSUME ControlInv, NEW t \in Threads, BeginLifecycle(t)
  PROVE  ControlInv'
  <1> USE ServiceAssumption DEF ControlInv, BeginLifecycle, Go, disk, folders, files,
             database, marks, context, request, budgets
  <1>1. TypeOK'
    BY DEF TypeOK, Calls, PublishCalls, RemoveCalls, LifecycleCalls, Begin,
       LifecycleJobs, RenameJobs, CreateJobs, DeleteJobs
  <1>2. JobsFit'
    BY DEF TypeOK, JobsFit, Calls, PublishCalls, RemoveCalls, LifecycleCalls,
       Begin, LifecycleJobs, RenameJobs, CreateJobs, DeleteJobs
  <1>3. LocksHeld'
    BY DEF TypeOK, LocksHeld, Calls, PublishCalls, RemoveCalls,
       LifecycleCalls, PairWriters, LifecycleWriters, At, Begin
  <1>4. Lock!MutualExclusion'
    BY DEF TypeOK, Lock!MutualExclusion, Begin
  <1>5. QED
    BY <1>1, <1>2, <1>3, <1>4

LEMMA LockForLifecycleControl ==
  ASSUME ControlInv, NEW t \in Threads, LockForLifecycle(t)
  PROVE  ControlInv'
  <1> USE ServiceAssumption DEF ControlInv, LockForLifecycle, Go, disk, folders, files,
             database, marks, context, request, budgets
  <1>1. TypeOK'
    BY DEF TypeOK, Calls, PublishCalls, RemoveCalls, LifecycleCalls,
       RefuseRequest, Forget, Fault, Lock!Acquire, Lock!Free, LifecycleKeys
  <1>2. JobsFit'
    BY DEF TypeOK, JobsFit, Calls, PublishCalls, RemoveCalls, LifecycleCalls,
       RefuseRequest, Forget, Fault, Lock!Acquire, Lock!Free, LifecycleKeys
  <1>3. LocksHeld'
    BY DEF TypeOK, LocksHeld, Calls, PublishCalls, RemoveCalls,
       LifecycleCalls, PairWriters, LifecycleWriters, At, RefuseRequest,
       Forget, Fault, Lock!Acquire, Lock!Free, LifecycleKeys
  <1>4. Lock!MutualExclusion'
    BY DEF TypeOK, Lock!MutualExclusion, RefuseRequest, Forget, Fault,
       Lock!Acquire, Lock!Free, LifecycleKeys
  <1>5. QED
    BY <1>1, <1>2, <1>3, <1>4

LEMMA CreateControl ==
  ASSUME ControlInv, NEW t \in Threads, Create(t)
  PROVE  ControlInv'
  <1> USE ServiceAssumption DEF ControlInv, Create, Go, disk, folders, files,
             database, marks, context, request, budgets
  <1>1. TypeOK'
    BY DEF TypeOK, Calls, PublishCalls, RemoveCalls, LifecycleCalls, Refuse,
       Answer, Fault, JobsFit, Dirs, LifecycleJobs, RenameJobs, CreateJobs,
       DeleteJobs
  <1>2. JobsFit'
    BY DEF TypeOK, JobsFit, Calls, PublishCalls, RemoveCalls, LifecycleCalls,
       Refuse, Answer, Fault, LifecycleJobs, RenameJobs, CreateJobs,
       DeleteJobs
  <1>3. LocksHeld'
    BY DEF TypeOK, LocksHeld, Calls, PublishCalls, RemoveCalls,
       LifecycleCalls, PairWriters, LifecycleWriters, At, Refuse, Answer,
       Fault
  <1>4. Lock!MutualExclusion'
    BY DEF TypeOK, Lock!MutualExclusion, Refuse, Answer, Fault
  <1>5. QED
    BY <1>1, <1>2, <1>3, <1>4

LEMMA CheckRenameControl ==
  ASSUME ControlInv, NEW t \in Threads, CheckRename(t)
  PROVE  ControlInv'
  <1> USE ServiceAssumption DEF ControlInv, CheckRename, Go, disk, folders, files,
             database, marks, context, request, budgets
  <1>1. TypeOK'
    BY DEF TypeOK, Calls, PublishCalls, RemoveCalls, LifecycleCalls, Proceed,
       Refuse, Answer, Fault
  <1>2. JobsFit'
    BY DEF TypeOK, JobsFit, Calls, PublishCalls, RemoveCalls, LifecycleCalls,
       Proceed, Refuse, Answer, Fault, LifecycleJobs, RenameJobs, CreateJobs,
       DeleteJobs
  <1>3. LocksHeld'
    BY DEF TypeOK, LocksHeld, Calls, PublishCalls, RemoveCalls,
       LifecycleCalls, PairWriters, LifecycleWriters, At, Proceed, Refuse,
       Answer, Fault
  <1>4. Lock!MutualExclusion'
    BY DEF TypeOK, Lock!MutualExclusion, Proceed, Refuse, Answer, Fault
  <1>5. QED
    BY <1>1, <1>2, <1>3, <1>4

LEMMA MakeSnapshotControl ==
  ASSUME ControlInv, NEW t \in Threads, MakeSnapshot(t)
  PROVE  ControlInv'
  <1> USE ServiceAssumption DEF ControlInv, MakeSnapshot, Go, disk, folders, files,
             database, marks, context, request, budgets
  <1>1. TypeOK'
    BY DEF TypeOK, Calls, PublishCalls, RemoveCalls, LifecycleCalls, Refuse,
       Answer, Fault, Dirs
  <1>2. JobsFit'
    BY DEF TypeOK, JobsFit, Calls, PublishCalls, RemoveCalls, LifecycleCalls,
       Refuse, Answer, Fault, LifecycleJobs, RenameJobs, CreateJobs,
       DeleteJobs
  <1>3. LocksHeld'
    BY DEF TypeOK, LocksHeld, Calls, PublishCalls, RemoveCalls,
       LifecycleCalls, PairWriters, LifecycleWriters, At, Refuse, Answer,
       Fault
  <1>4. Lock!MutualExclusion'
    BY DEF TypeOK, Lock!MutualExclusion, Refuse, Answer, Fault
  <1>5. QED
    BY <1>1, <1>2, <1>3, <1>4

LEMMA CopySnapshotControl ==
  ASSUME ControlInv, NEW t \in Threads, CopySnapshot(t)
  PROVE  ControlInv'
  <1> USE ServiceAssumption DEF ControlInv, CopySnapshot, Go, disk, folders, files,
             database, marks, context, request, budgets
  <1>1. TypeOK'
    BY DEF TypeOK, Calls, PublishCalls, RemoveCalls, LifecycleCalls, CopyTree,
       Refuse, Answer, Fault, JobsFit, Copies, Under, Dirs, Places, Files,
       Databases, Entries
  <1>2. JobsFit'
    BY DEF TypeOK, JobsFit, Calls, PublishCalls, RemoveCalls, LifecycleCalls,
       CopyTree, Refuse, Answer, Fault, LifecycleJobs, RenameJobs, CreateJobs,
       DeleteJobs
  <1>3. LocksHeld'
    BY DEF TypeOK, LocksHeld, Calls, PublishCalls, RemoveCalls,
       LifecycleCalls, PairWriters, LifecycleWriters, At, CopyTree, Refuse,
       Answer, Fault
  <1>4. Lock!MutualExclusion'
    BY DEF TypeOK, Lock!MutualExclusion, CopyTree, Refuse, Answer, Fault
  <1>5. QED
    BY <1>1, <1>2, <1>3, <1>4

LEMMA RelabelDatabaseControl ==
  ASSUME ControlInv, NEW t \in Threads, RelabelDatabase(t)
  PROVE  ControlInv'
  <1> USE ServiceAssumption DEF ControlInv, RelabelDatabase, Go, disk, folders, files,
             database, marks, context, request, budgets
  <1>1. TypeOK'
    BY DEF TypeOK, Calls, PublishCalls, RemoveCalls, LifecycleCalls, Refuse,
       Answer, Fault, Relabelled, JobsFit, Dirs, Databases, Entries,
       RenameJobs
  <1>2. JobsFit'
    BY DEF TypeOK, JobsFit, Calls, PublishCalls, RemoveCalls, LifecycleCalls,
       Refuse, Answer, Fault, Relabelled, LifecycleJobs, RenameJobs,
       CreateJobs, DeleteJobs
  <1>3. LocksHeld'
    BY DEF TypeOK, LocksHeld, Calls, PublishCalls, RemoveCalls,
       LifecycleCalls, PairWriters, LifecycleWriters, At, Refuse, Answer,
       Fault, Relabelled
  <1>4. Lock!MutualExclusion'
    BY DEF TypeOK, Lock!MutualExclusion, Refuse, Answer, Fault, Relabelled
  <1>5. QED
    BY <1>1, <1>2, <1>3, <1>4

LEMMA InstallSnapshotControl ==
  ASSUME ControlInv, NEW t \in Threads, InstallSnapshot(t)
  PROVE  ControlInv'
  <1> USE ServiceAssumption DEF ControlInv, InstallSnapshot, Go, disk, folders, files,
             database, marks, context, request, budgets
  <1>1. TypeOK'
    BY DEF TypeOK, Calls, PublishCalls, RemoveCalls, LifecycleCalls, MoveTree,
       Refuse, Answer, Fault, JobsFit, Moved, Outside, Copies, Under, Dirs,
       Places, Files, Databases, Entries, RenameJobs
  <1>2. JobsFit'
    BY DEF TypeOK, JobsFit, Calls, PublishCalls, RemoveCalls, LifecycleCalls,
       MoveTree, Refuse, Answer, Fault, LifecycleJobs, RenameJobs, CreateJobs,
       DeleteJobs
  <1>3. LocksHeld'
    BY DEF TypeOK, LocksHeld, Calls, PublishCalls, RemoveCalls,
       LifecycleCalls, PairWriters, LifecycleWriters, At, MoveTree, Refuse,
       Answer, Fault
  <1>4. Lock!MutualExclusion'
    BY DEF TypeOK, Lock!MutualExclusion, MoveTree, Refuse, Answer, Fault
  <1>5. QED
    BY <1>1, <1>2, <1>3, <1>4

LEMMA DiscardSnapshotControl ==
  ASSUME ControlInv, NEW t \in Threads, DiscardSnapshot(t)
  PROVE  ControlInv'
  <1> USE ServiceAssumption DEF ControlInv, DiscardSnapshot, Go, disk, folders, files,
             database, marks, context, request, budgets
  <1>1. TypeOK'
    BY DEF TypeOK, Calls, PublishCalls, RemoveCalls, LifecycleCalls, Fault,
       Outside
  <1>2. JobsFit'
    BY DEF TypeOK, JobsFit, Calls, PublishCalls, RemoveCalls, LifecycleCalls,
       Fault, LifecycleJobs, RenameJobs, CreateJobs, DeleteJobs
  <1>3. LocksHeld'
    BY DEF TypeOK, LocksHeld, Calls, PublishCalls, RemoveCalls,
       LifecycleCalls, PairWriters, LifecycleWriters, At, Fault
  <1>4. Lock!MutualExclusion'
    BY DEF TypeOK, Lock!MutualExclusion, Fault
  <1>5. QED
    BY <1>1, <1>2, <1>3, <1>4

LEMMA CheckRepositoryControl ==
  ASSUME ControlInv, NEW t \in Threads, CheckRepository(t)
  PROVE  ControlInv'
  <1> USE ServiceAssumption DEF ControlInv, CheckRepository, Go, disk, folders, files,
             database, marks, context, request, budgets
  <1>1. TypeOK'
    BY DEF TypeOK, Calls, PublishCalls, RemoveCalls, LifecycleCalls, Proceed,
       Refuse, Answer, Fault
  <1>2. JobsFit'
    BY DEF TypeOK, JobsFit, Calls, PublishCalls, RemoveCalls, LifecycleCalls,
       Proceed, Refuse, Answer, Fault, LifecycleJobs, RenameJobs, CreateJobs,
       DeleteJobs
  <1>3. LocksHeld'
    BY DEF TypeOK, LocksHeld, Calls, PublishCalls, RemoveCalls,
       LifecycleCalls, PairWriters, LifecycleWriters, At, Proceed, Refuse,
       Answer, Fault
  <1>4. Lock!MutualExclusion'
    BY DEF TypeOK, Lock!MutualExclusion, Proceed, Refuse, Answer, Fault
  <1>5. QED
    BY <1>1, <1>2, <1>3, <1>4

LEMMA PurgeFileControl ==
  ASSUME ControlInv, NEW t \in Threads, PurgeFile(t)
  PROVE  ControlInv'
  <1> USE ServiceAssumption DEF ControlInv, PurgeFile, Go, disk, folders, files,
             database, marks, context, request, budgets
  <1>1. TypeOK'
    BY DEF TypeOK, Calls, PublishCalls, RemoveCalls, LifecycleCalls, Under,
       PlaceOf, Places, Files, Dirs
  <1>2. JobsFit'
    BY DEF TypeOK, JobsFit, Calls, PublishCalls, RemoveCalls, LifecycleCalls
  <1>3. LocksHeld'
    BY DEF TypeOK, LocksHeld, Calls, PublishCalls, RemoveCalls,
       LifecycleCalls, PairWriters, LifecycleWriters, At
  <1>4. Lock!MutualExclusion'
    BY DEF TypeOK, Lock!MutualExclusion
  <1>5. QED
    BY <1>1, <1>2, <1>3, <1>4

LEMMA PurgeArchitectureControl ==
  ASSUME ControlInv, NEW t \in Threads, PurgeArchitecture(t)
  PROVE  ControlInv'
  <1> USE ServiceAssumption DEF ControlInv, PurgeArchitecture, Go, disk, folders, files,
             database, marks, context, request, budgets
  <1>1. TypeOK'
    BY DEF TypeOK, Calls, PublishCalls, RemoveCalls, LifecycleCalls
  <1>2. JobsFit'
    BY DEF TypeOK, JobsFit, Calls, PublishCalls, RemoveCalls, LifecycleCalls
  <1>3. LocksHeld'
    BY DEF TypeOK, LocksHeld, Calls, PublishCalls, RemoveCalls,
       LifecycleCalls, PairWriters, LifecycleWriters, At
  <1>4. Lock!MutualExclusion'
    BY DEF TypeOK, Lock!MutualExclusion
  <1>5. QED
    BY <1>1, <1>2, <1>3, <1>4

LEMMA PurgeRepositoryControl ==
  ASSUME ControlInv, NEW t \in Threads, PurgeRepository(t)
  PROVE  ControlInv'
  <1> USE ServiceAssumption DEF ControlInv, PurgeRepository, Go, disk, folders, files,
             database, marks, context, request, budgets
  <1>1. TypeOK'
    BY DEF TypeOK, Calls, PublishCalls, RemoveCalls, LifecycleCalls, Refuse,
       Answer, Fault
  <1>2. JobsFit'
    BY DEF TypeOK, JobsFit, Calls, PublishCalls, RemoveCalls, LifecycleCalls,
       Refuse, Answer, Fault, LifecycleJobs, RenameJobs, CreateJobs,
       DeleteJobs
  <1>3. LocksHeld'
    BY DEF TypeOK, LocksHeld, Calls, PublishCalls, RemoveCalls,
       LifecycleCalls, PairWriters, LifecycleWriters, At, Refuse, Answer,
       Fault
  <1>4. Lock!MutualExclusion'
    BY DEF TypeOK, Lock!MutualExclusion, Refuse, Answer, Fault
  <1>5. QED
    BY <1>1, <1>2, <1>3, <1>4

LEMMA CrashControl ==
  ASSUME ControlInv, NEW process \in Processes, Crash(process)
  PROVE  ControlInv'
  <1> USE ServiceAssumption DEF ControlInv, Crash, disk, folders, files,
             database, marks, context, request, budgets
  <1>1. TypeOK'
    <2>1. cmdLocks' \in SUBSET Databases
      <3>1. \A t \in Threads : InCommand(t) => Database(At(t)) \in Databases
        BY DEF InCommand, JobsFit, PublishCalls, RemoveCalls, PublishJobs,
           RemoveJobs, At, Database, Databases, Dirs
      <3>2. QED
        BY <3>1 DEF TypeOK
    <2>2. QED
      BY <2>1 DEF TypeOK, Lock!Drop, Calls
  <1>2. JobsFit'
    BY DEF TypeOK, JobsFit, Calls, PublishCalls, RemoveCalls, LifecycleCalls
  <1>3. LocksHeld'
    BY DEF TypeOK, LocksHeld, Lock!Drop, PairWriters, LifecycleWriters,
       PublishCalls, RemoveCalls, LifecycleCalls, At
  <1>4. Lock!MutualExclusion'
    BY DEF TypeOK, Lock!MutualExclusion, Lock!Drop
  <1>5. QED
    BY <1>1, <1>2, <1>3, <1>4

LEMMA InitControl == Init => ControlInv
  BY ServiceAssumption DEF Init, ControlInv, TypeOK, JobsFit, LocksHeld, Calls,
     PublishCalls, RemoveCalls, LifecycleCalls, PairWriters, LifecycleWriters,
     Lock!LockInit, Lock!MutualExclusion

LEMMA StutterControl ==
  ASSUME ControlInv, UNCHANGED vars
  PROVE  ControlInv'
  BY DEF ControlInv, TypeOK, JobsFit, LocksHeld, At, Lock!MutualExclusion,
     vars, disk, folders, files, database, marks, context, request, budgets

LEMMA ControlInductive == ControlInv /\ [Next]_vars => ControlInv'
  <1> SUFFICES ASSUME ControlInv, [Next]_vars
               PROVE  ControlInv'
    OBVIOUS
  <1>1. ASSUME NEW t \in Threads, Begins(t)
        PROVE  ControlInv'
    BY <1>1, BeginUploadControl, BeginRemoveControl, BeginLifecycleControl DEF Begins
  <1>2. ASSUME NEW t \in Threads, PublishStep(t)
        PROVE  ControlInv'
    BY <1>2, ReceiveUploadControl, LockForPublishControl, InspectControl,
       MakeDirectoryControl, StatDestinationControl, InstallPackageControl,
       InstallSignatureControl, AddEntryControl, AddFailsControl,
       UndoPackageControl, UndoSignatureControl, CleanupControl DEF PublishStep
  <1>3. ASSUME NEW t \in Threads, RemoveStep(t)
        PROVE  ControlInv'
    BY <1>3, LockForRemoveControl, FindPackageControl, RemoveEntryControl,
       RemoveEntryFailsControl, RemoveFileControl, RemoveSignatureControl
       DEF RemoveStep
  <1>4. ASSUME NEW t \in Threads, LifecycleStep(t)
        PROVE  ControlInv'
    BY <1>4, LockForLifecycleControl, CreateControl, CheckRenameControl,
       MakeSnapshotControl, CopySnapshotControl, RelabelDatabaseControl,
       InstallSnapshotControl, DiscardSnapshotControl, CheckRepositoryControl,
       PurgeFileControl, PurgeArchitectureControl, PurgeRepositoryControl
       DEF LifecycleStep
  <1>5. ASSUME NEW t \in Threads, Unlock(t)
        PROVE  ControlInv'
    BY <1>5, UnlockControl
  <1>6. CASE \E process \in Processes : Crash(process)
    BY <1>6, CrashControl
  <1>7. CASE Rest \/ UNCHANGED vars
    BY <1>7, StutterControl DEF Rest
  <1>8. QED
    BY <1>1, <1>2, <1>3, <1>4, <1>5, <1>6, <1>7 DEF Next, Step

-----------------------------------------------------------------------------
(* Between any two calls of the program a request's data fits its call and *)
(* it owns what it works on (the lock calls of service.go:152, 207, 273,   *)
(* 329 and 348).                                                           *)
THEOREM ControlInvariant == Spec => []ControlInv
  BY InitControl, ControlInductive, PTL DEF Spec

(* The variables keep their types, through every failure and crash         *)
(* (service.go:60-368).                                                    *)
THEOREM ServiceTypeCorrect == Spec => []TypeOK
  <1>1. ControlInv => TypeOK
    BY DEF ControlInv
  <1>2. QED
    BY <1>1, ControlInvariant, PTL

-----------------------------------------------------------------------------
(* The disk.                                                               *)

(* The state the disk half speaks of, and the threads a step leaves alone. *)
core == <<dirs, archDirs, pkgs, dbs, entries, torn>>

OthersAlone(t) ==
    \A u \in Threads \ {t} :
        /\ pc'[u] = pc[u] /\ job'[u] = job[u]
        /\ subject'[u] = subject[u] /\ temp'[u] = temp[u]

(* The locks at work: two threads at calls that touch the repositories are *)
(* at different pairs, or one of them is alone.                            *)
LEMMA WritersExclude ==
  ASSUME ControlInv, NEW t \in Threads, NEW u \in Threads, t # u
  PROVE  /\ pc[t] \in PairWriters /\ pc[u] \in PairWriters => At(t) # At(u)
         /\ pc[t] \in LifecycleWriters =>
                pc[u] \notin PairWriters \cup LifecycleWriters
  <1>1. \A v \in Threads : pc[v] \in PairWriters => At(v) \in Keys
    BY DEF ControlInv, JobsFit, PairWriters, PublishCalls, RemoveCalls,
       PublishJobs, RemoveJobs, At, Keys
  <1>2. \A v \in Threads : pc[v] \in LifecycleWriters => Keys # {}
    <2> SUFFICES ASSUME NEW v \in Threads, pc[v] \in LifecycleWriters
                 PROVE  Keys # {}
      OBVIOUS
    <2>1. job[v].repo \in Repos
      BY DEF ControlInv, JobsFit, LifecycleWriters, LifecycleJobs, RenameJobs,
         CreateJobs, DeleteJobs
    <2>2. PICK a \in Archs : TRUE
      BY ServiceAssumption
    <2>3. [repo |-> job[v].repo, arch |-> a] \in Keys
      BY <2>1 DEF Keys
    <2>4. QED
      BY <2>3
  <1>3. /\ held[t] \cap held[u] = {}
        /\ pc[t] \in PairWriters => held[t] = {At(t)}
        /\ pc[u] \in PairWriters => held[u] = {At(u)}
        /\ pc[t] \in LifecycleWriters => held[t] = Keys
        /\ pc[u] \in LifecycleWriters => held[u] = Keys
    BY DEF ControlInv, LocksHeld, Lock!MutualExclusion
  <1>4. QED
    BY <1>1, <1>2, <1>3

(* A step that changes none of that only has to answer for its own thread. *)
LEMMA QuietStep ==
  ASSUME DiskInv, NEW t \in Threads, OthersAlone(t), UNCHANGED core, ThreadInv(t)'
  PROVE  DiskInv'
  <1> USE DEF core
  <1>1. TreeShape'
    BY DEF DiskInv, TreeShape, PlaceOf
  <1>2. PathsUnique'
    BY DEF DiskInv, PathsUnique, SamePath
  <1>3. DatabaseNamed' /\ DatabaseBacked'
    BY DEF DiskInv, DatabaseNamed, DatabaseBacked, PlaceOf, FileOfEntry
  <1>4. ASSUME NEW u \in Threads, u # t
        PROVE  ThreadInv(u)'
    BY <1>4 DEF OthersAlone, DiskInv, ThreadInv, DirectoryMade, PathClaimed,
       FoundIsListed, SnapshotFresh, Matches, Listing, In, Under, At, File,
       FileOfEntry, SamePath
  <1>5. QED
    BY <1>1, <1>2, <1>3, <1>4 DEF DiskInv

LEMMA StepsAreLocal ==
  ASSUME ControlInv, NEW t \in Threads, Begins(t) \/ Step(t)
  PROVE  OthersAlone(t)
  <1> USE DEF ControlInv, TypeOK, OthersAlone, Go, Proceed, Refuse, Answer,
              Forget, Begin, RefuseRequest, context, request
  <1>1. CASE Begins(t)
    BY <1>1 DEF Begins, BeginUpload, BeginRemove, BeginLifecycle
  <1>2. CASE PublishStep(t)
    BY <1>2 DEF PublishStep, ReceiveUpload, LockForPublish, Inspect,
       MakeDirectory, StatDestination, InstallPackage, InstallSignature,
       AddEntry, AddFails, Cancel, UndoPackage, UndoSignature, Cleanup
  <1>3. CASE RemoveStep(t)
    BY <1>3 DEF RemoveStep, LockForRemove, FindPackage, RemoveEntry,
       RemoveEntryFails, Cancel, RemoveFile, RemoveSignature
  <1>4. CASE LifecycleStep(t)
    BY <1>4 DEF LifecycleStep, LockForLifecycle, Create, CheckRename,
       MakeSnapshot, CopySnapshot, RelabelDatabase, InstallSnapshot,
       DiscardSnapshot, CheckRepository, PurgeFile, PurgeArchitecture,
       PurgeRepository
  <1>5. CASE Unlock(t)
    BY <1>5 DEF Unlock
  <1>6. QED
    BY <1>1, <1>2, <1>3, <1>4, <1>5 DEF Step

(* At most calls a thread claims nothing about the disk.                   *)
Plain == Calls \ {"stat", "install", "sign", "add", "undo", "removeEntry",
                  "removeFile", "copy", "relabel"}

LEMMA PlainThread ==
  ASSUME NEW t \in Threads, pc'[t] \in Plain
  PROVE  ThreadInv(t)'
  BY DEF Plain, ThreadInv, DirectoryMade, PathClaimed, FoundIsListed, SnapshotFresh

-----------------------------------------------------------------------------
(* Steps that change no directory, package file or database.               *)

LEMMA RefuseDisk ==
  ASSUME ServiceInv, NEW t \in Threads, OthersAlone(t),
         NEW from \in Calls, NEW to \in Plain, Refuse(t, from, to)
  PROVE  DiskInv'
  <1>1. UNCHANGED core
    BY DEF Refuse, core, disk, folders, files, database, marks
  <1>2. pc'[t] \in Plain
    BY DEF Refuse, Go, ServiceInv, ControlInv, TypeOK
  <1>3. QED
    BY <1>1, <1>2, PlainThread, QuietStep DEF ServiceInv

LEMMA PlainStepDisk ==
  ASSUME ServiceInv, NEW t \in Threads, OthersAlone(t),
         \/ Begins(t) \/ ReceiveUpload(t) \/ LockForPublish(t) \/ Inspect(t)
         \/ UndoSignature(t) \/ Cleanup(t) \/ LockForRemove(t)
         \/ RemoveEntryFails(t) \/ RemoveSignature(t) \/ LockForLifecycle(t)
         \/ CheckRename(t) \/ CheckRepository(t) \/ Unlock(t)
  PROVE  DiskInv'
  <1> USE DEF ServiceInv, Begins, BeginUpload, BeginRemove, BeginLifecycle,
              ReceiveUpload, LockForPublish, Inspect, UndoSignature, Cleanup,
              LockForRemove, RemoveEntryFails, RemoveSignature,
              LockForLifecycle, CheckRename, CheckRepository, Unlock
  <1> USE DEF Begin, Proceed, Refuse, RefuseRequest, Cancel, Go
  <1>1. UNCHANGED core
    BY DEF core, disk, folders, files, database, marks
  <1>2. pc'[t] \in Plain
    BY DEF Plain, Calls, PublishCalls, RemoveCalls, LifecycleCalls, ControlInv, TypeOK
  <1>3. QED
    BY <1>1, <1>2, PlainThread, QuietStep

(* The destination is free on disk, so no entry backed by a file uses it.  *)
LEMMA StatDestinationDisk ==
  ASSUME ServiceInv, NEW t \in Threads, OthersAlone(t), StatDestination(t)
  PROVE  DiskInv'
  <1>1. CASE Proceed(t, "stat", "install") /\ ~FileExists(t)
    <2>1. UNCHANGED core /\ pc[t] = "stat" /\ pc'[t] = "install"
          /\ UNCHANGED <<job, subject, temp>>
      BY <1>1 DEF Proceed, Go, core, disk, folders, files, database, marks,
         context, request, ServiceInv, ControlInv, TypeOK
    <2>2. PathClaimed(t)'
      <3> SUFFICES ASSUME At(t) \notin torn,
                          NEW e \in entries, SamePath(FileOfEntry(e), File(t))
                   PROVE  FALSE
        BY <2>1 DEF PathClaimed, At, File, FileOfEntry, SamePath, core
      <3>1. PlaceOf(e) = At(t)
        BY DEF SamePath, FileOfEntry, File, PlaceOf, At
      <3>2. FileOfEntry(e) \in pkgs
        BY <3>1 DEF ServiceInv, DiskInv, DatabaseBacked
      <3>3. QED
        BY <1>1, <3>2 DEF FileExists
    <2>3. DirectoryMade(t)'
      BY <2>1 DEF ServiceInv, DiskInv, ThreadInv, DirectoryMade, core, At
    <2>4. ThreadInv(t)'
      BY <2>1, <2>2, <2>3 DEF ThreadInv, FoundIsListed, SnapshotFresh
    <2>5. QED
      BY <2>1, <2>4, QuietStep DEF ServiceInv
  <1>2. CASE Refuse(t, "stat", "unlock")
    BY <1>2, RefuseDisk DEF Plain, Calls, PublishCalls
  <1>3. QED
    BY <1>1, <1>2 DEF StatDestination

LEMMA FindPackageDisk ==
  ASSUME ServiceInv, NEW t \in Threads, OthersAlone(t), FindPackage(t)
  PROVE  DiskInv'
  <1>1. CASE Refuse(t, "find", "unlock")
    BY <1>1, RefuseDisk DEF Plain, Calls, RemoveCalls
  <1>2. CASE ~Refuse(t, "find", "unlock")
    <2>1. UNCHANGED core /\ pc'[t] = "removeEntry" /\ UNCHANGED job
      BY <1>2 DEF FindPackage, Go, core, disk, folders, files, database, marks,
         ServiceInv, ControlInv, TypeOK
    <2>2. subject'[t] \in Matches(t)
      BY <1>2 DEF FindPackage, ServiceInv, ControlInv, TypeOK
    <2>3. ThreadInv(t)'
      BY <2>1, <2>2 DEF core, ThreadInv, DirectoryMade, PathClaimed,
         FoundIsListed, SnapshotFresh, Matches, Listing, In, At
    <2>4. QED
      BY <2>1, <2>3, QuietStep DEF ServiceInv
  <1>3. QED
    BY <1>1, <1>2

LEMMA AddFailsDisk ==
  ASSUME ServiceInv, NEW t \in Threads, OthersAlone(t), AddFails(t)
  PROVE  DiskInv'
  <1>1. UNCHANGED core /\ pc[t] = "add" /\ pc'[t] = "undo"
        /\ UNCHANGED <<job, subject, temp>>
    BY DEF AddFails, Cancel, Refuse, Go, core, disk, folders, files, database,
       marks, context, request, ServiceInv, ControlInv, TypeOK
  <1>2. ThreadInv(t)'
    BY <1>1 DEF ServiceInv, DiskInv, ThreadInv, DirectoryMade, PathClaimed,
       FoundIsListed, SnapshotFresh, core, At, File, FileOfEntry, SamePath
  <1>3. QED
    BY <1>1, <1>2, QuietStep DEF ServiceInv

-----------------------------------------------------------------------------
(* What a step of one thread leaves true of the others: one that works on  *)
(* a pair changes no other pair, and next to one that holds every pair     *)
(* nobody else is at a call that claims something.                         *)

LEMMA PairStepOthers ==
  ASSUME ServiceInv, NEW t \in Threads, OthersAlone(t), pc[t] \in PairWriters,
         archDirs \subseteq archDirs', torn \subseteq torn',
         \A place \in Keys \ {At(t)} : In(entries', place) = In(entries, place)
  PROVE  \A u \in Threads \ {t} : ThreadInv(u)'
  <1> SUFFICES ASSUME NEW u \in Threads \ {t}
               PROVE  ThreadInv(u)'
    OBVIOUS
  <1>1. /\ pc'[u] = pc[u] /\ At(u)' = At(u) /\ File(u)' = File(u)
        /\ job'[u] = job[u] /\ subject'[u] = subject[u] /\ temp'[u] = temp[u]
    BY DEF OthersAlone, At, File
  <1>2. pc[u] \in PairWriters => In(entries', At(u)) = In(entries, At(u))
    <2>1. pc[u] \in PairWriters => At(u) \in Keys
      BY DEF ServiceInv, ControlInv, JobsFit, PairWriters, PublishCalls,
         RemoveCalls, PublishJobs, RemoveJobs, At, Keys
    <2>2. QED
      BY <2>1, WritersExclude DEF ServiceInv
  <1>3. pc[u] \notin LifecycleWriters
    BY WritersExclude DEF ServiceInv
  <1>4. DirectoryMade(u)'
    BY <1>1 DEF ServiceInv, DiskInv, ThreadInv, DirectoryMade
  <1>5. PathClaimed(u)'
    BY <1>1, <1>2 DEF ServiceInv, DiskInv, ThreadInv, PathClaimed, SamePath,
       FileOfEntry, File, At, In, PairWriters, PublishCalls, RemoveCalls
  <1>6. FoundIsListed(u)'
    BY <1>1, <1>2 DEF ServiceInv, DiskInv, ThreadInv, FoundIsListed, Matches,
       Listing, PairWriters, RemoveCalls
  <1>7. SnapshotFresh(u)'
    BY <1>1, <1>3 DEF SnapshotFresh, LifecycleWriters, LifecycleCalls
  <1>8. QED
    BY <1>4, <1>5, <1>6, <1>7 DEF ThreadInv

LEMMA LifecycleStepOthers ==
  ASSUME ServiceInv, NEW t \in Threads, OthersAlone(t), pc[t] \in LifecycleWriters
  PROVE  \A u \in Threads \ {t} : ThreadInv(u)'
  <1> SUFFICES ASSUME NEW u \in Threads \ {t}
               PROVE  ThreadInv(u)'
    OBVIOUS
  <1>1. pc'[u] \notin PairWriters \cup LifecycleWriters /\ pc'[u] \in Calls
    BY WritersExclude DEF OthersAlone, ServiceInv, ControlInv, TypeOK
  <1>2. pc'[u] \in Plain
    BY <1>1 DEF Plain, Calls, PairWriters, LifecycleWriters, PublishCalls,
       RemoveCalls, LifecycleCalls
  <1>3. QED
    BY <1>2, PlainThread

-----------------------------------------------------------------------------
(* Publication.                                                            *)

LEMMA MakeDirectoryDisk ==
  ASSUME ServiceInv, NEW t \in Threads, OthersAlone(t), MakeDirectory(t)
  PROVE  DiskInv'
  <1> USE DEF MakeDirectory, files, database, marks
  <1>1. UNCHANGED <<pkgs, dbs, entries, torn>> /\ pc[t] = "mkdir"
        /\ dirs \subseteq dirs'
        /\ \/ job[t].repo \in dirs' /\ archDirs' \subseteq archDirs \cup {At(t)}
           \/ archDirs' = archDirs
        /\ archDirs \subseteq archDirs'
    OBVIOUS
  <1>2. TreeShape'
    BY <1>1 DEF ServiceInv, DiskInv, TreeShape, PlaceOf, At
  <1>3. PathsUnique' /\ DatabaseNamed' /\ DatabaseBacked'
    BY <1>1 DEF ServiceInv, DiskInv, PathsUnique, SamePath, DatabaseNamed,
       DatabaseBacked, PlaceOf, FileOfEntry
  <1>4. ThreadInv(t)'
    BY DEF Go, ServiceInv, ControlInv, TypeOK, ThreadInv, DirectoryMade,
       PathClaimed, FoundIsListed, SnapshotFresh, At, context, request
  <1>5. \A u \in Threads \ {t} : ThreadInv(u)'
    BY <1>1, PairStepOthers DEF PairWriters, PublishCalls, In
  <1>6. QED
    BY <1>2, <1>3, <1>4, <1>5 DEF DiskInv

(* Unlinking the path of a thread's file, when no entry depends on it.     *)
LEMMA UnlinkDisk ==
  ASSUME ServiceInv, NEW t \in Threads, OthersAlone(t),
         pc[t] \in {"sign", "undo", "removeFile"}, pkgs' \in {pkgs, Unlinked(pkgs, File(t))},
         UNCHANGED <<dirs, archDirs, dbs, entries, torn>>, ThreadInv(t)'
  PROVE  DiskInv'
  <1>1. pkgs' \subseteq pkgs
    BY DEF Unlinked
  <1>2. TreeShape'
    BY <1>1 DEF ServiceInv, DiskInv, TreeShape, PlaceOf
  <1>3. PathsUnique'
    BY <1>1 DEF ServiceInv, DiskInv, PathsUnique, SamePath
  <1>4. DatabaseNamed'
    BY DEF ServiceInv, DiskInv, DatabaseNamed
  <1>5. DatabaseBacked'
    <2> SUFFICES ASSUME NEW e \in entries, PlaceOf(e) \notin torn
                 PROVE  FileOfEntry(e) \in pkgs'
      BY DEF DatabaseBacked, PlaceOf, FileOfEntry
    <2>1. FileOfEntry(e) \in pkgs
      BY DEF ServiceInv, DiskInv, DatabaseBacked
    <2>2. \/ At(t) \in torn
          \/ ~SamePath(FileOfEntry(e), File(t))
      BY DEF ServiceInv, DiskInv, ThreadInv, PathClaimed
    <2>3. SamePath(FileOfEntry(e), File(t)) => PlaceOf(e) = At(t)
      BY DEF SamePath, FileOfEntry, File, PlaceOf, At
    <2>4. QED
      BY <2>1, <2>2, <2>3 DEF Unlinked, SamePath
  <1>6. \A u \in Threads \ {t} : ThreadInv(u)'
    BY PairStepOthers DEF In, PairWriters, PublishCalls, RemoveCalls
  <1>7. QED
    BY <1>2, <1>3, <1>4, <1>5, <1>6 DEF DiskInv

LEMMA InstallPackageDisk ==
  ASSUME ServiceInv, NEW t \in Threads, OthersAlone(t), InstallPackage(t)
  PROVE  DiskInv'
  <1>1. CASE Refuse(t, "install", "unlock")
    BY <1>1, RefuseDisk DEF Plain, Calls, PublishCalls
  <1>2. CASE ~Refuse(t, "install", "unlock")
    <2>1. /\ UNCHANGED <<dirs, archDirs, dbs, entries, torn, job, subject, temp>>
          /\ pkgs' = Placed(pkgs, File(t))
          /\ pc[t] = "install" /\ pc'[t] \in {"sign", "add"}
      BY <1>2 DEF InstallPackage, AfterInstall, Go, folders, database, marks,
         context, request, ServiceInv, ControlInv, TypeOK
    <2>2. /\ PathClaimed(t) /\ DirectoryMade(t)
          /\ At(t) \in archDirs
      BY <2>1 DEF ServiceInv, DiskInv, ThreadInv, DirectoryMade
    <2>3. File(t)' = File(t) /\ At(t)' = At(t) /\ PlaceOf(File(t)) = At(t)
      BY <2>1 DEF File, At, PlaceOf
    <2>4. TreeShape'
      BY <2>1, <2>2, <2>3 DEF ServiceInv, DiskInv, TreeShape, Placed, Unlinked, PlaceOf
    <2>5. PathsUnique'
      BY <2>1 DEF ServiceInv, DiskInv, PathsUnique, Placed, Unlinked, SamePath
    <2>6. DatabaseNamed'
      BY <2>1 DEF ServiceInv, DiskInv, DatabaseNamed
    <2>7. DatabaseBacked'
      <3> SUFFICES ASSUME NEW e \in entries, PlaceOf(e) \notin torn
                   PROVE  FileOfEntry(e) \in Placed(pkgs, File(t))
        BY <2>1 DEF DatabaseBacked, PlaceOf, FileOfEntry
      <3>1. FileOfEntry(e) \in pkgs
        BY DEF ServiceInv, DiskInv, DatabaseBacked
      <3>2. ~SamePath(FileOfEntry(e), File(t))
        BY <2>1, <2>2 DEF PathClaimed, SamePath, FileOfEntry, File, At, PlaceOf
      <3>3. QED
        BY <3>1, <3>2 DEF Placed, Unlinked, SamePath
    <2>8. ThreadInv(t)'
      BY <2>1, <2>2, <2>3 DEF ThreadInv, DirectoryMade, PathClaimed, SamePath,
         FileOfEntry, FoundIsListed, SnapshotFresh
    <2>9. \A u \in Threads \ {t} : ThreadInv(u)'
      BY <2>1, PairStepOthers DEF PairWriters, PublishCalls, In
    <2>10. QED
      BY <2>4, <2>5, <2>6, <2>7, <2>8, <2>9 DEF DiskInv
  <1>3. QED
    BY <1>1, <1>2

LEMMA InstallSignatureDisk ==
  ASSUME ServiceInv, NEW t \in Threads, OthersAlone(t), InstallSignature(t)
  PROVE  DiskInv'
  <1>1. /\ UNCHANGED <<dirs, archDirs, dbs, entries, torn, job, subject, temp>>
        /\ pkgs' \in {pkgs, Unlinked(pkgs, File(t))}
        /\ pc[t] = "sign"
        /\ \/ pc'[t] = "add" /\ UNCHANGED pkgs
           \/ pc'[t] = "unlock"
    BY DEF InstallSignature, Go, folders, database, marks, context, request,
       ServiceInv, ControlInv, TypeOK
  <1>2. ThreadInv(t)'
    BY <1>1 DEF ServiceInv, DiskInv, ThreadInv, DirectoryMade, PathClaimed,
       FoundIsListed, SnapshotFresh, At, File, FileOfEntry, SamePath
  <1>3. QED
    BY <1>1, <1>2, UnlinkDisk

LEMMA UndoPackageDisk ==
  ASSUME ServiceInv, NEW t \in Threads, OthersAlone(t), UndoPackage(t)
  PROVE  DiskInv'
  <1>1. /\ UNCHANGED <<dirs, archDirs, dbs, entries, torn>>
        /\ pkgs' \in {pkgs, Unlinked(pkgs, File(t))}
        /\ pc[t] = "undo" /\ pc'[t] \in {"undoSig", "unlock"}
    BY DEF UndoPackage, AfterUndo, Go, folders, database, marks, ServiceInv,
       ControlInv, TypeOK
  <1>2. ThreadInv(t)'
    BY <1>1, PlainThread DEF Plain, Calls, PublishCalls
  <1>3. QED
    BY <1>1, <1>2, UnlinkDisk

(* repo-add lists the file that is there.                                  *)
LEMMA AddEntryDisk ==
  ASSUME ServiceInv, NEW t \in Threads, OthersAlone(t), AddEntry(t)
  PROVE  DiskInv'
  <1> PICK x \in pkgs : AddEntry(t)!(x)
    BY DEF AddEntry
  <1> DEFINE new == Entry(At(t), x.up)
  <1>1. /\ UNCHANGED <<dirs, archDirs, pkgs, job, subject, temp>>
        /\ pc[t] = "add" /\ pc'[t] \in {"unlock", "undo"}
        /\ torn' = IF pc'[t] = "undo" THEN torn \cup {At(t)} ELSE torn
        /\ entries' = (entries \ OfName(At(t), NameOf[x.up])) \cup {new}
        /\ dbs' = dbs \cup {Database(At(t))}
    BY DEF ListPackage, Go, folders, files, marks, context, request, ServiceInv,
       ControlInv, TypeOK
  <1>2. job[t].repo \in Repos /\ job[t].arch \in Archs /\ x \in Files
    BY <1>1 DEF ServiceInv, ControlInv, TypeOK, JobsFit, PublishCalls, PublishJobs
  <1>3. At(t) \in archDirs
    BY <1>1 DEF ServiceInv, DiskInv, ThreadInv, DirectoryMade
  <1>4. FileOfEntry(new) = x /\ PlaceOf(new) = At(t)
    BY <1>2 DEF SamePath, FileOfEntry, Entry, File, At, PlaceOf, Files
  <1>5. TreeShape'
    BY <1>1, <1>3 DEF ServiceInv, DiskInv, TreeShape, Entry, Database, PlaceOf, At
  <1>6. PathsUnique'
    BY <1>1 DEF ServiceInv, DiskInv, PathsUnique, SamePath
  <1>7. DatabaseNamed'
    BY <1>1 DEF ServiceInv, DiskInv, DatabaseNamed, Database
  <1>8. DatabaseBacked'
    BY <1>1, <1>4 DEF ServiceInv, DiskInv, DatabaseBacked, PlaceOf, FileOfEntry
  <1>9. ThreadInv(t)'
    BY <1>1 DEF ThreadInv, DirectoryMade, PathClaimed, FoundIsListed, SnapshotFresh, At
  <1>10. \A place \in Keys \ {At(t)} : In(entries', place) = In(entries, place)
    BY <1>1, <1>4 DEF In, OfName, PlaceOf, At, Keys
  <1>11. \A u \in Threads \ {t} : ThreadInv(u)'
    BY <1>1, <1>10, PairStepOthers DEF PairWriters, PublishCalls
  <1>12. QED
    BY <1>5, <1>6, <1>7, <1>8, <1>9, <1>11 DEF DiskInv

-----------------------------------------------------------------------------
(* Removal.                                                                *)

(* Once the package is off the list, nothing on it uses its path: another  *)
(* entry of that path would be of the same file, hence of the same name.   *)
LEMMA RemoveEntryDisk ==
  ASSUME ServiceInv, NEW t \in Threads, OthersAlone(t), RemoveEntry(t)
  PROVE  DiskInv'
  <1>1. /\ UNCHANGED <<dirs, archDirs, pkgs, dbs, torn, job, subject, temp>>
        /\ pc[t] = "removeEntry" /\ pc'[t] \in {"unlock", "removeFile"}
        /\ entries' = entries \ OfName(At(t), job[t].name)
    BY DEF RemoveEntry, DelistPackage, Go, folders, files, context, request,
       ServiceInv, ControlInv, TypeOK
  <1>2. TreeShape'
    BY <1>1 DEF ServiceInv, DiskInv, TreeShape, PlaceOf
  <1>3. PathsUnique' /\ DatabaseNamed' /\ DatabaseBacked'
    BY <1>1 DEF ServiceInv, DiskInv, PathsUnique, SamePath, DatabaseNamed,
       DatabaseBacked, PlaceOf, FileOfEntry
  <1>4. PathClaimed(t)'
    <2> SUFFICES ASSUME At(t) \notin torn, NEW e \in entries',
                        SamePath(FileOfEntry(e), File(t))
                 PROVE  FALSE
      BY <1>1 DEF PathClaimed, At, File, SamePath, FileOfEntry
    <2>1. /\ subject[t] \in Packages /\ NameOf[subject[t]] = job[t].name
          /\ job[t].repo \in Repos
      BY <1>1 DEF ServiceInv, ControlInv, DiskInv, JobsFit, RemoveCalls, RemoveJobs,
         ThreadInv, FoundIsListed, Matches
    <2>2. PICK f \in entries : f.up = subject[t] /\ PlaceOf(f) = At(t)
      BY <1>1 DEF ServiceInv, DiskInv, ThreadInv, FoundIsListed, Matches,
         Listing, In, At, PlaceOf
    <2>3. e \in entries /\ PlaceOf(e) = At(t)
      BY <1>1 DEF SamePath, FileOfEntry, File, PlaceOf, At
    <2>4. FileOfEntry(e) \in pkgs /\ FileOfEntry(f) \in pkgs
      BY <2>2, <2>3 DEF ServiceInv, DiskInv, DatabaseBacked
    <2>5. SamePath(FileOfEntry(e), FileOfEntry(f))
      BY <2>2 DEF SamePath, FileOfEntry, File, PlaceOf, At
    <2>6. e.up = subject[t]
      BY <2>2, <2>4, <2>5 DEF ServiceInv, DiskInv, PathsUnique, FileOfEntry
    <2>7. e.name = job[t].repo
      BY <2>1, <2>3 DEF ServiceInv, DiskInv, TreeShape, DatabaseNamed, PlaceOf, At
    <2>8. e \in OfName(At(t), job[t].name)
      BY <2>1, <2>3, <2>6, <2>7 DEF OfName, In, PlaceOf, At
    <2>9. QED
      BY <1>1, <2>8
  <1>5. ThreadInv(t)'
    BY <1>1, <1>4 DEF ThreadInv, DirectoryMade, FoundIsListed, SnapshotFresh
  <1>6. \A place \in Keys \ {At(t)} : In(entries', place) = In(entries, place)
    BY <1>1 DEF In, OfName, At, Keys
  <1>7. \A u \in Threads \ {t} : ThreadInv(u)'
    BY <1>1, <1>6, PairStepOthers DEF PairWriters, RemoveCalls
  <1>8. QED
    BY <1>2, <1>3, <1>5, <1>7 DEF DiskInv

LEMMA RemoveFileDisk ==
  ASSUME ServiceInv, NEW t \in Threads, OthersAlone(t), RemoveFile(t)
  PROVE  DiskInv'
  <1>1. /\ UNCHANGED <<dirs, archDirs, dbs, entries, torn>>
        /\ pkgs' \in {pkgs, Unlinked(pkgs, File(t))}
        /\ pc[t] = "removeFile" /\ pc'[t] \in {"removeSig", "unlock"}
    BY DEF RemoveFile, Refuse, Go, disk, folders, files, database, marks,
       ServiceInv, ControlInv, TypeOK
  <1>2. ThreadInv(t)'
    BY <1>1, PlainThread DEF Plain, Calls, RemoveCalls
  <1>3. QED
    BY <1>1, <1>2, UnlinkDisk

-----------------------------------------------------------------------------
(* Operations on whole repositories.                                       *)

LEMMA CreateDisk ==
  ASSUME ServiceInv, NEW t \in Threads, OthersAlone(t), Create(t)
  PROVE  DiskInv'
  <1>1. /\ UNCHANGED <<archDirs, pkgs, dbs, entries, torn>>
        /\ dirs \subseteq dirs'
        /\ pc[t] = "check" /\ pc'[t] = "unlock"
    BY DEF Create, Refuse, Go, disk, folders, files, database, marks,
       ServiceInv, ControlInv, TypeOK
  <1>2. TreeShape'
    BY <1>1 DEF ServiceInv, DiskInv, TreeShape, PlaceOf
  <1>3. PathsUnique' /\ DatabaseNamed' /\ DatabaseBacked'
    BY <1>1 DEF ServiceInv, DiskInv, PathsUnique, SamePath, DatabaseNamed,
       DatabaseBacked, PlaceOf, FileOfEntry
  <1>4. ThreadInv(t)'
    BY <1>1, PlainThread DEF Plain, Calls
  <1>5. \A u \in Threads \ {t} : ThreadInv(u)'
    BY <1>1, LifecycleStepOthers DEF LifecycleWriters, LifecycleCalls
  <1>6. QED
    BY <1>2, <1>3, <1>4, <1>5 DEF DiskInv

(* The new directory is empty, since files are in existing directories.    *)
LEMMA MakeSnapshotDisk ==
  ASSUME ServiceInv, NEW t \in Threads, OthersAlone(t), MakeSnapshot(t)
  PROVE  DiskInv'
  <1>1. CASE Refuse(t, "snapshot", "unlock")
    BY <1>1, RefuseDisk DEF Plain, Calls, LifecycleCalls
  <1>2. CASE ~Refuse(t, "snapshot", "unlock")
    <2>1. PICK d \in TempNames \ dirs :
            /\ dirs' = dirs \cup {d} /\ temp'[t] = d
            /\ UNCHANGED <<archDirs, pkgs, dbs, entries, torn>>
            /\ pc[t] = "snapshot" /\ pc'[t] = "copy"
      BY <1>2 DEF MakeSnapshot, Go, files, database, marks, ServiceInv,
         ControlInv, TypeOK
    <2>2. TreeShape'
      BY <2>1 DEF ServiceInv, DiskInv, TreeShape, PlaceOf
    <2>3. PathsUnique' /\ DatabaseNamed' /\ DatabaseBacked'
      BY <2>1 DEF ServiceInv, DiskInv, PathsUnique, SamePath, DatabaseNamed,
         DatabaseBacked, PlaceOf, FileOfEntry
    <2>4. ThreadInv(t)'
      BY <2>1 DEF ServiceInv, DiskInv, TreeShape, ThreadInv, DirectoryMade,
         PathClaimed, FoundIsListed, SnapshotFresh, Under
    <2>5. \A u \in Threads \ {t} : ThreadInv(u)'
      BY <2>1, LifecycleStepOthers DEF LifecycleWriters, LifecycleCalls
    <2>6. QED
      BY <2>2, <2>3, <2>4, <2>5 DEF DiskInv
  <1>3. QED
    BY <1>1, <1>2

-----------------------------------------------------------------------------
(* What a copied or moved tree contains.                                   *)

LEMMA PlaceCopies ==
  ASSUME NEW S \in SUBSET Places, NEW from \in Dirs, NEW to \in Dirs
  PROVE  Copies(S, from, to) =
             {p \in Places : p.repo = to /\ [repo |-> from, arch |-> p.arch] \in S}
  BY DEF Copies, Under, Places

LEMMA FileCopies ==
  ASSUME NEW S \in SUBSET Files, NEW from \in Dirs, NEW to \in Dirs
  PROVE  Copies(S, from, to) =
             {x \in Files : /\ x.repo = to
                            /\ [repo |-> from, arch |-> x.arch, up |-> x.up] \in S}
  BY DEF Copies, Under, Files

LEMMA DatabaseCopies ==
  ASSUME NEW S \in SUBSET Databases, NEW from \in Dirs, NEW to \in Dirs
  PROVE  Copies(S, from, to) =
             {d \in Databases : /\ d.repo = to
                                /\ [repo |-> from, arch |-> d.arch, name |-> d.name] \in S}
  BY DEF Copies, Under, Databases

LEMMA EntryCopies ==
  ASSUME NEW S \in SUBSET Entries, NEW from \in Dirs, NEW to \in Dirs
  PROVE  Copies(S, from, to) =
             {e \in Entries : /\ e.repo = to
                              /\ [repo |-> from, arch |-> e.arch,
                                  name |-> e.name, up |-> e.up] \in S}
  BY DEF Copies, Under, Entries

(* TreeShape, PathsUnique and DatabaseBacked of given sets.                *)
Nested(D, A, P, B, E) ==
    /\ \A place \in A : place.repo \in D
    /\ \A x \in P : PlaceOf(x) \in A
    /\ \A d \in B : PlaceOf(d) \in A
    /\ \A e \in E : [repo |-> e.repo, arch |-> e.arch, name |-> e.name] \in B

Unique(P) == \A x \in P : \A y \in P : SamePath(x, y) => x = y

Backed(P, E, T) == \A e \in E : PlaceOf(e) \notin T => FileOfEntry(e) \in P

WellFormed(D, A, P, B, E, T) ==
    Nested(D, A, P, B, E) /\ Unique(P) /\ Backed(P, E, T)

LEMMA WellFormedDisk ==
  WellFormed(dirs, archDirs, pkgs, dbs, entries, torn)
      <=> TreeShape /\ PathsUnique /\ DatabaseBacked
  BY DEF WellFormed, Nested, Unique, Backed, TreeShape, PathsUnique, DatabaseBacked

(* A tree that gains the copy of one of its directories under a name that  *)
(* holds nothing is as well-formed and as well backed as it was.           *)
LEMMA GrownTree ==
  ASSUME NEW D, NEW A \in SUBSET Places, NEW P \in SUBSET Files,
         NEW B \in SUBSET Databases, NEW E \in SUBSET Entries,
         NEW T \in SUBSET Places, WellFormed(D, A, P, B, E, T),
         NEW from \in Dirs, NEW to \in Dirs, from # to, Under(A, to) = {}
  PROVE  WellFormed(D \cup {to}, A \cup Copies(A, from, to),
                    P \cup Copies(P, from, to), B \cup Copies(B, from, to),
                    E \cup Copies(E, from, to), T \cup Copies(T, from, to))
  <1> DEFINE D2 == D \cup {to}
             A2 == A \cup Copies(A, from, to)
             P2 == P \cup Copies(P, from, to)
             B2 == B \cup Copies(B, from, to)
             E2 == E \cup Copies(E, from, to)
             T2 == T \cup Copies(T, from, to)
  <1> USE DEF WellFormed
  <1>1. /\ Copies(A, from, to) =
              {p \in Places : p.repo = to /\ [repo |-> from, arch |-> p.arch] \in A}
        /\ Copies(T, from, to) =
              {p \in Places : p.repo = to /\ [repo |-> from, arch |-> p.arch] \in T}
        /\ Copies(P, from, to) =
              {x \in Files : /\ x.repo = to
                             /\ [repo |-> from, arch |-> x.arch, up |-> x.up] \in P}
        /\ Copies(B, from, to) =
              {d \in Databases : /\ d.repo = to
                                 /\ [repo |-> from, arch |-> d.arch, name |-> d.name] \in B}
        /\ Copies(E, from, to) =
              {e \in Entries : /\ e.repo = to
                               /\ [repo |-> from, arch |-> e.arch,
                                   name |-> e.name, up |-> e.up] \in E}
    BY PlaceCopies, FileCopies, DatabaseCopies, EntryCopies
  <1>2. \A x \in P : x.repo # to
    <2> SUFFICES ASSUME NEW x \in P, x.repo = to
                 PROVE  FALSE
      OBVIOUS
    <2>1. PlaceOf(x) \in A /\ PlaceOf(x).repo = to
      BY DEF Nested, PlaceOf
    <2>2. QED
      BY <2>1 DEF Under
  <1>3. Nested(D2, A2, P2, B2, E2)
    <2>1. \A place \in A2 : place.repo \in D2
      BY <1>1 DEF Nested
    <2>2. ASSUME NEW x \in P2
          PROVE  PlaceOf(x) \in A2
      <3>1. CASE x \in P
        BY <3>1 DEF Nested
      <3>2. CASE x \in Copies(P, from, to)
        <4> DEFINE y == [repo |-> from, arch |-> x.arch, up |-> x.up]
        <4>1. x \in Files /\ x.repo = to /\ y \in P
          BY <1>1, <3>2
        <4>2. PlaceOf(y) \in A /\ PlaceOf(y) = [repo |-> from, arch |-> x.arch]
          BY <4>1 DEF Nested, PlaceOf
        <4>3. PlaceOf(x) \in Places /\ PlaceOf(x).repo = to /\ PlaceOf(x).arch = x.arch
          BY <4>1 DEF PlaceOf, Places, Files
        <4>4. QED
          BY <1>1, <4>2, <4>3
      <3>3. QED
        BY <3>1, <3>2
    <2>3. ASSUME NEW d \in B2
          PROVE  PlaceOf(d) \in A2
      <3>1. CASE d \in B
        BY <3>1 DEF Nested
      <3>2. CASE d \in Copies(B, from, to)
        <4> DEFINE c == [repo |-> from, arch |-> d.arch, name |-> d.name]
        <4>1. d \in Databases /\ d.repo = to /\ c \in B
          BY <1>1, <3>2
        <4>2. PlaceOf(c) \in A /\ PlaceOf(c) = [repo |-> from, arch |-> d.arch]
          BY <4>1 DEF Nested, PlaceOf
        <4>3. PlaceOf(d) \in Places /\ PlaceOf(d).repo = to /\ PlaceOf(d).arch = d.arch
          BY <4>1 DEF PlaceOf, Places, Databases
        <4>4. QED
          BY <1>1, <4>2, <4>3
      <3>3. QED
        BY <3>1, <3>2
    <2>4. ASSUME NEW e \in E2
          PROVE  [repo |-> e.repo, arch |-> e.arch, name |-> e.name] \in B2
      <3>1. CASE e \in E
        BY <3>1 DEF Nested
      <3>2. CASE e \in Copies(E, from, to)
        <4> DEFINE f == [repo |-> from, arch |-> e.arch, name |-> e.name, up |-> e.up]
        <4>1. e \in Entries /\ e.repo = to /\ f \in E
          BY <1>1, <3>2
        <4>2. [repo |-> from, arch |-> e.arch, name |-> e.name] \in B
          BY <4>1 DEF Nested
        <4>3. [repo |-> e.repo, arch |-> e.arch, name |-> e.name] \in Databases
          BY <4>1 DEF Databases, Entries
        <4>4. QED
          BY <1>1, <4>1, <4>2, <4>3
      <3>3. QED
        BY <3>1, <3>2
    <2>5. QED
      BY <2>1, <2>2, <2>3, <2>4 DEF Nested, PlaceOf
  <1>4. Unique(P2)
    <2> SUFFICES ASSUME NEW x \in P2, NEW y \in P2, SamePath(x, y)
                 PROVE  x = y
      BY DEF Unique, SamePath
    <2>1. CASE x \in P /\ y \in P
      BY <2>1 DEF Unique
    <2>2. CASE x \notin P \/ y \notin P
      <3>1. /\ x \in Files /\ y \in Files
            /\ [repo |-> from, arch |-> x.arch, up |-> x.up] \in P
            /\ [repo |-> from, arch |-> y.arch, up |-> y.up] \in P
            /\ x.repo = to /\ y.repo = to
        BY <1>1, <1>2, <2>2 DEF SamePath
      <3>2. SamePath([repo |-> from, arch |-> x.arch, up |-> x.up],
                     [repo |-> from, arch |-> y.arch, up |-> y.up])
        BY DEF SamePath
      <3>3. x.arch = y.arch /\ x.up = y.up
        BY <3>1, <3>2 DEF Unique
      <3>4. QED
        BY <3>1, <3>3 DEF Files
    <2>3. QED
      BY <2>1, <2>2
  <1>5. Backed(P2, E2, T2)
    <2> SUFFICES ASSUME NEW e \in E2, PlaceOf(e) \notin T2
                 PROVE  FileOfEntry(e) \in P2
      BY DEF Backed, PlaceOf, FileOfEntry
    <2>1. CASE e \in E
      BY <2>1 DEF Backed
    <2>2. CASE e \in Copies(E, from, to)
      <3> DEFINE f == [repo |-> from, arch |-> e.arch, name |-> e.name, up |-> e.up]
      <3>1. e \in Entries /\ e.repo = to /\ f \in E
        BY <1>1, <2>2
      <3>2. PlaceOf(f) \notin T
        BY <1>1, <3>1 DEF PlaceOf, Places, Entries
      <3>3. FileOfEntry(f) \in P
        BY <3>1, <3>2 DEF Backed
      <3>4. QED
        BY <1>1, <3>1, <3>3 DEF FileOfEntry, Files, Entries
    <2>3. QED
      BY <2>1, <2>2
  <1>6. QED
    BY <1>3, <1>4, <1>5 DEF WellFormed

(* One that loses a whole directory is, too.                               *)
LEMMA ShrunkTree ==
  ASSUME NEW D, NEW A, NEW P, NEW B, NEW E, NEW T, NEW gone,
         WellFormed(D, A, P, B, E, T)
  PROVE  WellFormed(D \ {gone}, Outside(A, gone), Outside(P, gone),
                    Outside(B, gone), Outside(E, gone), Outside(T, gone))
  <1>1. Nested(D \ {gone}, Outside(A, gone), Outside(P, gone), Outside(B, gone),
               Outside(E, gone))
    BY DEF WellFormed, Nested, Outside, PlaceOf
  <1>2. Unique(Outside(P, gone))
    BY DEF WellFormed, Unique, Outside
  <1>3. Backed(Outside(P, gone), Outside(E, gone), Outside(T, gone))
    BY DEF WellFormed, Backed, Outside, PlaceOf, FileOfEntry
  <1>4. QED
    BY <1>1, <1>2, <1>3 DEF WellFormed

(* A move is a copy whose original is taken away.                          *)
LEMMA MovedIsCopied ==
  ASSUME NEW S, S \in SUBSET Places \/ S \in SUBSET Files
                    \/ S \in SUBSET Databases \/ S \in SUBSET Entries,
         NEW from \in Dirs, NEW to \in Dirs, from # to
  PROVE  Moved(S, from, to) = Outside(S \cup Copies(S, from, to), from)
  <1>1. \A y \in Copies(S, from, to) : y.repo # from
    <2>1. CASE S \in SUBSET Places
      <3> SUFFICES ASSUME NEW y \in Copies(S, from, to)
                   PROVE  y.repo = to
        OBVIOUS
      <3>1. PICK x \in S : y = [x EXCEPT !.repo = to]
        BY DEF Copies, Under
      <3>2. QED
        BY <2>1, <3>1 DEF Places
    <2>2. CASE S \in SUBSET Files
      <3> SUFFICES ASSUME NEW y \in Copies(S, from, to)
                   PROVE  y.repo = to
        OBVIOUS
      <3>1. PICK x \in S : y = [x EXCEPT !.repo = to]
        BY DEF Copies, Under
      <3>2. QED
        BY <2>2, <3>1 DEF Files
    <2>3. CASE S \in SUBSET Databases
      <3> SUFFICES ASSUME NEW y \in Copies(S, from, to)
                   PROVE  y.repo = to
        OBVIOUS
      <3>1. PICK x \in S : y = [x EXCEPT !.repo = to]
        BY DEF Copies, Under
      <3>2. QED
        BY <2>3, <3>1 DEF Databases
    <2>4. CASE S \in SUBSET Entries
      <3> SUFFICES ASSUME NEW y \in Copies(S, from, to)
                   PROVE  y.repo = to
        OBVIOUS
      <3>1. PICK x \in S : y = [x EXCEPT !.repo = to]
        BY DEF Copies, Under
      <3>2. QED
        BY <2>4, <3>1 DEF Entries
    <2>5. QED
      BY <2>1, <2>2, <2>3, <2>4
  <1>2. QED
    BY <1>1 DEF Moved, Outside

LEMMA CopySnapshotDisk ==
  ASSUME ServiceInv, NEW t \in Threads, OthersAlone(t), CopySnapshot(t)
  PROVE  DiskInv'
  <1>1. CASE Refuse(t, "copy", "discard")
    BY <1>1, RefuseDisk DEF Plain, Calls, LifecycleCalls
  <1>2. CASE ~Refuse(t, "copy", "discard")
    <2>1. /\ CopyTree(job[t].repo, temp[t])
          /\ UNCHANGED <<dirs, job, subject, temp>>
          /\ pc[t] = "copy" /\ pc'[t] = "relabel"
      BY <1>2 DEF CopySnapshot, Go, context, request, ServiceInv, ControlInv, TypeOK
    <2>2. /\ job[t].repo \in Repos /\ temp[t] \in TempNames
          /\ job[t].repo \in Dirs /\ temp[t] \in Dirs
          /\ job[t].repo # temp[t]
      BY <2>1, ServiceAssumption DEF ServiceInv, ControlInv, JobsFit, Dirs,
         LifecycleCalls, RenameJobs
    <2>3. Under(archDirs, temp[t]) = {} /\ temp[t] \in dirs
      BY <2>1 DEF ServiceInv, DiskInv, ThreadInv, SnapshotFresh
    <2>4. TreeShape' /\ PathsUnique' /\ DatabaseBacked'
      <3>1. WellFormed(dirs, archDirs, pkgs, dbs, entries, torn)
        BY WellFormedDisk DEF ServiceInv, DiskInv
      <3>2. dirs' = dirs \cup {temp[t]}
        BY <2>1, <2>3
      <3>3. /\ archDirs \in SUBSET Places /\ torn \in SUBSET Places
            /\ pkgs \in SUBSET Files /\ dbs \in SUBSET Databases
            /\ entries \in SUBSET Entries
        BY DEF ServiceInv, ControlInv, TypeOK
      <3>4. WellFormed(dirs, archDirs, pkgs, dbs, entries, torn)'
        BY <2>1, <2>2, <2>3, <3>1, <3>2, <3>3, GrownTree DEF CopyTree
      <3>5. QED
        BY <3>4, WellFormedDisk, PTL
    <2>5. dbs' = dbs \cup {d \in Databases : /\ d.repo = temp[t]
                 /\ [repo |-> job[t].repo, arch |-> d.arch, name |-> d.name] \in dbs}
      <3>1. dbs \in SUBSET Databases
        BY DEF ServiceInv, ControlInv, TypeOK
      <3>2. QED
        BY <2>1, <2>2, <3>1, DatabaseCopies DEF CopyTree
    <2>6. DatabaseNamed'
      <3> SUFFICES ASSUME NEW d \in dbs', d.repo \in Repos
                   PROVE  d.name = d.repo
        BY DEF DatabaseNamed
      <3>1. d.repo # temp[t]
        BY <2>2, ServiceAssumption
      <3>2. d \in dbs
        BY <2>5, <3>1
      <3>3. QED
        BY <3>2 DEF ServiceInv, DiskInv, DatabaseNamed
    <2>7. \A d \in dbs : d.repo # temp[t]
      <3> SUFFICES ASSUME NEW d \in dbs, d.repo = temp[t]
                   PROVE  FALSE
        OBVIOUS
      <3>1. PlaceOf(d) \in archDirs /\ PlaceOf(d).repo = temp[t]
        BY DEF ServiceInv, DiskInv, TreeShape, PlaceOf
      <3>2. QED
        BY <2>3, <3>1 DEF Under
    <2>8. ThreadInv(t)'
      <3>1. \A d \in Under(dbs', temp[t]) : d.name = job[t].repo
        BY <2>2, <2>5, <2>7 DEF Under, ServiceInv, DiskInv, DatabaseNamed
      <3>2. QED
        BY <2>1, <2>3, <3>1 DEF ThreadInv, DirectoryMade, PathClaimed,
           FoundIsListed, SnapshotFresh
    <2>9. \A u \in Threads \ {t} : ThreadInv(u)'
      BY <2>1, LifecycleStepOthers DEF LifecycleWriters, LifecycleCalls
    <2>10. QED
      BY <2>4, <2>6, <2>8, <2>9 DEF DiskInv
  <1>3. QED
    BY <1>1, <1>2

LEMMA InstallSnapshotDisk ==
  ASSUME ServiceInv, NEW t \in Threads, OthersAlone(t), InstallSnapshot(t)
  PROVE  DiskInv'
  <1>1. CASE Refuse(t, "relabel", "discard")
    BY <1>1, RefuseDisk DEF Plain, Calls, LifecycleCalls
  <1>2. CASE ~Refuse(t, "relabel", "discard")
    <2> DEFINE from == temp[t]
               to == job[t].to
    <2>1. /\ MoveTree(from, to)
          /\ UNCHANGED <<job, subject, temp>>
          /\ pc[t] = "relabel" /\ pc'[t] = "purge"
          /\ to \notin dirs /\ ~Relabelling(t)
      BY <1>2 DEF InstallSnapshot, Go, context, request, ServiceInv, ControlInv, TypeOK
    <2>2. /\ from \in TempNames /\ to \in Repos
          /\ from \in Dirs /\ to \in Dirs /\ from # to
      BY <2>1, ServiceAssumption DEF ServiceInv, ControlInv, JobsFit, Dirs,
         LifecycleCalls, RenameJobs
    <2>3. /\ archDirs \in SUBSET Places /\ torn \in SUBSET Places
          /\ pkgs \in SUBSET Files /\ dbs \in SUBSET Databases
          /\ entries \in SUBSET Entries
      BY DEF ServiceInv, ControlInv, TypeOK
    <2>4. Under(archDirs, to) = {}
      BY <2>1 DEF ServiceInv, DiskInv, TreeShape, Under
    <2>5. TreeShape' /\ PathsUnique' /\ DatabaseBacked'
      <3>1. WellFormed(dirs, archDirs, pkgs, dbs, entries, torn)
        BY WellFormedDisk DEF ServiceInv, DiskInv
      <3> DEFINE Grown(S) == S \cup Copies(S, from, to)
      <3>2. WellFormed(dirs \cup {to}, Grown(archDirs), Grown(pkgs), Grown(dbs),
                       Grown(entries), Grown(torn))
        BY <2>2, <2>3, <2>4, <3>1, GrownTree
      <3>3. /\ dirs' = (dirs \cup {to}) \ {from}
            /\ archDirs' = Outside(Grown(archDirs), from)
            /\ pkgs' = Outside(Grown(pkgs), from)
            /\ dbs' = Outside(Grown(dbs), from)
            /\ entries' = Outside(Grown(entries), from)
            /\ torn' = Outside(Grown(torn), from)
        BY <2>1, <2>2, <2>3, MovedIsCopied DEF MoveTree
      <3> HIDE DEF Grown
      <3>4. WellFormed(dirs, archDirs, pkgs, dbs, entries, torn)'
        BY <3>2, <3>3, ShrunkTree
      <3>5. QED
        BY <3>4, WellFormedDisk, PTL
    <2>6. DatabaseNamed'
      <3> SUFFICES ASSUME NEW d \in dbs', d.repo \in Repos
                   PROVE  d.name = d.repo
        BY DEF DatabaseNamed
      <3>1. CASE d \in dbs
        BY <3>1 DEF ServiceInv, DiskInv, DatabaseNamed
      <3>2. CASE d \notin dbs
        <4> DEFINE c == [repo |-> from, arch |-> d.arch, name |-> d.name]
        <4>1. d.repo = to /\ c \in dbs
          BY <2>1, <2>2, <2>3, <3>2, DatabaseCopies DEF MoveTree, Moved, Outside
        <4>2. c \in Under(dbs, from) /\ c.name = d.name
          BY <4>1 DEF Under
        <4>3. d.name \in {job[t].repo, to}
          BY <2>1, <4>2 DEF ServiceInv, DiskInv, ThreadInv, SnapshotFresh
        <4>4. d.name # job[t].repo
          BY <2>1, <4>2 DEF Relabelling, Unlabelled
        <4>5. QED
          BY <4>1, <4>3, <4>4
      <3>3. QED
        BY <3>1, <3>2
    <2>7. ThreadInv(t)'
      BY <2>1, PlainThread DEF Plain, Calls, LifecycleCalls
    <2>8. \A u \in Threads \ {t} : ThreadInv(u)'
      BY <2>1, LifecycleStepOthers DEF LifecycleWriters, LifecycleCalls
    <2>9. QED
      BY <2>5, <2>6, <2>7, <2>8 DEF DiskInv
  <1>3. QED
    BY <1>1, <1>2

LEMMA DiscardSnapshotDisk ==
  ASSUME ServiceInv, NEW t \in Threads, OthersAlone(t), DiscardSnapshot(t)
  PROVE  DiskInv'
  <1>1. pc[t] = "discard" /\ pc'[t] = "unlock"
    BY DEF DiscardSnapshot, Go, ServiceInv, ControlInv, TypeOK
  <1>2. ThreadInv(t)'
    BY <1>1, PlainThread DEF Plain, Calls
  <1>3. CASE UNCHANGED core
    BY <1>2, <1>3, QuietStep DEF ServiceInv
  <1>4. CASE ~(UNCHANGED core)
    <2>1. /\ dirs' = dirs \ {temp[t]}
          /\ archDirs' = Outside(archDirs, temp[t])
          /\ pkgs' = Outside(pkgs, temp[t])
          /\ dbs' = Outside(dbs, temp[t])
          /\ entries' = Outside(entries, temp[t])
          /\ torn' = Outside(torn, temp[t])
      BY <1>4 DEF DiscardSnapshot, core, disk, folders, files, database, marks
    <2>2. TreeShape' /\ PathsUnique' /\ DatabaseBacked'
      <3>1. WellFormed(dirs, archDirs, pkgs, dbs, entries, torn)
        BY WellFormedDisk DEF ServiceInv, DiskInv
      <3>2. WellFormed(dirs, archDirs, pkgs, dbs, entries, torn)'
        BY <2>1, <3>1, ShrunkTree
      <3>3. QED
        BY <3>2, WellFormedDisk, PTL
    <2>3. DatabaseNamed'
      BY <2>1 DEF ServiceInv, DiskInv, DatabaseNamed, Outside
    <2>4. \A u \in Threads \ {t} : ThreadInv(u)'
      BY <1>1, LifecycleStepOthers DEF LifecycleWriters, LifecycleCalls
    <2>5. QED
      BY <1>2, <2>2, <2>3, <2>4 DEF DiskInv
  <1>5. QED
    BY <1>3, <1>4

(* Relabelling one database and the entries it lists keeps every entry in  *)
(* its database and touches nothing else.                                  *)
LEMMA RelabelDatabaseDisk ==
  ASSUME ServiceInv, NEW t \in Threads, OthersAlone(t), RelabelDatabase(t)
  PROVE  DiskInv'
  <1>1. CASE Refuse(t, "relabel", "discard")
    BY <1>1, RefuseDisk DEF Plain, Calls, LifecycleCalls
  <1>2. CASE ~Refuse(t, "relabel", "discard")
    <2>1. PICK d \in Unlabelled(t) :
            /\ dbs' = Relabelled(dbs, d, job[t].to)
            /\ entries' = Relabelled(entries, d, job[t].to)
            /\ pc[t] = "relabel" /\ pc'[t] \in {"relabel", "discard"}
            /\ UNCHANGED <<dirs, archDirs, pkgs, torn, job, subject, temp>>
      BY <1>2 DEF RelabelDatabase, Go, folders, files, marks, context, request,
         ServiceInv, ControlInv, TypeOK
    <2>2. /\ temp[t] \in TempNames /\ temp[t] \notin Repos
          /\ d \in dbs /\ d.repo = temp[t]
      BY <2>1, ServiceAssumption DEF ServiceInv, ControlInv, JobsFit,
         LifecycleCalls, Unlabelled, Under
    <2>3. dbs \in SUBSET Databases /\ entries \in SUBSET Entries
      BY DEF ServiceInv, ControlInv, TypeOK
    <2>4. \A y \in dbs' : \E x \in dbs :
             /\ y.repo = x.repo /\ y.arch = x.arch
             /\ y = x \/ (x.repo = temp[t] /\ y.name = job[t].to)
      BY <2>1, <2>2, <2>3 DEF Relabelled, Databases
    <2>5. \A f \in entries' : \E e \in entries :
             /\ f.repo = e.repo /\ f.arch = e.arch /\ f.up = e.up
             /\ f.name = IF e.repo = d.repo /\ e.arch = d.arch /\ e.name = d.name
                         THEN job[t].to ELSE e.name
      BY <2>1, <2>3 DEF Relabelled, Entries
    <2>6. \A x \in dbs :
             [repo |-> x.repo, arch |-> x.arch,
              name |-> IF x.repo = d.repo /\ x.arch = d.arch /\ x.name = d.name
                       THEN job[t].to ELSE x.name] \in dbs'
      BY <2>1, <2>3 DEF Relabelled, Databases
    <2>7. TreeShape'
      <3>1. \A place \in archDirs' : place.repo \in dirs'
        BY <2>1 DEF ServiceInv, DiskInv, TreeShape
      <3>2. \A x \in pkgs' : PlaceOf(x) \in archDirs'
        BY <2>1 DEF ServiceInv, DiskInv, TreeShape
      <3>3. \A y \in dbs' : PlaceOf(y) \in archDirs'
        BY <2>1, <2>4 DEF ServiceInv, DiskInv, TreeShape, PlaceOf
      <3>4. ASSUME NEW f \in entries'
            PROVE  [repo |-> f.repo, arch |-> f.arch, name |-> f.name] \in dbs'
        <4>1. PICK e \in entries :
                /\ f.repo = e.repo /\ f.arch = e.arch
                /\ f.name = IF e.repo = d.repo /\ e.arch = d.arch /\ e.name = d.name
                            THEN job[t].to ELSE e.name
          BY <2>5
        <4> DEFINE x == [repo |-> e.repo, arch |-> e.arch, name |-> e.name]
        <4>2. x \in dbs
          BY DEF ServiceInv, DiskInv, TreeShape
        <4>3. [repo |-> x.repo, arch |-> x.arch,
               name |-> IF x.repo = d.repo /\ x.arch = d.arch /\ x.name = d.name
                        THEN job[t].to ELSE x.name] \in dbs'
          BY <2>6, <4>2
        <4>4. QED
          BY <4>1, <4>3
      <3>5. QED
        BY <3>1, <3>2, <3>3, <3>4 DEF TreeShape, PlaceOf
    <2>8. PathsUnique'
      BY <2>1 DEF ServiceInv, DiskInv, PathsUnique, SamePath
    <2>9. DatabaseNamed'
      BY <2>2, <2>4 DEF ServiceInv, DiskInv, DatabaseNamed
    <2>10. DatabaseBacked'
      BY <2>1, <2>5 DEF ServiceInv, DiskInv, DatabaseBacked, PlaceOf, FileOfEntry
    <2>11. ThreadInv(t)'
      <3>1. \A y \in Under(dbs', temp[t]) : y.name \in {job[t].repo, job[t].to}
        BY <2>1, <2>4 DEF Under, ServiceInv, DiskInv, ThreadInv, SnapshotFresh
      <3>2. temp[t] \in dirs
        BY <2>1 DEF ServiceInv, DiskInv, ThreadInv, SnapshotFresh
      <3>3. QED
        BY <2>1, <3>1, <3>2 DEF ThreadInv, DirectoryMade, PathClaimed,
           FoundIsListed, SnapshotFresh
    <2>12. \A u \in Threads \ {t} : ThreadInv(u)'
      BY <2>1, LifecycleStepOthers DEF LifecycleWriters, LifecycleCalls
    <2>13. QED
      BY <2>7, <2>8, <2>9, <2>10, <2>11, <2>12 DEF DiskInv
  <1>3. QED
    BY <1>1, <1>2

(* A directory that loses a file is marked, and a database goes with       *)
(* everything it lists.                                                    *)
LEMMA PurgeFileDisk ==
  ASSUME ServiceInv, NEW t \in Threads, OthersAlone(t), PurgeFile(t)
  PROVE  DiskInv'
  <1>1. pc[t] = "purge" /\ pc'[t] = "purge" /\ UNCHANGED <<dirs, archDirs>>
    BY DEF PurgeFile, Go, folders, ServiceInv, ControlInv, TypeOK
  <1>2. pkgs' \subseteq pkgs /\ dbs' \subseteq dbs /\ entries' \subseteq entries
    BY DEF PurgeFile, files, database
  <1>3. \A e \in entries' : [repo |-> e.repo, arch |-> e.arch, name |-> e.name] \in dbs'
    <2>1. CASE UNCHANGED database
      BY <2>1 DEF database, ServiceInv, DiskInv, TreeShape
    <2>2. CASE \E d \in Under(dbs, job[t].repo) :
                 dbs' = dbs \ {d} /\ entries' = entries \ ListedIn(d)
      <3> PICK d \in dbs : dbs' = dbs \ {d} /\ entries' = entries \ ListedIn(d)
        BY <2>2 DEF Under
      <3> SUFFICES ASSUME NEW e \in entries'
                   PROVE  [repo |-> e.repo, arch |-> e.arch, name |-> e.name] \in dbs'
        OBVIOUS
      <3>1. [repo |-> e.repo, arch |-> e.arch, name |-> e.name] \in dbs
        BY DEF ServiceInv, DiskInv, TreeShape
      <3>2. [repo |-> e.repo, arch |-> e.arch, name |-> e.name] # d
        BY DEF ListedIn, In, PlaceOf
      <3>3. QED
        BY <3>1, <3>2
    <2>3. QED
      BY <2>1, <2>2 DEF PurgeFile
  <1>4. TreeShape'
    BY <1>1, <1>2, <1>3 DEF ServiceInv, DiskInv, TreeShape, PlaceOf
  <1>5. PathsUnique' /\ DatabaseNamed'
    BY <1>2 DEF ServiceInv, DiskInv, PathsUnique, SamePath, DatabaseNamed
  <1>6. DatabaseBacked'
    <2>1. torn \subseteq torn' /\ \A x \in pkgs \ pkgs' : PlaceOf(x) \in torn'
      BY DEF PurgeFile, files, database, marks, PlaceOf
    <2>2. \A e \in entries : PlaceOf(FileOfEntry(e)) = PlaceOf(e)
      BY DEF PlaceOf, FileOfEntry
    <2>3. QED
      BY <1>2, <2>1, <2>2 DEF ServiceInv, DiskInv, DatabaseBacked, PlaceOf, FileOfEntry
  <1>7. ThreadInv(t)'
    BY <1>1, PlainThread DEF Plain, Calls, LifecycleCalls
  <1>8. \A u \in Threads \ {t} : ThreadInv(u)'
    BY <1>1, LifecycleStepOthers DEF LifecycleWriters, LifecycleCalls
  <1>9. QED
    BY <1>4, <1>5, <1>6, <1>7, <1>8 DEF DiskInv

(* An empty architecture directory has no database, hence no entry.        *)
LEMMA PurgeArchitectureDisk ==
  ASSUME ServiceInv, NEW t \in Threads, OthersAlone(t), PurgeArchitecture(t)
  PROVE  DiskInv'
  <1>1. PICK place \in archDirs :
          /\ EmptyPlace(place)
          /\ archDirs' = archDirs \ {place} /\ torn' = torn \ {place}
          /\ UNCHANGED <<dirs, pkgs, dbs, entries>>
          /\ pc[t] = "purge" /\ pc'[t] = "purge"
    BY DEF PurgeArchitecture, Under, Go, files, database, ServiceInv, ControlInv, TypeOK
  <1>2. /\ \A x \in pkgs : PlaceOf(x) # place
        /\ \A d \in dbs : PlaceOf(d) # place
    BY <1>1 DEF EmptyPlace, In, PlaceOf
  <1>3. \A e \in entries : PlaceOf(e) # place
    <2> SUFFICES ASSUME NEW e \in entries
                 PROVE  PlaceOf(e) # place
      OBVIOUS
    <2> DEFINE d == [repo |-> e.repo, arch |-> e.arch, name |-> e.name]
    <2>1. d \in dbs /\ PlaceOf(d) = PlaceOf(e)
      BY DEF ServiceInv, DiskInv, TreeShape, PlaceOf
    <2>2. QED
      BY <1>2, <2>1
  <1>4. TreeShape'
    BY <1>1, <1>2 DEF ServiceInv, DiskInv, TreeShape, PlaceOf
  <1>5. PathsUnique' /\ DatabaseNamed'
    BY <1>1 DEF ServiceInv, DiskInv, PathsUnique, SamePath, DatabaseNamed
  <1>6. DatabaseBacked'
    BY <1>1, <1>3 DEF ServiceInv, DiskInv, DatabaseBacked, PlaceOf, FileOfEntry
  <1>7. ThreadInv(t)'
    BY <1>1, PlainThread DEF Plain, Calls, LifecycleCalls
  <1>8. \A u \in Threads \ {t} : ThreadInv(u)'
    BY <1>1, LifecycleStepOthers DEF LifecycleWriters, LifecycleCalls
  <1>9. QED
    BY <1>4, <1>5, <1>6, <1>7, <1>8 DEF DiskInv

LEMMA PurgeRepositoryDisk ==
  ASSUME ServiceInv, NEW t \in Threads, OthersAlone(t), PurgeRepository(t)
  PROVE  DiskInv'
  <1>1. /\ pc[t] = "purge" /\ pc'[t] = "unlock"
        /\ UNCHANGED <<archDirs, pkgs, dbs, entries, torn>>
        /\ \/ UNCHANGED dirs
           \/ dirs' = dirs \ {job[t].repo} /\ Under(archDirs, job[t].repo) = {}
    BY DEF PurgeRepository, Refuse, Go, disk, folders, files, database, marks,
       ServiceInv, ControlInv, TypeOK
  <1>2. TreeShape'
    BY <1>1 DEF ServiceInv, DiskInv, TreeShape, PlaceOf, Under
  <1>3. PathsUnique' /\ DatabaseNamed' /\ DatabaseBacked'
    BY <1>1 DEF ServiceInv, DiskInv, PathsUnique, SamePath, DatabaseNamed,
       DatabaseBacked, PlaceOf, FileOfEntry
  <1>4. ThreadInv(t)'
    BY <1>1, PlainThread DEF Plain, Calls
  <1>5. \A u \in Threads \ {t} : ThreadInv(u)'
    BY <1>1, LifecycleStepOthers DEF LifecycleWriters, LifecycleCalls
  <1>6. QED
    BY <1>2, <1>3, <1>4, <1>5 DEF DiskInv

-----------------------------------------------------------------------------
(* The death of a process leaves the disk as it is, and a dead thread      *)
(* claims nothing.                                                         *)
LEMMA CrashDisk ==
  ASSUME ServiceInv, NEW process \in Processes, Crash(process)
  PROVE  DiskInv'
  <1> USE DEF core
  <1>1. UNCHANGED core
    BY DEF Crash, folders, files, database
  <1>2. TreeShape'
    BY <1>1 DEF ServiceInv, DiskInv, TreeShape, PlaceOf
  <1>3. PathsUnique'
    BY <1>1 DEF ServiceInv, DiskInv, PathsUnique, SamePath
  <1>4. DatabaseNamed' /\ DatabaseBacked'
    BY <1>1 DEF ServiceInv, DiskInv, DatabaseNamed, DatabaseBacked, PlaceOf, FileOfEntry
  <1>5. ASSUME NEW u \in Threads
        PROVE  ThreadInv(u)'
    <2>1. CASE pc'[u] = "idle"
      BY <2>1, PlainThread DEF Plain, Calls
    <2>2. CASE pc'[u] # "idle"
      <3>1. pc'[u] = pc[u] /\ job'[u] = job[u] /\ subject'[u] = subject[u]
            /\ temp'[u] = temp[u]
        BY <2>2 DEF Crash
      <3>2. QED
        BY <1>1, <3>1 DEF ServiceInv, DiskInv, ThreadInv, DirectoryMade,
           PathClaimed, FoundIsListed, SnapshotFresh, Matches, Listing, In,
           Under, At, File, FileOfEntry, SamePath
    <2>3. QED
      BY <2>1, <2>2
  <1>6. QED
    BY <1>2, <1>3, <1>4, <1>5 DEF DiskInv

LEMMA StutterDisk ==
  ASSUME DiskInv, UNCHANGED vars
  PROVE  DiskInv'
  <1> USE DEF vars, disk, folders, files, database, marks, request
  <1>1. TreeShape'
    BY DEF DiskInv, TreeShape, PlaceOf
  <1>2. PathsUnique'
    BY DEF DiskInv, PathsUnique, SamePath
  <1>3. DatabaseNamed' /\ DatabaseBacked'
    BY DEF DiskInv, DatabaseNamed, DatabaseBacked, PlaceOf, FileOfEntry
  <1>4. \A u \in Threads : ThreadInv(u)'
    BY DEF DiskInv, ThreadInv, DirectoryMade, PathClaimed, FoundIsListed,
       SnapshotFresh, Matches, Listing, In, Under, At, File, FileOfEntry, SamePath
  <1>5. QED
    BY <1>1, <1>2, <1>3, <1>4 DEF DiskInv

LEMMA InitDisk == Init => DiskInv
  BY DEF Init, DiskInv, TreeShape, PathsUnique, DatabaseNamed, DatabaseBacked,
     ThreadInv, DirectoryMade, PathClaimed, FoundIsListed, SnapshotFresh

LEMMA ServiceInductive == ServiceInv /\ [Next]_vars => ServiceInv'
  <1> SUFFICES ASSUME ServiceInv, [Next]_vars
               PROVE  DiskInv'
    BY ControlInductive DEF ServiceInv
  <1>1. ASSUME NEW t \in Threads, Begins(t) \/ Step(t)
        PROVE  DiskInv'
    <2>1. OthersAlone(t)
      BY <1>1, StepsAreLocal DEF ServiceInv
    <2>2. CASE Begins(t) \/ Unlock(t)
      BY <2>1, <2>2, PlainStepDisk
    <2>3. CASE PublishStep(t)
      BY <2>1, <2>3, PlainStepDisk, MakeDirectoryDisk, StatDestinationDisk,
         InstallPackageDisk, InstallSignatureDisk, AddEntryDisk, AddFailsDisk,
         UndoPackageDisk DEF PublishStep
    <2>4. CASE RemoveStep(t)
      BY <2>1, <2>4, PlainStepDisk, FindPackageDisk, RemoveEntryDisk,
         RemoveFileDisk DEF RemoveStep
    <2>5. CASE LifecycleStep(t)
      BY <2>1, <2>5, PlainStepDisk, CreateDisk, MakeSnapshotDisk,
         CopySnapshotDisk, RelabelDatabaseDisk, InstallSnapshotDisk,
         DiscardSnapshotDisk, PurgeFileDisk, PurgeArchitectureDisk,
         PurgeRepositoryDisk DEF LifecycleStep
    <2>6. QED
      BY <1>1, <2>2, <2>3, <2>4, <2>5 DEF Step
  <1>2. CASE \E process \in Processes : Crash(process)
    BY <1>2, CrashDisk
  <1>3. CASE Rest \/ UNCHANGED vars
    BY <1>3, StutterDisk DEF Rest, ServiceInv
  <1>4. QED
    BY <1>1, <1>2, <1>3 DEF Next

-----------------------------------------------------------------------------
(* The whole inductive invariant: between any two calls, whatever the      *)
(* interleaving, the failures and the crashes (service.go:60-368).         *)
THEOREM ServiceInvariant == Spec => []ServiceInv
  <1>1. Init => ServiceInv
    BY InitControl, InitDisk DEF ServiceInv
  <1>2. QED
    BY <1>1, ServiceInductive, PTL DEF Spec

(* Whatever a database lists is on disk and is the file the entry was made *)
(* from, unless the directory is torn (service.go:176-193, 221-234 and     *)
(* 303-321), for any number of clients, processes, failures and crashes.   *)
THEOREM DatabaseBackedAlways == Spec => []DatabaseBacked
  <1>1. ServiceInv => DatabaseBacked
    BY DEF ServiceInv, DiskInv
  <1>2. QED
    BY <1>1, ServiceInvariant, PTL

(* Every database in a repository has the repository's name, so that no    *)
(* renamed repository is half readable (service.go:307-318).               *)
THEOREM DatabaseNamedAlways == Spec => []DatabaseNamed
  <1>1. ServiceInv => DatabaseNamed
    BY DEF ServiceInv, DiskInv
  <1>2. QED
    BY <1>1, ServiceInvariant, PTL

-----------------------------------------------------------------------------
(* Package files are never overwritten.  PublishUpload tests the           *)
(* destination with one call and renames onto it with another; the proof   *)
(* is that nothing can put a file there between the two.                   *)

(* The only steps that add a package file.                                 *)
LEMMA StepAddsFiles ==
  ASSUME ControlInv, NEW t \in Threads, Begins(t) \/ Step(t)
  PROVE  \/ pkgs' \subseteq pkgs
         \/ pc[t] = "install" /\ pkgs' = Placed(pkgs, File(t))
         \/ pc[t] = "copy" /\ CopyTree(job[t].repo, temp[t])
         \/ /\ pc[t] = "relabel" /\ job[t].to \notin dirs
            /\ MoveTree(temp[t], job[t].to)
  <1> USE DEF Go, Proceed, Refuse, Begin, RefuseRequest, disk, files, Unlinked, Outside
  <1>1. CASE Begins(t)
    BY <1>1 DEF Begins, BeginUpload, BeginRemove, BeginLifecycle
  <1>2. CASE PublishStep(t)
    BY <1>2 DEF PublishStep, ReceiveUpload, LockForPublish, Inspect,
       MakeDirectory, StatDestination, InstallPackage, InstallSignature,
       AddEntry, AddFails, Cancel, UndoPackage, UndoSignature, Cleanup
  <1>3. CASE RemoveStep(t)
    BY <1>3 DEF RemoveStep, LockForRemove, FindPackage, RemoveEntry,
       RemoveEntryFails, Cancel, RemoveFile, RemoveSignature
  <1>4. CASE LifecycleStep(t)
    BY <1>4 DEF LifecycleStep, LockForLifecycle, Create, CheckRename,
       MakeSnapshot, CopySnapshot, RelabelDatabase, InstallSnapshot,
       DiscardSnapshot, CheckRepository, PurgeFile, PurgeArchitecture,
       PurgeRepository
  <1>5. CASE Unlock(t)
    BY <1>5 DEF Unlock
  <1>6. QED
    BY <1>1, <1>2, <1>3, <1>4, <1>5 DEF Step

(* A thread gets to the rename only by way of a test that found nothing.   *)
LEMMA OnlyStatLeadsToInstall ==
  ASSUME ControlInv, NEW t \in Threads, Begins(t) \/ Step(t), pc'[t] = "install"
  PROVE  Proceed(t, "stat", "install") /\ ~FileExists(t)
  <1> USE DEF ControlInv, TypeOK, Go, Proceed, Refuse, Begin, RefuseRequest
  <1>1. CASE Begins(t)
    BY <1>1 DEF Begins, BeginUpload, BeginRemove, BeginLifecycle
  <1>2. CASE PublishStep(t)
    BY <1>2 DEF PublishStep, ReceiveUpload, LockForPublish, Inspect,
       MakeDirectory, StatDestination, InstallPackage, AfterInstall,
       InstallSignature, AddEntry, AddFails, Cancel, UndoPackage, AfterUndo,
       UndoSignature, Cleanup
  <1>3. CASE RemoveStep(t)
    BY <1>3 DEF RemoveStep, LockForRemove, FindPackage, RemoveEntry,
       RemoveEntryFails, Cancel, RemoveFile, RemoveSignature
  <1>4. CASE LifecycleStep(t)
    BY <1>4 DEF LifecycleStep, LockForLifecycle, Create, CheckRename,
       MakeSnapshot, CopySnapshot, RelabelDatabase, InstallSnapshot,
       DiscardSnapshot, CheckRepository, PurgeFile, PurgeArchitecture,
       PurgeRepository
  <1>5. CASE Unlock(t)
    BY <1>5 DEF Unlock
  <1>6. QED
    BY <1>1, <1>2, <1>3, <1>4, <1>5 DEF Step

LEMMA StepKeepsDestinationFree ==
  ASSUME ServiceInv, DestinationFree, NEW t \in Threads, Begins(t) \/ Step(t)
  PROVE  DestinationFree'
  <1> USE DEF ServiceInv
  <1> SUFFICES ASSUME NEW u \in Threads, pc'[u] = "install",
                      NEW x \in pkgs', SamePath(x, File(u)')
               PROVE  FALSE
    BY DEF DestinationFree, FileExists, SamePath, File
  <1>1. CASE u = t
    <2>1. Proceed(t, "stat", "install") /\ ~FileExists(t)
      BY <1>1, OnlyStatLeadsToInstall
    <2>2. UNCHANGED <<pkgs, job, subject>>
      BY <2>1 DEF Proceed, disk, files, context, request
    <2>3. QED
      BY <1>1, <2>1, <2>2 DEF FileExists, SamePath, File
  <1>2. CASE u # t
    <2>1. OthersAlone(t)
      BY StepsAreLocal
    <2>2. pc[u] = "install" /\ File(u)' = File(u)
      BY <1>2, <2>1 DEF OthersAlone, File
    <2>3. pc[u] \in PairWriters
      BY <2>2 DEF PairWriters, PublishCalls
    <2>4. x \notin pkgs
      BY <2>2 DEF DestinationFree, FileExists
    <2>5. pc[t] \notin LifecycleWriters
      BY <1>2, <2>3, WritersExclude
    <2>6. pc[t] = "install" /\ x = File(t)
      BY <2>4, <2>5, StepAddsFiles DEF LifecycleWriters, LifecycleCalls,
         Placed, Unlinked
    <2>7. At(t) # At(u)
      BY <1>2, <2>3, <2>6, WritersExclude DEF PairWriters, PublishCalls
    <2>8. QED
      BY <2>2, <2>6, <2>7 DEF SamePath, File, At
  <1>3. QED
    BY <1>1, <1>2

LEMMA DestinationFreeInductive ==
  ServiceInv /\ DestinationFree /\ [Next]_vars => DestinationFree'
  <1> SUFFICES ASSUME ServiceInv, DestinationFree, [Next]_vars
               PROVE  DestinationFree'
    OBVIOUS
  <1>1. ASSUME NEW t \in Threads, Begins(t) \/ Step(t)
        PROVE  DestinationFree'
    BY <1>1, StepKeepsDestinationFree
  <1>2. CASE \E process \in Processes : Crash(process)
    <2>1. UNCHANGED pkgs
      BY <1>2 DEF Crash, files
    <2>2. \A u \in Threads : pc'[u] = "install" =>
              pc[u] = "install" /\ job'[u] = job[u] /\ subject'[u] = subject[u]
      BY <1>2 DEF Crash
    <2>3. QED
      BY <2>1, <2>2 DEF DestinationFree, FileExists, SamePath, File
  <1>3. CASE Rest \/ UNCHANGED vars
    BY <1>3 DEF Rest, vars, disk, files, request, DestinationFree, FileExists,
       SamePath, File
  <1>4. QED
    BY <1>1, <1>2, <1>3 DEF Next

Overwrites == \E x \in pkgs \ pkgs' : \E y \in pkgs' : SamePath(x, y)

LEMMA StepOverwritesNothing ==
  ASSUME ServiceInv, DestinationFree, [Next]_vars
  PROVE  ~Overwrites
  <1> USE DEF ServiceInv
  <1>1. CASE pkgs' \subseteq pkgs
    BY <1>1 DEF Overwrites, DiskInv, PathsUnique
  <1>2. ASSUME NEW t \in Threads, Begins(t) \/ Step(t)
        PROVE  ~Overwrites
    <2>1. CASE pc[t] = "install" /\ pkgs' = Placed(pkgs, File(t))
      <3>1. \A x \in pkgs : ~SamePath(x, File(t))
        BY <2>1 DEF DestinationFree, FileExists
      <3>2. Unlinked(pkgs, File(t)) = pkgs
        BY <3>1, SMT DEF Unlinked, SamePath
      <3>3. pkgs \subseteq pkgs'
        BY <2>1, <3>2 DEF Placed
      <3>4. QED
        BY <3>3 DEF Overwrites
    <2>2. CASE CopyTree(job[t].repo, temp[t])
      BY <2>2 DEF CopyTree, Overwrites
    <2>3. CASE pc[t] = "relabel" /\ MoveTree(temp[t], job[t].to)
      <3>1. /\ temp[t] \in Dirs /\ job[t].to \in Dirs /\ temp[t] # job[t].to
            /\ pkgs \in SUBSET Files
        BY <2>3, ServiceAssumption DEF ControlInv, TypeOK, JobsFit, Dirs,
           LifecycleCalls, RenameJobs
      <3>2. \A y \in Copies(pkgs, temp[t], job[t].to) : y.repo # temp[t]
        <4>1. Copies(pkgs, temp[t], job[t].to) =
                {y \in Files : /\ y.repo = job[t].to
                               /\ [repo |-> temp[t], arch |-> y.arch, up |-> y.up] \in pkgs}
          BY <3>1, FileCopies
        <4>2. QED
          BY <3>1, <4>1
      <3>3. QED
        BY <2>3, <3>2 DEF MoveTree, Moved, Outside, Overwrites, SamePath
    <2>4. QED
      BY <1>1, <1>2, <2>1, <2>2, <2>3, StepAddsFiles
  <1>3. CASE \E process \in Processes : Crash(process)
    BY <1>1, <1>3 DEF Crash, files
  <1>4. CASE Rest \/ UNCHANGED vars
    BY <1>1, <1>4 DEF Rest, vars, disk, files
  <1>5. QED
    BY <1>2, <1>3, <1>4 DEF Next

-----------------------------------------------------------------------------
(* Between the test of the destination and the rename onto it nothing gets *)
(* there (service.go:170-178): Publish's pair lock keeps other             *)
(* publications out, and the shared lifecycle lock renames.                *)
THEOREM DestinationStaysFree == Spec => []DestinationFree
  <1>1. Init => DestinationFree
    BY DEF Init, DestinationFree
  <1>2. QED
    BY <1>1, ServiceInvariant, DestinationFreeInductive, PTL DEF Spec

(* No step replaces a package file by another one of the same file name,   *)
(* although the test and the rename are two calls (service.go:171-178).    *)
THEOREM NeverOverwrittenAlways == Spec => NeverOverwritten
  <1>1. ServiceInv /\ DestinationFree /\ [Next]_vars =>
            [\A x \in pkgs \ pkgs' : \A y \in pkgs' : ~SamePath(x, y)]_vars
    BY StepOverwritesNothing DEF Overwrites
  <1>2. QED
    BY <1>1, ServiceInvariant, DestinationStaysFree, PTL DEF Spec, NeverOverwritten
=============================================================================
