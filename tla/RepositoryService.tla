------------------------- MODULE RepositoryService -------------------------
(***************************************************************************)
(* repository.Service (src/internal/repository/service.go): the mutations  *)
(* of the depot as the sequences of file system calls and repo-add or      *)
(* repo-remove commands they are, interleaved, failing at any call and cut *)
(* short by the death of their process.                                    *)
(*                                                                         *)
(* The data root is a set of directories and sets of files in them.  A     *)
(* file is identified by its directory, its architecture and what it       *)
(* holds; FileOf says which files of one directory share a path.  The      *)
(* locks are the ones of LifecycleLock, which FileLocks implements.        *)
(***************************************************************************)
EXTENDS Naturals, FiniteSets

CONSTANTS
    Threads,      \* requests that can be in progress at the same time
    Processes,    \* pkgdepot processes on the data root
    ProcessOf,    \* the process that serves a thread's requests
    Repos,        \* repository names
    Archs,        \* architecture names
    Packages,     \* package archives that clients upload
    NameOf,       \* the package name in an archive's .PKGINFO
    FileOf,       \* the file name it is uploaded under
    Signed,       \* the archives uploaded with a detached signature
    Accepted,     \* <<package, architecture>>: it passes the inspection
    TempNames,    \* names os.MkdirTemp picks from
    None,
    MaxRequests,  \* bound: requests made in one behaviour
    MaxFaults,    \* bound: failing system calls and commands
    MaxCrashes    \* bound: deaths of a process

ASSUME ServiceAssumption ==
    /\ ProcessOf \in [Threads -> Processes]
    /\ Signed \subseteq Packages
    /\ Accepted \subseteq Packages \X Archs
    /\ Archs # {}
    /\ Repos \cap TempNames = {}
    /\ None \notin Packages \cup TempNames
    /\ MaxRequests \in Nat /\ MaxFaults \in Nat /\ MaxCrashes \in Nat

Keys == [repo : Repos, arch : Archs]
Dirs == Repos \cup TempNames

VARIABLES
    (* under <root>/repositories *)
    dirs,      \* repository directories and hidden rename snapshots
    archDirs,  \* architecture directories in them
    pkgs,      \* package files
    sigs,      \* signature files, with the package they were uploaded with
    dbs,       \* package databases <name>.db.tar.gz with their link <name>.db
    entries,   \* what the databases list
    cmdLocks,  \* the databases with a left-over lock file of a command
    torn,      \* auxiliary: directories a failure left half changed
    (* under <root>/staging and <root>/locks *)
    staging,   \* upload directories
    held,      \* the pairs a thread has locked
    (* in the processes *)
    pc,        \* the next call of a thread
    job,       \* the request it serves
    subject,   \* the package the request is about, once known
    temp,      \* the temporary directory it made
    reply,     \* what the client will be told
    (* bounds *)
    requests, faults, crashes

folders == <<dirs, archDirs>>
files == <<pkgs, sigs>>
database == <<dbs, entries>>
marks == <<cmdLocks, torn>>
disk == <<folders, files, database, marks>>
request == <<job, subject, temp>>
context == <<staging, held, request>>
budgets == <<requests, faults, crashes>>
vars == <<disk, staging, held, pc, request, reply, budgets>>

Lock == INSTANCE LifecycleLock WITH held <- held

-----------------------------------------------------------------------------
Names == {NameOf[u] : u \in Packages}
Files == [repo : Dirs, arch : Archs, up : Packages]
Databases == [repo : Dirs, arch : Archs, name : Repos]
Entries == [repo : Dirs, arch : Archs, name : Repos, up : Packages]
Places == [repo : Dirs, arch : Archs]

NoJob == [op |-> "none"]
PublishJobs == [op : {"publish"}, repo : Repos, arch : Archs]
RemoveJobs == [op : {"remove"}, repo : Repos, arch : Archs, name : Names]
RenameJobs == [op : {"rename"}, repo : Repos, to : Repos]
CreateJobs == [op : {"create"}, repo : Repos]
DeleteJobs == [op : {"removeRepository"}, repo : Repos]
LifecycleJobs == RenameJobs \cup CreateJobs \cup DeleteJobs

PublishCalls == {"receive", "publishLock", "inspect", "mkdir", "stat",
                 "install", "sign", "add", "undo", "undoSig", "cleanup"}
RemoveCalls == {"removeLock", "find", "removeEntry", "removeFile", "removeSig"}
LifecycleCalls == {"lifecycleLock", "check", "snapshot", "copy", "relabel",
                   "discard", "purge"}
Calls == {"idle", "unlock"} \cup PublishCalls \cup RemoveCalls \cup LifecycleCalls

TypeOK ==
    /\ dirs \in SUBSET Dirs
    /\ archDirs \in SUBSET Places
    /\ pkgs \in SUBSET Files
    /\ sigs \in SUBSET Files
    /\ dbs \in SUBSET Databases
    /\ entries \in SUBSET Entries
    /\ cmdLocks \in SUBSET Databases
    /\ torn \in SUBSET Places
    /\ staging \in SUBSET TempNames
    /\ held \in [Threads -> SUBSET Keys]
    /\ pc \in [Threads -> Calls]
    /\ job \in [Threads -> {NoJob} \cup PublishJobs \cup RemoveJobs \cup LifecycleJobs]
    /\ subject \in [Threads -> Packages \cup {None}]
    /\ temp \in [Threads -> TempNames \cup {None}]
    /\ reply \in [Threads -> {"pending", "ok", "error"}]
    /\ requests \in 0..MaxRequests
    /\ faults \in 0..MaxFaults
    /\ crashes \in 0..MaxCrashes

-----------------------------------------------------------------------------
(* Trees of files.                                                         *)

Under(S, dir) == {x \in S : x.repo = dir}
Outside(S, dir) == {x \in S : x.repo # dir}
Copies(S, from, to) == {[x EXCEPT !.repo = to] : x \in Under(S, from)}
Moved(S, from, to) == Outside(S, from) \cup Copies(S, from, to)

SamePath(x, y) ==
    x.repo = y.repo /\ x.arch = y.arch /\ FileOf[x.up] = FileOf[y.up]
Unlinked(S, x) == {y \in S : ~SamePath(x, y)}
Placed(S, x) == Unlinked(S, x) \cup {x}   \* rename(2) replaces its target

In(S, place) == {x \in S : x.repo = place.repo /\ x.arch = place.arch}

(* What alpm.ReadDatabase finds at databasePath(repository, architecture). *)
Listing(place) == {e.up : e \in {f \in In(entries, place) : f.name = place.repo}}

(* The pair a publication or a removal works on, and its package file.     *)
At(t) == [repo |-> job[t].repo, arch |-> job[t].arch]
File(t) == [repo |-> job[t].repo, arch |-> job[t].arch, up |-> subject[t]]

-----------------------------------------------------------------------------
(* How a thread proceeds.                                                  *)

Go(t, from, to) == pc[t] = from /\ pc' = [pc EXCEPT ![t] = to]

Answer(t, outcome) == reply' = [reply EXCEPT ![t] = outcome]

(* A system call or a command returns an error the program has to handle.  *)
Fault ==
    /\ faults < MaxFaults
    /\ faults' = faults + 1
    /\ UNCHANGED <<requests, crashes>>

(* A call that only decides how to go on.                                  *)
Proceed(t, from, to) ==
    /\ Go(t, from, to)
    /\ UNCHANGED <<disk, context, reply, budgets>>

(* Mutant: an error returned before the unlock and the Cleanup were        *)
(* deferred.                                                               *)
RefuseWithoutDefer(t, from, to) ==
    /\ Go(t, from, "idle")
    /\ Answer(t, "error")
    /\ UNCHANGED <<disk, context>>

(* A failing call that changed nothing, answered with an error.            *)
Refuse(t, from, to) ==
    /\ Go(t, from, to)
    /\ Answer(t, "error")
    /\ UNCHANGED <<disk, context>>

Begin(t, first, newJob) ==
    /\ requests < MaxRequests
    /\ Go(t, "idle", first)
    /\ job' = [job EXCEPT ![t] = newJob]
    /\ requests' = requests + 1
    /\ UNCHANGED <<disk, held, reply, faults, crashes>>

-----------------------------------------------------------------------------
(* Publish: BeginUpload, WritePackage, WriteSignature, PublishUpload.      *)

BeginUpload(t) ==
    \E place \in Keys, u \in Packages, d \in TempNames \ staging :
        /\ Begin(t, "receive",
                 [op |-> "publish", repo |-> place.repo, arch |-> place.arch])
        /\ staging' = staging \cup {d}
        /\ temp' = [temp EXCEPT ![t] = d]
        /\ subject' = [subject EXCEPT ![t] = u]

(* The parts are written to the staging directory, or the client went away *)
(* or sent something else, and the deferred Cleanup runs.                  *)
ReceiveUpload(t) ==
    \/ Proceed(t, "receive", "publishLock")
    \/ Refuse(t, "receive", "cleanup") /\ UNCHANGED budgets

LockForPublish(t) ==
    \/ /\ Go(t, "publishLock", "inspect")
       /\ Lock!Acquire(t, {At(t)})
       /\ UNCHANGED <<disk, staging, request, reply, budgets>>
    \/ Refuse(t, "publishLock", "cleanup") /\ Fault

Fits(t) == <<subject[t], job[t].arch>> \in Accepted

(* Mutant: the architecture directory is made before the inspection.       *)
InspectAfterMkdir(t) ==
    \/ Proceed(t, "inspect", "mkdir") /\ Fits(t)
    \/ /\ Go(t, "inspect", "unlock")
       /\ ~Fits(t)
       /\ Answer(t, "error")
       /\ dirs' = dirs \cup {job[t].repo}
       /\ archDirs' = archDirs \cup {At(t)}
       /\ UNCHANGED <<files, database, marks, context, budgets>>

Inspect(t) ==
    \/ Proceed(t, "inspect", "mkdir") /\ Fits(t)
    \/ Refuse(t, "inspect", "unlock") /\ ~Fits(t) /\ UNCHANGED budgets
    \/ Refuse(t, "inspect", "unlock") /\ Fault

(* MkdirAll also creates the repository, if it is (no longer) there; a     *)
(* failing one may have created it and not the architecture directory.     *)
MakeDirectory(t) ==
    /\ pc[t] = "mkdir"
    /\ \/ /\ Go(t, "mkdir", "stat")
          /\ dirs' = dirs \cup {job[t].repo}
          /\ archDirs' = archDirs \cup {At(t)}
          /\ UNCHANGED <<reply, budgets>>
       \/ /\ Go(t, "mkdir", "unlock")
          /\ Answer(t, "error")
          /\ Fault
          /\ dirs' \in {dirs, dirs \cup {job[t].repo}}
          /\ UNCHANGED archDirs
    /\ UNCHANGED <<files, database, marks, context>>

(* Mutants: no test at all, and a test of the database instead.            *)
NotTested(t) == FALSE
ListedInstead(t) == \E u \in Listing(At(t)) : FileOf[u] = FileOf[subject[t]]

FileExists(t) == \E x \in pkgs : SamePath(x, File(t))

StatDestination(t) ==
    \/ Proceed(t, "stat", "install") /\ ~FileExists(t)
    \/ Refuse(t, "stat", "unlock") /\ FileExists(t) /\ UNCHANGED budgets
    \/ Refuse(t, "stat", "unlock") /\ Fault

(* Mutant: the signature part is never installed.                          *)
NeverSign(t) == "add"

AfterInstall(t) == IF subject[t] \in Signed THEN "sign" ELSE "add"

InstallPackage(t) ==
    \/ /\ Go(t, "install", AfterInstall(t))
       /\ pkgs' = Placed(pkgs, File(t))
       /\ UNCHANGED <<folders, sigs, database, marks, context, reply, budgets>>
    \/ Refuse(t, "install", "unlock") /\ Fault

(* When the signature cannot be installed the package is removed again,    *)
(* and whether that worked is ignored.                                     *)
InstallSignature(t) ==
    \/ /\ Go(t, "sign", "add")
       /\ sigs' = Placed(sigs, File(t))
       /\ UNCHANGED <<pkgs, reply, budgets>>
       /\ UNCHANGED <<folders, database, marks, context>>
    \/ /\ Go(t, "sign", "unlock")
       /\ Answer(t, "error")
       /\ Fault
       /\ pkgs' \in {pkgs, Unlinked(pkgs, File(t))}
       /\ UNCHANGED <<folders, sigs, database, marks, context>>

-----------------------------------------------------------------------------
(* The commands.  repo-add and repo-remove replace the database by a       *)
(* rename, so that it changes at once.  One that fails or is killed with   *)
(* its request may have done so already (late), and a killed one leaves    *)
(* its lock file <name>.db.tar.gz.lck, for which every later one on a      *)
(* database of that name there waits (--wait-for-lock).                    *)

(* Mutant: every command starts from an empty database.                    *)
FreshDatabase(place, name) == {e \in In(entries, place) : e.name = place.repo}

OfName(place, name) ==
    {e \in In(entries, place) : e.name = place.repo /\ NameOf[e.up] = name}

Entry(place, u) ==
    [repo |-> place.repo, arch |-> place.arch, name |-> place.repo, up |-> u]

Database(place) == [repo |-> place.repo, arch |-> place.arch, name |-> place.repo]

(* repo-add lists what it finds in the file it is given.                   *)
ListPackage(place, x) ==
    /\ entries' = (entries \ OfName(place, NameOf[x.up])) \cup {Entry(place, x.up)}
    /\ dbs' = dbs \cup {Database(place)}

(* Mutant: a repo-remove that succeeds without doing anything.             *)
KeepEntry(place, name) == UNCHANGED database

DelistPackage(place, name) ==
    /\ entries' = entries \ OfName(place, name)
    /\ UNCHANGED dbs

LeaveCommandLock(place) ==
    cmdLocks' \in {cmdLocks, cmdLocks \cup {Database(place)}}

CommandLocked(t) == Database(At(t)) \in cmdLocks

(* A request waiting for a left-over lock file ends when its client does.  *)
Cancel(t, from, to) ==
    Refuse(t, from, to) /\ CommandLocked(t) /\ UNCHANGED budgets

AddEntry(t) ==
    \E x \in pkgs :
        /\ pc[t] = "add"
        /\ SamePath(x, File(t))
        /\ ~CommandLocked(t)
        /\ ListPackage(At(t), x)
        /\ \/ /\ Go(t, "add", "unlock")
              /\ Answer(t, "ok")
              /\ UNCHANGED <<budgets, marks>>
           \/ /\ Go(t, "add", "undo")
              /\ Answer(t, "error")
              /\ torn' = torn \cup {At(t)}
              /\ LeaveCommandLock(At(t))
              /\ Fault
        /\ UNCHANGED <<folders, files, context>>

AddFails(t) ==
    \/ /\ Go(t, "add", "undo")
       /\ Answer(t, "error")
       /\ ~CommandLocked(t)
       /\ LeaveCommandLock(At(t))
       /\ Fault
       /\ UNCHANGED <<folders, files, database, torn, context>>
    \/ Cancel(t, "add", "undo")

(* Rollback: errors of the two os.Remove calls are ignored.                *)
AfterUndo(t) == IF subject[t] \in Signed THEN "undoSig" ELSE "unlock"

(* Mutant: no rollback.                                                    *)
KeepPackage(t) == Proceed(t, "undo", AfterUndo(t))

UndoPackage(t) ==
    /\ Go(t, "undo", AfterUndo(t))
    /\ \/ pkgs' = Unlinked(pkgs, File(t)) /\ UNCHANGED budgets
       \/ UNCHANGED pkgs /\ Fault
    /\ UNCHANGED <<folders, sigs, database, marks, context, reply>>

UndoSignature(t) ==
    /\ Go(t, "undoSig", "unlock")
    /\ \/ sigs' = Unlinked(sigs, File(t)) /\ UNCHANGED budgets
       \/ UNCHANGED sigs /\ Fault
    /\ UNCHANGED <<folders, pkgs, database, marks, context, reply>>

-----------------------------------------------------------------------------
(* Every operation ends with its deferred unlock; a publication then runs  *)
(* the deferred Cleanup of its upload.                                     *)

Forget(t) ==
    /\ job' = [job EXCEPT ![t] = NoJob]
    /\ subject' = [subject EXCEPT ![t] = None]
    /\ temp' = [temp EXCEPT ![t] = None]

Unlock(t) ==
    /\ Lock!Release(t)
    /\ IF job[t].op = "publish"
       THEN /\ Go(t, "unlock", "cleanup")
            /\ UNCHANGED <<request, reply>>
       ELSE /\ Go(t, "unlock", "idle")
            /\ Forget(t)
            /\ Answer(t, "pending")
    /\ UNCHANGED <<disk, staging, budgets>>

Cleanup(t) ==
    /\ Go(t, "cleanup", "idle")
    /\ \/ staging' = staging \ {temp[t]} /\ UNCHANGED budgets
       \/ UNCHANGED staging /\ Fault
    /\ Forget(t)
    /\ Answer(t, "pending")
    /\ UNCHANGED <<disk, held>>

-----------------------------------------------------------------------------
(* Remove.                                                                 *)

BeginRemove(t) ==
    /\ \E place \in Keys, name \in Names :
           Begin(t, "removeLock", [op |-> "remove", repo |-> place.repo,
                                   arch |-> place.arch, name |-> name])
    /\ UNCHANGED <<staging, temp, subject>>

RefuseRequest(t, from) ==
    /\ Go(t, from, "idle")
    /\ Forget(t)
    /\ UNCHANGED <<disk, staging, held, reply>>
    /\ Fault

LockForRemove(t) ==
    \/ /\ Go(t, "removeLock", "find")
       /\ Lock!Acquire(t, {At(t)})
       /\ UNCHANGED <<disk, staging, request, reply, budgets>>
    \/ RefuseRequest(t, "removeLock")

Matches(t) == {u \in Listing(At(t)) : NameOf[u] = job[t].name}

FindPackage(t) ==
    \/ /\ Go(t, "find", "removeEntry")
       /\ \E u \in Matches(t) : subject' = [subject EXCEPT ![t] = u]
       /\ UNCHANGED <<disk, staging, held, job, temp, reply, budgets>>
    \/ Refuse(t, "find", "unlock") /\ Matches(t) = {} /\ UNCHANGED budgets
    \/ Refuse(t, "find", "unlock") /\ Fault

RemoveEntry(t) ==
    /\ pc[t] = "removeEntry"
    /\ ~CommandLocked(t)
    /\ DelistPackage(At(t), job[t].name)
    /\ \/ /\ Go(t, "removeEntry", "removeFile")
          /\ UNCHANGED <<cmdLocks, reply, budgets>>
       \/ /\ Go(t, "removeEntry", "unlock")
          /\ Answer(t, "error")
          /\ LeaveCommandLock(At(t))
          /\ Fault
    /\ UNCHANGED <<folders, files, torn, context>>

RemoveEntryFails(t) ==
    \/ /\ Go(t, "removeEntry", "unlock")
       /\ Answer(t, "error")
       /\ ~CommandLocked(t)
       /\ LeaveCommandLock(At(t))
       /\ Fault
       /\ UNCHANGED <<folders, files, database, torn, context>>
    \/ Cancel(t, "removeEntry", "unlock")

(* A file that is not there is as good as removed.                         *)
RemoveFile(t) ==
    \/ /\ Go(t, "removeFile", "removeSig")
       /\ pkgs' = Unlinked(pkgs, File(t))
       /\ UNCHANGED <<folders, sigs, database, marks, context, reply, budgets>>
    \/ Refuse(t, "removeFile", "unlock") /\ Fault

(* Mutant: only the package file is removed.                               *)
KeepSignature(t) ==
    /\ Go(t, "removeSig", "unlock")
    /\ Answer(t, "ok")
    /\ UNCHANGED <<disk, context, budgets>>

RemoveSignature(t) ==
    \/ /\ Go(t, "removeSig", "unlock")
       /\ Answer(t, "ok")
       /\ sigs' = Unlinked(sigs, File(t))
       /\ UNCHANGED <<folders, pkgs, database, marks, context, budgets>>
    \/ Refuse(t, "removeSig", "unlock") /\ Fault

-----------------------------------------------------------------------------
(* Create, Rename and RemoveRepository.                                    *)

BeginLifecycle(t) ==
    /\ \/ \E r \in Repos : Begin(t, "lifecycleLock", [op |-> "create", repo |-> r])
       \/ \E r \in Repos :
              Begin(t, "lifecycleLock", [op |-> "removeRepository", repo |-> r])
       \/ \E r \in Repos : \E to \in Repos \ {r} :
              Begin(t, "lifecycleLock", [op |-> "rename", repo |-> r, to |-> to])
    /\ UNCHANGED <<staging, temp, subject>>

(* Mutant: lockGlobal(true), which keeps no pair from anybody.             *)
SharedInstead == {}

LifecycleKeys == Keys   \* LOCK_EX on repositories.lock keeps every pair

LockForLifecycle(t) ==
    \/ /\ Go(t, "lifecycleLock", "check")
       /\ Lock!Acquire(t, LifecycleKeys)
       /\ UNCHANGED <<disk, staging, request, reply, budgets>>
    \/ RefuseRequest(t, "lifecycleLock")

(* mkdir(2) both checks and creates.                                       *)
Create(t) ==
    /\ pc[t] = "check" /\ job[t].op = "create"
    /\ \/ /\ job[t].repo \notin dirs
          /\ Go(t, "check", "unlock")
          /\ Answer(t, "ok")
          /\ dirs' = dirs \cup {job[t].repo}
          /\ UNCHANGED <<archDirs, files, database, marks, context, budgets>>
       \/ job[t].repo \in dirs /\ Refuse(t, "check", "unlock") /\ UNCHANGED budgets
       \/ Refuse(t, "check", "unlock") /\ Fault

MayRename(t) == job[t].repo \in dirs /\ job[t].to \notin dirs

CheckRename(t) ==
    /\ pc[t] = "check" /\ job[t].op = "rename"
    /\ \/ Proceed(t, "check", "snapshot") /\ MayRename(t)
       \/ Refuse(t, "check", "unlock") /\ ~MayRename(t) /\ UNCHANGED budgets
       \/ Refuse(t, "check", "unlock") /\ Fault

MakeSnapshot(t) ==
    \/ \E d \in TempNames \ dirs :
           /\ Go(t, "snapshot", "copy")
           /\ dirs' = dirs \cup {d}
           /\ temp' = [temp EXCEPT ![t] = d]
           /\ UNCHANGED <<archDirs, files, database, marks, staging, held, job, subject, reply, budgets>>
    \/ Refuse(t, "snapshot", "unlock") /\ Fault

CopyTree(from, to) ==
    /\ archDirs' = archDirs \cup Copies(archDirs, from, to)
    /\ pkgs' = pkgs \cup Copies(pkgs, from, to)
    /\ sigs' = sigs \cup Copies(sigs, from, to)
    /\ dbs' = dbs \cup Copies(dbs, from, to)
    /\ entries' = entries \cup Copies(entries, from, to)
    /\ cmdLocks' = cmdLocks \cup Copies(cmdLocks, from, to)
    /\ torn' = torn \cup Copies(torn, from, to)

(* How much an interrupted copy leaves in the hidden directory is not told *)
(* apart from nothing: nobody opens it any more.                           *)
CopySnapshot(t) ==
    \/ /\ Go(t, "copy", "relabel")
       /\ CopyTree(job[t].repo, temp[t])
       /\ UNCHANGED <<dirs, context, reply, budgets>>
    \/ Refuse(t, "copy", "discard") /\ Fault

(* The databases of the snapshot that still carry the old name.  What else *)
(* carries it keeps it: a copied lock file, which is one of no database    *)
(* here, and repo-add's <name>.files, which is not modelled.               *)
Unlabelled(t) == {d \in Under(dbs, temp[t]) : d.name = job[t].repo}

Relabelled(S, d, name) ==
    {IF x.repo = d.repo /\ x.arch = d.arch /\ x.name = d.name
     THEN [x EXCEPT !.name = name] ELSE x : x \in S}

(* renameDatabase moves the database before its link, so that a failing    *)
(* one may have moved it.                                                  *)
RelabelDatabase(t) ==
    \/ /\ pc[t] = "relabel"
       /\ \E d \in Unlabelled(t) :
           /\ dbs' = Relabelled(dbs, d, job[t].to)
           /\ entries' = Relabelled(entries, d, job[t].to)
           /\ \/ /\ Go(t, "relabel", "relabel")
                 /\ UNCHANGED <<reply, budgets>>
              \/ /\ Go(t, "relabel", "discard")
                 /\ Answer(t, "error")
                 /\ Fault
           /\ UNCHANGED <<folders, files, marks, context>>
    \/ Refuse(t, "relabel", "discard") /\ Fault

(* Mutant: the snapshot is installed with whatever has been renamed.       *)
NoWait(t) == FALSE

Relabelling(t) == Unlabelled(t) # {}

MoveTree(from, to) ==
    /\ dirs' = (dirs \ {from}) \cup {to}
    /\ archDirs' = Moved(archDirs, from, to)
    /\ pkgs' = Moved(pkgs, from, to)
    /\ sigs' = Moved(sigs, from, to)
    /\ dbs' = Moved(dbs, from, to)
    /\ entries' = Moved(entries, from, to)
    /\ cmdLocks' = Moved(cmdLocks, from, to)
    /\ torn' = Moved(torn, from, to)

(* rename(2) of the finished snapshot to a name that is still free.        *)
InstallSnapshot(t) ==
    \/ /\ Go(t, "relabel", "purge")
       /\ ~Relabelling(t)
       /\ job[t].to \notin dirs
       /\ MoveTree(temp[t], job[t].to)
       /\ UNCHANGED <<context, reply, budgets>>
    \/ Refuse(t, "relabel", "discard") /\ ~Relabelling(t) /\ Fault

(* Mutant: no deferred RemoveAll.                                          *)
SkipDiscard(t) == Proceed(t, "discard", "unlock")

(* The deferred RemoveAll of a snapshot that was not installed; its error  *)
(* is ignored.                                                             *)
DiscardSnapshot(t) ==
    /\ Go(t, "discard", "unlock")
    /\ \/ /\ dirs' = dirs \ {temp[t]}
          /\ archDirs' = Outside(archDirs, temp[t])
          /\ pkgs' = Outside(pkgs, temp[t])
          /\ sigs' = Outside(sigs, temp[t])
          /\ dbs' = Outside(dbs, temp[t])
          /\ entries' = Outside(entries, temp[t])
          /\ cmdLocks' = Outside(cmdLocks, temp[t])
          /\ torn' = Outside(torn, temp[t])
          /\ UNCHANGED budgets
       \/ UNCHANGED disk /\ Fault
    /\ UNCHANGED <<context, reply>>

CheckRepository(t) ==
    /\ pc[t] = "check" /\ job[t].op = "removeRepository"
    /\ \/ Proceed(t, "check", "purge") /\ job[t].repo \in dirs
       \/ Refuse(t, "check", "unlock") /\ job[t].repo \notin dirs /\ UNCHANGED budgets
       \/ Refuse(t, "check", "unlock") /\ Fault

(* os.RemoveAll of a repository directory: files one by one in no order    *)
(* worth relying on, a directory once it is empty.                         *)
PlaceOf(x) == [repo |-> x.repo, arch |-> x.arch]

ListedIn(d) == {e \in In(entries, PlaceOf(d)) : e.name = d.name}

PurgeFile(t) ==
    /\ Go(t, "purge", "purge")
    /\ \/ \E x \in Under(pkgs, job[t].repo) :
              /\ pkgs' = pkgs \ {x}
              /\ torn' = torn \cup {PlaceOf(x)}
              /\ UNCHANGED <<sigs, database, cmdLocks>>
       \/ \E x \in Under(sigs, job[t].repo) :
              /\ sigs' = sigs \ {x}
              /\ torn' = torn \cup {PlaceOf(x)}
              /\ UNCHANGED <<pkgs, database, cmdLocks>>
       \/ \E d \in Under(dbs, job[t].repo) :
              /\ dbs' = dbs \ {d}
              /\ entries' = entries \ ListedIn(d)
              /\ UNCHANGED <<files, marks>>
       \/ \E d \in Under(cmdLocks, job[t].repo) :
              /\ cmdLocks' = cmdLocks \ {d}
              /\ UNCHANGED <<files, database, torn>>
    /\ UNCHANGED <<folders, context, reply, budgets>>

EmptyPlace(place) ==
    In(pkgs, place) \cup In(sigs, place) \cup In(dbs, place)
        \cup In(cmdLocks, place) = {}

PurgeArchitecture(t) ==
    /\ Go(t, "purge", "purge")
    /\ \E place \in Under(archDirs, job[t].repo) :
           /\ EmptyPlace(place)
           /\ archDirs' = archDirs \ {place}
           /\ torn' = torn \ {place}
    /\ UNCHANGED <<dirs, files, database, cmdLocks, context, reply, budgets>>

PurgeRepository(t) ==
    \/ /\ Go(t, "purge", "unlock")
       /\ Under(archDirs, job[t].repo) = {}
       /\ dirs' = dirs \ {job[t].repo}
       /\ Answer(t, "ok")
       /\ UNCHANGED <<archDirs, files, database, marks, context, budgets>>
    \/ Refuse(t, "purge", "unlock") /\ Fault

-----------------------------------------------------------------------------
(* A process dies: it is killed, or SIGTERM lets serve() return while its  *)
(* requests are still running (serve.go:54-64).  What they left on disk    *)
(* stays, their locks do not.  Commands die with it (one container), and   *)
(* may leave their lock file.                                              *)
InCommand(t) == pc[t] \in {"add", "removeEntry"} /\ ~CommandLocked(t)

Crash(process) ==
    LET dead == {t \in Threads : ProcessOf[t] = process}
    IN /\ \E t \in dead : pc[t] # "idle"
       /\ crashes < MaxCrashes
       /\ crashes' = crashes + 1
       /\ \E S \in SUBSET {Database(At(t)) : t \in {u \in dead : InCommand(u)}} :
              cmdLocks' = cmdLocks \cup S
       /\ UNCHANGED torn
       /\ Lock!Drop(dead)
       /\ pc' = [t \in Threads |-> IF t \in dead THEN "idle" ELSE pc[t]]
       /\ job' = [t \in Threads |-> IF t \in dead THEN NoJob ELSE job[t]]
       /\ subject' = [t \in Threads |-> IF t \in dead THEN None ELSE subject[t]]
       /\ temp' = [t \in Threads |-> IF t \in dead THEN None ELSE temp[t]]
       /\ reply' = [t \in Threads |-> IF t \in dead THEN "pending" ELSE reply[t]]
       /\ UNCHANGED <<folders, files, database, staging, requests, faults>>

-----------------------------------------------------------------------------
Init ==
    /\ dirs = {} /\ archDirs = {} /\ pkgs = {} /\ sigs = {}
    /\ dbs = {} /\ entries = {} /\ cmdLocks = {} /\ torn = {}
    /\ staging = {}
    /\ Lock!LockInit
    /\ pc = [t \in Threads |-> "idle"]
    /\ job = [t \in Threads |-> NoJob]
    /\ subject = [t \in Threads |-> None]
    /\ temp = [t \in Threads |-> None]
    /\ reply = [t \in Threads |-> "pending"]
    /\ requests = 0 /\ faults = 0 /\ crashes = 0

PublishStep(t) ==
    \/ ReceiveUpload(t) \/ LockForPublish(t) \/ Inspect(t) \/ MakeDirectory(t)
    \/ StatDestination(t) \/ InstallPackage(t) \/ InstallSignature(t)
    \/ AddEntry(t) \/ AddFails(t) \/ UndoPackage(t) \/ UndoSignature(t)
    \/ Cleanup(t)

RemoveStep(t) ==
    \/ LockForRemove(t) \/ FindPackage(t) \/ RemoveEntry(t)
    \/ RemoveEntryFails(t) \/ RemoveFile(t) \/ RemoveSignature(t)

LifecycleStep(t) ==
    \/ LockForLifecycle(t) \/ Create(t) \/ CheckRename(t) \/ MakeSnapshot(t)
    \/ CopySnapshot(t) \/ RelabelDatabase(t) \/ InstallSnapshot(t)
    \/ DiscardSnapshot(t) \/ CheckRepository(t) \/ PurgeFile(t)
    \/ PurgeArchitecture(t) \/ PurgeRepository(t)

Begins(t) == BeginUpload(t) \/ BeginRemove(t) \/ BeginLifecycle(t)

Step(t) == PublishStep(t) \/ RemoveStep(t) \/ LifecycleStep(t) \/ Unlock(t)

(* The bound on requests is reached and every one has been answered.       *)
Rest ==
    /\ requests = MaxRequests
    /\ \A t \in Threads : pc[t] = "idle"
    /\ UNCHANGED vars

Next ==
    \/ \E t \in Threads : Begins(t) \/ Step(t)
    \/ \E process \in Processes : Crash(process)
    \/ Rest

Spec == Init /\ [][Next]_vars

(* A handler goes on as soon as it can.  Nobody promises that a client     *)
(* gives up waiting for a command lock that was left behind.               *)
WaitsForCommandLock(t) == pc[t] \in {"add", "removeEntry"} /\ CommandLocked(t)

Proceeds(t) == ~WaitsForCommandLock(t) /\ Step(t)

FairSpec == Spec /\ \A t \in Threads : WF_vars(Proceeds(t))

-----------------------------------------------------------------------------
(* Properties.                                                             *)

Undisturbed == faults = 0 /\ crashes = 0

FileOfEntry(e) == [repo |-> e.repo, arch |-> e.arch, up |-> e.up]

(* Whatever a database lists can be downloaded, and is the very file the   *)
(* entry was made from: pacman never gets a 404 or a wrong checksum.       *)
(* Publish installs before it lists, Remove delists before it removes, and *)
(* a snapshot is copied whole (service.go:176-193, 221-234, 303-318).  Torn *)
(* directories are those where repo-add failed after it had replaced the   *)
(* database, and those of an unfinished RemoveAll.                         *)
DatabaseBacked ==
    \A e \in entries : PlaceOf(e) \notin torn => FileOfEntry(e) \in pkgs

(* A package file that is on disk keeps its content until it is removed:   *)
(* no step replaces it by another package of the same file name, although  *)
(* the test for it and the rename are two calls (service.go:171-178).      *)
NeverOverwritten ==
    [][\A x \in pkgs \ pkgs' : \A y \in pkgs' : ~SamePath(x, y)]_vars

(* As long as nothing fails, a listed package has the signature it was     *)
(* uploaded with, and one uploaded without has none: no signature of an    *)
(* earlier package of that file name is served with it (service.go:180-186 *)
(* and 229-234).                                                           *)
SignaturesFaithful ==
    Undisturbed =>
        \A e \in entries : PlaceOf(e) \notin torn =>
            {s.up : s \in {x \in sigs : SamePath(x, FileOfEntry(e))}}
                = {e.up} \cap Signed

(* Rename removes the old repository only while everything that is left of *)
(* it is also under the new name, with its database entries: whenever the  *)
(* process dies, no published package is lost (service.go:303-321).        *)
RenameLosesNothing ==
    \A t \in Threads :
        pc[t] = "purge" /\ job[t].op = "rename" =>
            /\ Copies(pkgs, job[t].repo, job[t].to) \subseteq pkgs
            /\ Copies(sigs, job[t].repo, job[t].to) \subseteq sigs
            /\ \A e \in Under(entries, job[t].repo) :
                   [e EXCEPT !.repo = job[t].to, !.name = job[t].to] \in entries

(* Every package database in a repository carries the repository's name,   *)
(* or alpm.ReadDatabase, pacman -S and repositoryArchitectures would not   *)
(* find it: a snapshot is installed with every <old>.db.tar.gz renamed     *)
(* (service.go:307-318, 502-532).                                          *)
DatabaseNamed == \A d \in dbs : d.repo \in Repos => d.name = d.repo

Gone(r) ==
    /\ r \notin dirs
    /\ UNION {Under(archDirs, r), Under(pkgs, r), Under(sigs, r),
              Under(dbs, r), Under(entries, r), Under(cmdLocks, r)} = {}

(* A success that is about to be reported is still true: the published     *)
(* package is listed and there, the removed one is neither and left no     *)
(* signature, the created repository exists, the removed or renamed one is *)
(* gone with everything in it (the returns of service.go:196, 235, 322,    *)
(* 341 and 367, before the deferred unlock).                               *)
RepliesTruthful ==
    \A t \in Threads :
        pc[t] = "unlock" /\ reply[t] = "ok" =>
            CASE job[t].op = "publish" ->
                     subject[t] \in Listing(At(t)) /\ File(t) \in pkgs
              [] job[t].op = "remove" ->
                     /\ Matches(t) = {}
                     /\ \A x \in pkgs \cup sigs : ~SamePath(x, File(t))
              [] job[t].op = "create" -> job[t].repo \in dirs
              [] job[t].op = "rename" -> Gone(job[t].repo) /\ job[t].to \in dirs
              [] job[t].op = "removeRepository" -> Gone(job[t].repo)

(* The upload directories and the hidden snapshots that no handler is      *)
(* going to remove any more.                                               *)
Abandoned ==
    ({"staging"} \X
        {d \in staging : ~\E t \in Threads : temp[t] = d /\ job[t].op = "publish"})
    \cup
    ({"repositories"} \X
        {d \in dirs \cap TempNames :
            ~\E t \in Threads : temp[t] = d /\ pc[t] \in {"copy", "relabel", "discard"}})

RemovalFailed ==
    /\ faults' # faults
    /\ \E t \in Threads : pc[t] \in {"cleanup", "discard"} /\ pc'[t] # pc[t]

(* No temporary directory is left behind but by a process that dies or by  *)
(* a failure of the very call that removes it: whichever call of a handler *)
(* fails, and wherever it returns, its Cleanup runs, and the deferred      *)
(* RemoveAll of a snapshot that was not installed (service.go:78, 150,     *)
(* 302).                                                                   *)
TemporariesReclaimed ==
    [][crashes' = crashes /\ ~RemovalFailed => Abandoned' \subseteq Abandoned]_vars

(* Package files that no database lists and no request is working on.      *)
Unlisted ==
    {x \in pkgs :
        /\ x.repo \in Repos
        /\ x.up \notin Listing(PlaceOf(x))
        /\ \A t \in Threads :
               /\ pc[t] \in {"sign", "add", "undo", "removeFile"} => File(t) # x
               /\ pc[t] = "purge" => job[t].repo # x.repo}

CommandFailed ==
    \E t \in Threads : pc[t] = "add" /\ pc'[t] = "undo"

(* A package file drops out of sight only when a newer version supersedes  *)
(* it, when a crash or a failing system call cuts an operation short, or   *)
(* as the copy of one that already had.  In particular a repo-add that     *)
(* fails leaves none: the rollback removes it (service.go:188-193).        *)
UnlistedOnlyIf ==
    [][crashes' = crashes /\ (faults' = faults \/ CommandFailed) =>
           \A x \in Unlisted' \ Unlisted :
               \/ \E u \in Listing(PlaceOf(x))' : NameOf[u] = NameOf[x.up]
               \/ \E y \in Unlisted : y.arch = x.arch /\ y.up = x.up /\ y.repo # x.repo]_vars

catalog == [k \in Keys |-> Listing(k)]

Depot == INSTANCE Catalog WITH catalog <- catalog

(* Whatever is interleaved, fails or dies, a reader sees the catalog       *)
(* change by whole publications and removals, a repository appear under a  *)
(* new name complete, and databases disappear whole (List at any moment,   *)
(* service.go:238-243).                                                    *)
ImplementsCatalog == Depot!CatalogSpec

(* Every request is answered, unless some command left its lock file       *)
(* behind, for which the next one on that database waits for ever          *)
(* (pacman.go:24 and 28, --wait-for-lock).                                 *)
EveryRequestReturns ==
    \A t \in Threads : pc[t] # "idle" ~> pc[t] = "idle" \/ cmdLocks # {}

(* What README.md:191-193 says: "package remove deletes the package, its   *)
(* detached signature, and its database entry".  After it, no archive of   *)
(* that package is left in the repository (service.go:225-235).            *)
RemoveDeletesPackage ==
    \A t \in Threads :
        pc[t] = "unlock" /\ reply[t] = "ok" /\ job[t].op = "remove" =>
            \A x \in In(pkgs, At(t)) : NameOf[x.up] # job[t].name
=============================================================================
