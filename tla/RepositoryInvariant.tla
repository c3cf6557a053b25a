------------------------ MODULE RepositoryInvariant ------------------------
(***************************************************************************)
(* What holds between any two system calls of repository.Service: the      *)
(* inductive invariant behind RepositoryService's properties.  None of its *)
(* parts is preserved alone.  An entry keeps its file only because nobody  *)
(* else writes to the pair (LocksHeld, exclusion), because a thread about  *)
(* to unlink a path knows that no entry refers to it (PathClaimed), and    *)
(* because paths are unique (PathsUnique) in a well-formed tree            *)
(* (TreeShape).                                                            *)
(***************************************************************************)
EXTENDS RepositoryService

PairWriters == (PublishCalls \ {"receive", "publishLock", "cleanup"})
                   \cup (RemoveCalls \ {"removeLock"})
LifecycleWriters == LifecycleCalls \ {"lifecycleLock"}

(* The request a thread serves is one its current call can belong to.      *)
JobsFit ==
    \A t \in Threads :
        /\ pc[t] \in PublishCalls =>
               /\ job[t] \in PublishJobs
               /\ subject[t] \in Packages
               /\ temp[t] \in TempNames
        /\ pc[t] \in RemoveCalls => job[t] \in RemoveJobs
        /\ pc[t] \in {"removeEntry", "removeFile", "removeSig"} =>
               subject[t] \in Packages
        /\ pc[t] \in LifecycleCalls => job[t] \in LifecycleJobs
        /\ pc[t] \in {"snapshot", "copy", "relabel", "discard"} =>
               job[t] \in RenameJobs
        /\ pc[t] \in {"copy", "relabel", "discard"} => temp[t] \in TempNames
        /\ pc[t] = "unlock" =>
               /\ job[t] \in PublishJobs \cup RemoveJobs \cup LifecycleJobs
               /\ job[t].op = "publish" =>
                      subject[t] \in Packages /\ temp[t] \in TempNames

(* A thread at a call that reads or writes the repositories owns the pair  *)
(* it works on, or all of them.                                            *)
LocksHeld ==
    \A t \in Threads :
        /\ pc[t] \in PairWriters => held[t] = {At(t)}
        /\ pc[t] \in LifecycleWriters => held[t] = Keys

ControlInv == TypeOK /\ JobsFit /\ LocksHeld /\ Lock!MutualExclusion

-----------------------------------------------------------------------------
(* Every file is in an architecture directory of an existing directory,    *)
(* and every entry in an existing database.                                *)
TreeShape ==
    /\ \A place \in archDirs : place.repo \in dirs
    /\ \A x \in pkgs : PlaceOf(x) \in archDirs
    /\ \A d \in dbs : PlaceOf(d) \in archDirs
    /\ \A e \in entries :
           [repo |-> e.repo, arch |-> e.arch, name |-> e.name] \in dbs

PathsUnique == \A x, y \in pkgs : SamePath(x, y) => x = y

(* The directory a publication works in stays until it is done.            *)
DirectoryMade(t) ==
    pc[t] \in {"stat", "install", "sign", "add"} => At(t) \in archDirs

(* A thread that may unlink or replace the file at a path knows that no    *)
(* database refers to that path.                                           *)
PathClaimed(t) ==
    pc[t] \in {"install", "sign", "add", "undo", "removeFile"} =>
        \/ At(t) \in torn
        \/ \A e \in entries : ~SamePath(FileOfEntry(e), File(t))

(* What Remove found is still listed when it calls repo-remove.            *)
FoundIsListed(t) == pc[t] = "removeEntry" => subject[t] \in Matches(t)

(* A snapshot starts empty, and the databases copied into it have the old  *)
(* name or the new one.                                                    *)
SnapshotFresh(t) ==
    /\ pc[t] = "copy" => Under(archDirs, temp[t]) = {}
    /\ pc[t] \in {"copy", "relabel"} => temp[t] \in dirs
    /\ pc[t] = "relabel" =>
           \A d \in Under(dbs, temp[t]) : d.name \in {job[t].repo, job[t].to}

ThreadInv(t) ==
    DirectoryMade(t) /\ PathClaimed(t) /\ FoundIsListed(t) /\ SnapshotFresh(t)

DiskInv ==
    /\ TreeShape
    /\ PathsUnique
    /\ DatabaseNamed
    /\ DatabaseBacked
    /\ \A t \in Threads : ThreadInv(t)

ServiceInv == ControlInv /\ DiskInv

(* What Stat found missing is still missing when Rename replaces it.       *)
DestinationFree ==
    \A t \in Threads : pc[t] = "install" => ~FileExists(t)

-----------------------------------------------------------------------------
(* What the outcomes of the requests depend on, beyond ServiceInv: what a  *)
(* handler has established when it gets to a call, up to its answer.       *)

(* A thread that keeps a pair, or every pair, from the others: it is at a  *)
(* call that works there, or has its deferred unlock still to run.         *)
OnPair(t) ==
    pc[t] \in PairWriters \/ (pc[t] = "unlock" /\ job[t].op \in {"publish", "remove"})
OnTree(t) ==
    pc[t] \in LifecycleWriters \/ (pc[t] = "unlock" /\ job[t] \in LifecycleJobs)

HandlerFits(t) ==
    /\ pc[t] = "idle" => job[t] = NoJob
    /\ pc[t] \in {"idle", "lifecycleLock", "check", "snapshot"} => temp[t] = None
    /\ job[t] \in RenameJobs => job[t].repo # job[t].to
    /\ pc[t] = "purge" => job[t] \in RenameJobs \cup DeleteJobs
    /\ pc[t] \in {"mkdir", "stat", "install", "sign", "add"} => Fits(t)
    /\ pc[t] = "sign" => subject[t] \in Signed
    /\ pc[t] = "unlock" => held[t] = IF OnPair(t) THEN {At(t)} ELSE Keys
    /\ reply[t] = "ok" => pc[t] \in {"unlock", "cleanup"}

HandlerInv == \A t \in Threads : HandlerFits(t)

(* Signatures and command locks are in existing directories, too.          *)
SideFiles ==
    /\ \A s \in sigs : PlaceOf(s) \in archDirs
    /\ \A l \in cmdLocks : PlaceOf(l) \in archDirs

(* A database lists one archive of each package name: repo-add replaces    *)
(* the entry of the version before (service.go:188).                       *)
OneVersionListed ==
    \A e, f \in entries :
        PlaceOf(e) = PlaceOf(f) /\ NameOf[e.up] = NameOf[f.up] => e.up = f.up

(* The file repo-add reads is the one the request installed.               *)
Installed(t) == pc[t] \in {"sign", "add"} => File(t) \in pkgs

(* What Remove has taken off the list, and then off the disk, stays off.   *)
Delisted(t) ==
    /\ pc[t] \in {"removeFile", "removeSig"} => Matches(t) = {}
    /\ pc[t] = "removeSig" => \A x \in pkgs : ~SamePath(x, File(t))

(* The counterparts of a file and of an entry in another repository.       *)
FileIn(r, x) == [repo |-> r, arch |-> x.arch, up |-> x.up]
EntryIn(r, e) == [repo |-> r, arch |-> e.arch, name |-> r, up |-> e.up]

(* A finished copy holds what the repository holds, under any name its     *)
(* databases have so far.                                                  *)
SnapshotTrue(t) ==
    pc[t] = "relabel" =>
        /\ Copies(pkgs, job[t].repo, temp[t]) \subseteq pkgs
        /\ Copies(sigs, job[t].repo, temp[t]) \subseteq sigs
        /\ \A x \in Under(pkgs, temp[t]) : FileIn(job[t].repo, x) \in pkgs
        /\ \A e \in Under(entries, temp[t]) : EntryIn(job[t].repo, e) \in entries
        /\ \A e \in Under(entries, job[t].repo) :
               \E f \in Under(entries, temp[t]) : f.arch = e.arch /\ f.up = e.up

(* The old repository of a rename goes when the new one is complete.       *)
NothingLost(t) ==
    pc[t] = "purge" /\ job[t].op = "rename" =>
        /\ Copies(pkgs, job[t].repo, job[t].to) \subseteq pkgs
        /\ Copies(sigs, job[t].repo, job[t].to) \subseteq sigs
        /\ \A e \in Under(entries, job[t].repo) : EntryIn(job[t].to, e) \in entries
        /\ job[t].to \in dirs /\ temp[t] \notin dirs

Truthful(t) ==
    pc[t] = "unlock" /\ reply[t] = "ok" =>
        CASE job[t].op = "publish" ->
                 subject[t] \in Listing(At(t)) /\ File(t) \in pkgs
          [] job[t].op = "remove" ->
                 /\ Matches(t) = {}
                 /\ \A x \in pkgs \cup sigs : ~SamePath(x, File(t))
          [] job[t].op = "create" -> job[t].repo \in dirs
          [] job[t].op = "rename" -> Gone(job[t].repo) /\ job[t].to \in dirs
          [] job[t].op = "removeRepository" -> Gone(job[t].repo)

OutcomeOf(t) ==
    Installed(t) /\ Delisted(t) /\ SnapshotTrue(t) /\ NothingLost(t) /\ Truthful(t)

(* While nothing has failed, nobody is rolling anything back, and a        *)
(* signature comes and goes with its package but for the call in between.  *)
Untroubled ==
    /\ cmdLocks = {}
    /\ \A t \in Threads : pc[t] \notin {"undo", "undoSig", "discard"}

SignatureBacked(s) ==
    PlaceOf(s) \notin torn =>
        /\ s.up \in Signed
        /\ s \in pkgs \/ \E t \in Threads : pc[t] = "removeSig" /\ SamePath(s, File(t))

PackageSigned(x) ==
    PlaceOf(x) \notin torn /\ x.up \in Signed =>
        x \in sigs \/ \E t \in Threads : pc[t] = "sign" /\ File(t) = x

SignaturesPaired ==
    (\A s \in sigs : SignatureBacked(s)) /\ (\A x \in pkgs : PackageSigned(x))

Quiet == Untroubled /\ SignaturesPaired

OutcomeInv ==
    /\ HandlerInv
    /\ SideFiles
    /\ OneVersionListed
    /\ \A t \in Threads : OutcomeOf(t)
    /\ Undisturbed => Quiet
=============================================================================
