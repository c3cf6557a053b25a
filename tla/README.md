# A TLA+ model of pkgdepot

pkgdepot is a package repository server for Arch Linux: clients publish,
list, remove and rename packages and repositories over HTTP, pacman downloads
from the same server. Its state is a directory tree, its transactions are
system calls and the commands `repo-add` and `repo-remove`, and several server
processes may share one data root. This directory models that behaviour in
TLA+, checks it with TLC on small instances, and proves the most important
safety properties for every instance with TLAPS. The queries that read the tree
without locks, an upload from the client's files to the handler that verifies
its token, and the client's delegated login, with its tokens and its loopback
server, are modelled as well.

Paths below are relative to the repository; `service.go` is
`internal/repository/service.go`.

## The system

| Component | State | Operations | Interacts with |
|---|---|---|---|
| locks (`service.go:580-641`) | `repositories.lock`, one lock file per pair, `mutationRWMutex`, `mutexes` | `lock`, `lockLifecycle`, the unlock functions | every mutation, other processes through flock |
| mutations (`service.go:73-368`) | the tree under `repositories/`, `staging/` | `Publish`, `Remove`, `Create`, `Rename`, `RemoveRepository` | locks, pacman commands, the HTTP handlers |
| pacman commands (`internal/command`) | the database files and their `.lck` files | `Add`, `Remove` | run by the mutations, killed with their request |
| queries (`service.go:238-258, 370-459, 562-578`) | none | `List`, `ListPage`, `ListRepository`, `Repositories`, `HasSignature` | read the tree without any lock |
| HTTP server (`internal/httpapi`) | none | routes, `authenticate`, the multipart upload | mutations, queries, token validation |
| token validation (`internal/auth`) | `expiringKeySet`: key set and its age | `Verify`, `VerifySignature` | HTTP server |
| client (`internal/httpclient`) | token sources, discovered endpoints | `Publish`, `List`, `Login`, `Logout`, token refresh | HTTP server, authorization server, keyring |
| token cache (`internal/oauthcache`) | records in the keyring | `Get`, `Put`, `Delete` | client, other client processes |
| parsing and policy (`internal/alpm`, `cimd`, `config`, `urlpolicy`), pages, command line, scripts | none | | |

What is hard in it, and what each part has to keep:

* **Locks.** Four locks of two kinds (flock, which all processes see; mutexes,
  which one process sees) are taken in sequence, any step can fail. No pair of
  repository and architecture may have two owners, no failure may leave a lock
  taken, nothing may deadlock.
* **Mutations.** Each is a sequence of calls that can fail or be cut short, and
  different operations work on overlapping paths. Whatever a database lists
  must be on disk with the content the entry was made from; files are never
  overwritten; a rename never loses a package; what an operation reports as
  done is done; readers, who take no lock, see whole operations.
* **Commands.** A killed command may leave a lock file for which the next one
  waits for ever.
* **Shutdown.** `serve` returns without waiting for `Shutdown`
  (`serve.go:54-64`), so requests may end between any two calls.
* **Queries.** They take no locks and make many calls; the tree changes in
  between. What is there all the time must be listed, links must fit what they
  were made for, and pages of a changing database, concatenated by the client,
  may be wrong only about what changed.
* **Uploads.** A goroutine, the transport, the handler and the files can stop in
  any order. Nothing incomplete may be published, both goroutines of `Publish`
  must end, and it must report what happened at the server.
* **Tokens.** Goroutines and processes share cached tokens; refresh tokens are
  rotated, so that whoever presents an old one loses the login. A cached token
  must be usable by the client it is cached for, for the scopes cached with
  it, and be gone after a logout.
* **Authorizations.** One caller asks the user while others wait; callback,
  timeout, cancellation and a left-over browser page race. Nobody is asked
  twice, no code ends up in the wrong transaction, everybody returns.
* **Keys.** Verifications share an expiring key set and go on using it after it
  was replaced; a key the provider withdrew may be trusted for less than its
  lifetime only.

`PROJECT.json` lists these hazards line by line, with the properties that
would catch them.

## Modules

| Module | Models |
|---|---|
| `LifecycleLock` | the promise of the locks: a thread acquires one pair or all of them, never shared |
| `FileLocks` | the locking code, one action per flock, mutex or open, several processes, failures, crashes |
| `FileLocksProofs` | its invariant and its refinement of `LifecycleLock`, proved |
| `MCFileLocks` | its instance for TLC |
| `Catalog` | what readers see and the only ways it may change |
| `RepositoryService` | the mutations, call by call, on the tree |
| `RepositoryInvariant` | the inductive invariant of `RepositoryService` |
| `RepositoryInvariantProofs` | its control half (types, requests, locks) and its disk half (databases backed, package files never overwritten), proved |
| `RepositoryOutcomeProofs` | what requests come to, proved: replies, renames, signatures, temporary directories |
| `RepositoryCatalogProofs` | the refinement of `Catalog`, step by step, and that nothing drops out of sight |
| `MCRepositoryService` | the instances for TLC |
| `Queries` | the read side: repositories, the package page and a download, the client's walk, on top of `RepositoryService` |
| `QueriesProofs` | that queries change nothing, their invariant and safety properties, proved |
| `MCQueries` | its instance for TLC |
| `KeySet` | the server's cache of the provider's signing keys |
| `Upload` | one upload: the client's two goroutines, the transport, authentication with `KeySet`, the multipart handler |
| `UploadProofs` | bounded trust in withdrawn keys, the invariant of an upload, its use of `KeySet` and its safety properties, proved |
| `MCUpload` | its instance for TLC |
| `TokenCache` | the client's tokens: login, logout, refresh, several processes on one keyring |
| `TokenCacheProofs` | its invariant and safety properties, proved |
| `MCTokenCache` | its instances for TLC |
| `AuthorizationCode` | the interactive authorization: single flight and loopback server |
| `AuthorizationProofs` | its invariant and safety properties, proved |
| `MCAuthorizationCode` | its instance for TLC |

`RepositoryService` uses the locks through `LifecycleLock`, whose operators
`Acquire`, `Release` and `Drop` it calls; that the real locks are those is
`FileLocks!ImplementsLock`. `Queries` extends it by a reader that any of its
steps may interrupt; `Upload` extends `KeySet` by the request that verifies a
token, and stops where `RepositoryService` goes on (`PublishUpload`). `RepositoryService` implements `Catalog` under the mapping
`catalog`, the listing a reader gets for every pair.

### FileLocks

A thread is a request, `ProcessOf` its process. `pc` names the next call of
`lock` or `lockGlobal`; the sets `sharedFlock`, `lifecycleFlock`, `readLocked`,
`writeLocked`, `pairMutex`, `pairFlock` are the owners of the locks. flock
conflicts across processes, mutexes inside one (`Peers`). `LockFileOf` is not
injective: the file name is `repository-architecture.lock`, so that two pairs
can share one (`service.go:590`); that only locks more. A writer waiting in
`RWMutex.Lock` holds new readers back, as Go's does. `held` is the refinement
mapping: a thread owns what it asked for from the return of `lock` to the call
of the unlock function.

### RepositoryService

The tree is `dirs`, `archDirs`, `pkgs`, `sigs`, `dbs`, `entries` and
`cmdLocks`. A file is a record of directory, architecture and the archive it
holds; `FileOf` and `SamePath` say which archives share a path, so that
"overwritten" means that one archive takes the path of another. A database has
the repository name in its own name (`databasePath`), which is what `Rename`
has to change. `NameOf` is the package name of an archive: `repo-add` replaces
the entry of that name (`OfName`), and leaves the archive of the superseded
version where it is.

A thread is a request with a program counter; each action is one system call
or command with what the code does on its success and on its failure. Every
call may fail while `faults < MaxFaults`. The actions of an operation:

* `Publish`: `BeginUpload`, `ReceiveUpload`, `LockForPublish`, `Inspect`,
  `MakeDirectory`, `StatDestination`, `InstallPackage`, `InstallSignature`,
  `AddEntry` or `AddFails`, on failure `UndoPackage` and `UndoSignature`, then
  `Unlock` and `Cleanup` (the deferred calls, in their order).
* `Remove`: `BeginRemove`, `LockForRemove`, `FindPackage`, `RemoveEntry` or
  `RemoveEntryFails`, `RemoveFile`, `RemoveSignature`, `Unlock`.
* `Create`, `Rename`, `RemoveRepository`: `BeginLifecycle`, `LockForLifecycle`,
  then `Create`; or `CheckRename`, `MakeSnapshot`, `CopySnapshot`,
  `RelabelDatabase` once per architecture, `InstallSnapshot` or
  `DiscardSnapshot`; or `CheckRepository`; the recursive removal is `PurgeFile`,
  `PurgeArchitecture`, `PurgeRepository`, file by file in any order.
* `Crash` ends all requests of a process where they are. The disk stays, the
  locks go.

What is assumed about what is not in the repository, and what is abstracted:

* `repo-add` and `repo-remove` replace the database by one rename. A failing
  one may have done so before (`AddEntry` with "undo") or not; either may leave
  its lock file, `<database>.lck`. A repository that is renamed takes a
  left-over lock file along under the old name, where no command waits for it.
  Commands die with their server: the image runs one process tree
  (`Dockerfile`, `ENTRYPOINT`). `README.md:57-58` also documents a server
  outside a container, where `repo-add` may outlive a killed server and write a
  database that nobody has locked; that is not modelled.
* Package inspection is the constant relation `Accepted`, fixed per archive.
* `torn` is an auxiliary variable: directories in which `repo-add` failed after
  having replaced the database (the rollback then removes a listed file), and
  those a recursive removal has started on. `DatabaseBacked` says nothing about
  them. The code does leave a dangling entry in the first case.
* How much an interrupted copy leaves in a hidden snapshot directory is not
  distinguished from nothing. The link `<name>.db` is part of the database
  `<name>.db.tar.gz`, and both are renamed together. The `.files` databases that
  `repo-add` keeps beside them are not modelled: no code reads them, and
  `renameDatabase` (`service.go:502-532`) leaves them their old name, so that a
  renamed repository has no file list (`pacman -F`) until a package is added
  again. The check that a file name does not escape the
  directory (`service.go:226`) always succeeds: names come from validated
  uploads. Symbolic links and foreign files under the root are left out.

### Queries

One query, started at any moment, beside the requests of `RepositoryService`.
`call` is the next system call of its handler (or, for the walk, the next
request of the client). `Repositories` is `ReadRoot`, `ReadRepository` for one
name after the other, `Lstat` for each architecture, `ReportRepository` (with
the second `ReadDir` of a directory without a database, `ReadContents`) and
`ReturnRepositories`. The package page is the same scan of one repository, then
`ListArchitecture` per database, `LinkSignature` per package (`HasSignature`),
`ReturnPage`, and perhaps a `Download` of one of its rows. The walk is `Fetch`
until a page is not full; its pages are cut out of the sorted names
(`Position`, `Page`). Reading a database is one step: it is replaced by a
rename, so an open file is one whole version. Any call may fail (`QueryFails`).

The answers are not of one moment, so the properties compare them with the time
the query took: `lasting` is what was there in all of its states, `came` and
`went` say whether something appeared or disappeared (`Observe`). `ListPage`'s
handler with another limit, `List` of one database and the details page are
cases of these steps.

### KeySet

A key set is identified by the time it was made. `TakeKeySet` is the critical
section of `VerifySignature`: it replaces the set when it is as old as the
lifetime and takes the pointer. What follows is go-oidc's `RemoteKeySet`, which
is external: `LookUp` in the keys it has, `FetchOrJoin`, `ProviderAnswers` when
the provider makes up its answer and `FetchDone` when it arrives, for all who
wait, `FetchFails`, `GiveUp`. `withdrawn` is when the provider had a key last.
`BoundedTrust` is the comment of the code, with the exact number: accepted at a
verification that began at `t`, offered at `t - Lifetime + 1` or later. It is
about when the verification began: one that waits long for its fetch accepts
what the fetch brings.

### Upload

A body is a sequence of pieces: part headers, data, the final boundary.
`written` pieces have gone through the pipe, `received` of them were read by
the handler; the network holds `Buffer` pieces, and a `Write` returns when the
transport has taken the piece, as `io.Pipe` has it. The client's goroutine is
`FileFails`, `WriteFails`, `WritesAll` and `FinishWriting`; `Publish` is
`AuthorizeFails` (which returns without waiting for it), `StartRequest`,
`GetAnswer`, `ReturnOutcome`. The transport (external) may close the request
body as soon as it has an answer (`CloseBody`), which is how the goroutine of a
refused upload meets `io.ErrClosedPipe`. `Disconnect` breaks the connection
anywhere, also while the answer is on its way.

The server authenticates (`RejectToken`, `VerifyToken`, `Authorize`), then
reads parts (`BeginPart`, `CopyPiece`, `EndPart`, `RejectPart`, `EndParts`) as
far as `MaxBytesReader` lets it; `BreakOff` and `StagingFails` are its errors.
What the library does is modelled as it is: a part is complete when the next
boundary was read; a body that ends cleanly between two parts ends the loop
like the final boundary, because `NextPart` wraps `io.EOF`. `TellsTheTruth`,
`PublishesComplete` and the others relate the two sides. Steps of `KeySet` by
others happen only until the token is verified: nothing of this request reads
its state afterwards.

### TokenCache

A thread is a goroutine that runs commands (requests, `Login`, `Logout`) of
its process. `keyring` is the store of `internal/oauthcache`, a record per
client ID (the rest of the cache key is the same for all), `sources` the map
`tokenSources`, `discovery` the `sync.Once`, `clientLock` is `mu`, and
`keyLock` the per-key mutex of `cachedTokenLocks` or, for an interactive
source, the mutex of its `ReuseTokenSource`. One process runs requests
concurrently, but `Login` and `Logout` alone, as the commands do.

* `FindSource`, `ReadOwn`, `ReadAdmin`: `tokenSource` under `mu`, with the
  fallback of the publisher to the admin's record.
* `Lock`, `ReadRecord`, `Refresh` or `RefreshFails`, `Authorize`, `Save`:
  `cachedTokenSource.Token`.
* `Lock`, `UseInner`, `Refresh` or `Authorize`, `Save`:
  `persistingTokenSource.Token` under its `ReuseTokenSource`.
* `Discover`, `Authorize`, `Save` is `Login`; `Discover`, `Delete` once per
  client ID is `Logout`. Every call of these that can fail has its `...Fails`.
* `Exit` ends a process, perhaps in the middle of a command.

A token is a number with its refresh token, the grant it stems from, the
client it was issued to and the scopes it allows. Outside of the repository:
the server accepts a refresh token from the client it was issued to, and
either keeps it or replaces it; a call whose answer is lost may have been
carried out. Expiry has two stages (`ending`, `expired`), because the code
wants 30 seconds while `oauth2` refreshes only in the last 10: in between, an
old token is stored again unchanged. `StatesScope` says whether token
responses repeat the scope; a token read from the keyring has lost that answer
(`token.Extra`). Every scope asked for is advertised.

`unguarded` is an auxiliary variable: the client IDs whose record has been used
by two sources that no lock keeps apart. `cachedTokenLocks` is per process, so
sources of two processes are such a pair; and a `persistingTokenSource` saves
under the mutex of its own `ReuseTokenSource` (`client.go:749-758`), so a cached
and an interactive source in one process are another, which exist together when a
logout comes between: one source was made for a record that was there, the other
when it was gone. The two then replace each other's refresh token. TLC finds
that with four commands; `token_threads` has three, but the theorems below are
about any number, and `NoStaleRefresh` and `RecordUsable` except these records,
and only these.

`misfiled` is the other one: the grants whose tokens were stored for another
client ID than the one they were authorized for, which happens when a
publication finds no login at all (the finding `token_client`). The server takes
a refresh token from its own client only, and only the last one (`Accepts`), so
`RecordUsable` asks for both: a record's token is its client's, or its grant is
in `misfiled`; and, while nothing fails and the record is not in `unguarded`, its
refresh token is live or its renewal is under way. After a refresh that failed
or could not be stored, the code does keep a dead token.

### AuthorizationCode

`source` is an `authorizationCodeTokenSource`, `transaction` the state of
`runAuthorizationCode`. The mutex `mu` is kept during a refresh (`Enter`,
`RefreshToken`) and free while the user is asked (`Join` to `Publish`). An
authorization is a number, which is also its state parameter; `Callback(n, m)`
is a page that was reached from the link of `m` and reports to the server of
`n`. `outcome`, `done` and `flight` are the `authorizationResult`s, the closed
channels, and the one a caller joined. In the commands a `ReuseTokenSource`
lets in one caller at a time; the type itself is written for concurrent ones
and tested so (`authorization_test.go`), and that is what is modelled.

The comment at `service.go:260-261` and `README.md:193-194` allow mutations
during a rename's copy. The code excludes them (`lockLifecycle` is exclusive),
and that is what is modelled.

## What the runs check

| Run | Instance | Shows |
|---|---|---|
| `file_locks` | 3 threads in 2 processes, 3 pairs, 2 lock files, 4 lock calls, any failures and crashes | exclusion, no leaks, the RWMutex never waits, refinement of `LifecycleLock`, every call returns |
| `service_faults` | 2 requests at a time in 2 processes, 2 repositories, 1 architecture, 3 archives, 3 requests, 1 failure, 1 crash | databases backed, nothing overwritten, signatures fit, temporaries go whatever call fails but their removal, renames lose nothing, replies truthful, nothing drops out of sight, refinement of `Catalog` |
| `service_sequential` | one request at a time, 2 architectures, 4 requests, 1 failure, 1 crash | whatever an interrupted rename left, the package databases of a repository in sight carry its name in both architectures |
| `service_live` | 2 requests, 1 failure | every request is answered |
| `queries` | one query during 3 requests one after the other, 2 repositories, 2 architectures, 2 archives, pages of one package | what lasts is listed, pages complete, signature links and downloads right, a walk errs only about what changed, mutations fail no query but one |
| `upload` | 13 bodies of up to 7 pieces, limit 6, buffer 1, one upload alone with any token, or beside another verification with lifetime 2 and time 2 | only complete, authorized uploads are published, complete ones are not called malformed, `Publish` reports the answer and the truth, withdrawn keys expire, everything ends |
| `remove_superseded` | one request at a time | violation: removing a package leaves superseded archives |
| `token_threads` | 2 goroutines of one process, 2 client IDs, 2 scopes, 3 commands, 1 failure | no goroutine presents a replaced refresh token and cached logins are live and those of their client, except for records in `unguarded` and grants in `misfiled`; every command returns |
| `token_processes` | 2 processes of one goroutine, 3 commands, 1 failure or kill | a logout is not undone by anybody who did not use the login during it |
| `token_client`, `token_scopes` | one goroutine | violations, see below |
| `authorization_code` | 3 callers, 4 calls, 2 callbacks, any failures | one prompt, no mixed codes, one completed page, no server left over, nobody joins what is over, every call returns |

All type invariants are proved below, which includes these instances. The runs
check only two of them, each of which a plausible slip in the code would break:
`QueryTypeOK` by an offset that goes back (`PreviousPage`), and `TypeOK` of
`TokenCache`, whose `Records` says what scopes a record may claim.

**Bounds.** `MaxRequests`, `MaxFaults` and `MaxCrashes` only bound the
behaviours TLC explores; a behaviour may stop when all requests are used and
answered (`Rest`). Three requests reach every pair of operations in progress
together plus one that prepared the tree; four add a republication after a
removal or a removal after a rename. The archives are the smallest set with
the interesting coincidences: two versions of one package, the second signed,
and a third archive with another name under the file name of the second. Two
processes are what flock needs and mutexes do not cover. Two repositories are
a rename and its target. Repositories and temporary names are symmetric in
the safety runs; liveness is checked without symmetry.

`MaxCommands` bounds commands and, with them, tokens. Three are a login and
its use by two goroutines that renew it together, or, across processes, a
login, a request and a logout in any overlap. Two scopes are the publisher's
and one more; whether the two client IDs differ is a choice of the cfg. For
`AuthorizationCode` four calls let two authorizations follow each other while
a third caller waits, and two callbacks are a callback and a duplicate or
stray one.

In `queries` the requests are served one after the other, without failures: the
reader is the second actor, and its every call falls between any two of theirs.
Three are a publication that prepares the tree and two changes during one
query, for instance a removal and a publication between two pages; a signed
package for two architectures and an unsigned one of another name are the least
for which pages, links and offsets can be wrong. `MCUpload` starts in two kinds
of states: an upload alone, at the end of the modelled time, with each body; and
one that has arrived with an empty body while another request is being verified
over a whole lifetime. The bodies are the two `Publish` makes, each way to cut
or to order them wrongly that the handler distinguishes, and one longer than
the limit; `Buffer = 1` lets the writer be ahead of the handler, and behind it.

**Fairness.** In `FileLocks` the calls that succeed are weakly fair for each
thread: a goroutine that can go on goes on. With finitely many requests nobody
is overtaken for ever; flock itself promises no order, so with an endless
stream of shared lockers an exclusive one could starve, and nothing here says
otherwise. In `RepositoryService` each handler's next step is weakly fair,
except for a command that waits for a left-over lock file: only its client
going away ends that, and `EveryRequestReturns` excludes it. In `TokenCache`
and `AuthorizationCode` each goroutine's next step is weakly fair. That stands
for a running goroutine, for calls that end, and for the five minutes after
which an unanswered authorization ends itself (`client.go:902`); nothing is
assumed of the user, of callbacks or of expiry. In `Upload` the goroutine,
`Publish` and the handler go on when they can, the transport moves pieces and
closes every body it was given, which `http.RoundTripper` promises, an answer
arrives unless the connection breaks, and a fetch of keys ends; nothing is
assumed of files (`FileFails` and `StagingFails` may happen, and rescue nobody
who waits), of the network's staying up or of the provider's keys. The mutexes are weakly fair
only: the bounded number of calls makes that enough.

**Findings** (`PROJECT.json` quotes the lines):

* `remove_superseded`: `README.md:191-193` says that `package remove` deletes
  the package. `Remove` deletes the file of the entry it found; archives of
  versions that were superseded are in no database and stay downloadable.
* `token_client`: without any cached login, a request for `package:publish`
  authorizes the publisher client and stores the token under the admin's key
  (`client.go:501`, `532`). Its refresh token is then presented by the wrong
  client, and the user is asked to authorize the admin client.
* `token_scopes`: after a refused refresh, one scope is authorized and all the
  scopes of the old record are stored with the new token (`client.go:743`).

What the queries show of the code as it is, and the properties state exactly:
`Repositories` fails as a whole when a directory goes between its two reads
(`FailsOnlyIf`); a repository with a directory but no database is left out
while its first publication or its removal runs (`FoundWhenQuiet`), and stays
left out after a first publication that failed in `repo-add`; a repository
that is renamed during one listing may be in it under both names or neither;
a walk misses a package when one before it is removed (`WalkErrsOnlyIf`).

Read, not run: `README.md:123-129` says that `--access` defaults to
`publisher`; `selectAccess` (`SelectAccess`) takes `admin` as soon as a scope
other than `package:publish` is asked for. The comment at
`client.go:164-165` says that `Login` caches the scopes requested; it caches
those granted, as the tests want.

## What is proved

All proofs are for any number of threads, processes, repositories,
architectures, archives, requests, failures and crashes. They rest on the
assumptions about the constants, which TLC evaluates in the runs:
`FileLocksAssumption` and `ServiceAssumption` (sets that are disjoint, functions
with the right domain, at least one architecture), `QueryAssumption` (the
database's order ranks different names differently, a page has at least one
row), `KeySetAssumption` (a lifetime of at least one), `UploadAssumption` (a
final boundary is the last piece of a body), `AuthorizationAssumption` (bounds
are numbers) and `TokenCacheAssumption` (each goroutine has a process, the
publisher's scope is a scope, `None` is no value of anything).

**Locks** (`FileLocksProofs`). `LocksInvariant` (`LockInv`): which locks a thread
owns at each call, and that the owners conflict with nobody. `MutualExclusion`
alone is not inductive: it holds because an owner of all pairs has the
exclusive flock and an owner of one has the shared flock and its file. From it:
`LocksTypeCorrect`, `LocksExclude`, `LocksDoNotLeak`, `RWMutexIsFree`, and
`LocksImplementLifecycleLock`, step by step.

**Mutations: locks and disk** (`RepositoryInvariantProofs`).

* `ControlInvariant` (`ControlInv`): the request fits the call, the locks fit
  the call, locks exclude. `ServiceTypeCorrect` follows.
* `ServiceInvariant` (`ServiceInv`): adds the disk. `DatabaseBacked` is not
  inductive: a thread about to unlink or replace a path must know that no entry
  refers to it (`PathClaimed`), which it learns from a `Stat` that found nothing
  or from `repo-remove`; that stays true because nobody else is on the pair
  (`ControlInv`); two entries of one path would be the same (`PathsUnique`,
  `DatabaseNamed`); and a publication needs its directory to be there
  (`DirectoryMade`). The proof has a lemma per action. A step of one thread
  leaves the claims of the others alone because it works on another pair
  (`PairStepOthers`) or because it is alone (`LifecycleStepOthers`); copying and
  moving trees are `GrownTree` and `ShrunkTree`. `DatabaseBackedAlways` and
  `DatabaseNamedAlways` follow.
* `NeverOverwrittenAlways`: from `ServiceInvariant` and from `DestinationFree`
  (what `Stat` found missing is missing until the rename), which is proved by
  listing the only steps that add files.

**Mutations: outcomes** (`RepositoryOutcomeProofs`). `OutcomeInvariant`
(`OutcomeInv`) adds to `ServiceInv` what a handler has established by the call it
is at (`HandlerInv`, and `OutcomeOf` each thread): the file that `repo-add` is about
to list is installed; what `repo-remove` delisted stays delisted; a snapshot has
everything of its repository, with databases renamed once they are due; during the
removal of the old tree nothing of it is missing in the new one; and a success that
is about to be reported is true. These are claims about a part of the tree the
thread owns, so the heart of the proof is that two threads that both work never
work on the same part (`HoldersExclude`, `StepScope`), the copy and the
installation of a snapshot being the steps that change much at once
(`SnapshotCopy`, `SnapshotMove`). `SideFiles` and `OneVersionListed` are what keeps
signatures and entries in place. `Quiet` is claimed only while nothing has
failed: nobody is rolling back, and a signature comes and goes with its package
but for the call in between. `RepliesTruthfulAlways`, `RenameLosesNothingAlways`,
`OneVersionListedAlways` and `SignaturesFaithfulAlways` follow.
`TemporariesReclaimedAlways` is about steps and holds through every failure but that of
the removal: what belongs to no handler (`Abandoned`) grows with no step of a
thread (`NothingAbandoned`), because a handler that keeps its directory keeps its claim
on it (`UploadsKept`, `SnapshotsKept`).

**Mutations: what readers see** (`RepositoryCatalogProofs`).
`ServiceImplementsCatalog`: every step of a mutation is, under `catalog`, a step of
`Catalog` or a stutter. Most steps leave `entries` and the databases alone;
`repo-add` and `repo-remove` are publications and removals, the installation of a
snapshot is a `Copy`, which needs that the snapshot is true, and each step of a recursive
removal drops a database or nothing. `UnlistedOnlyIfAlways`
goes through the steps, too: a request that finishes leaves the file it worked on
listed or gone (`WorkEndsWell`), a file that appears without an entry is a copy of
such a one (`NewcomersAreCopies`), and a file whose entry goes is being worked on
or has been superseded (`DelistingIsWork`).

**Queries** (`QueriesProofs`). `QueriesChangeNothing` (`QuerySpec => Spec`): a query
only reads, so all of the above holds of the composition. `QueryInvariant`
(`QueryInv`) says, at any call of a query and after any step of a mutation, what the
answer so far accounts for: of the repositories that last, each is still to
be read, being read, or in the answer (`RepositoriesInv`); of the packages of a
page likewise, with the link that is right (`PageInv`); `HistoryInv` ties `lasting`
to the state. `WalkInv` is about positions in a database that changes: as long as
nothing went, every package that lasts was given or lies behind the offset, and as
long as nothing came, none that was given does. Its lemmas (`PositionGrows`,
`PositionsDiffer`, `PositionsFilled`, `LastPage`) count finite sets, which is
why databases are proved to be finite as well. `QueryTypeCorrect`,
`ListsWhatLastsAlways`, `FailsOnlyIfAlways`, `SignatureLinksAlways`,
`DownloadsWhatIsListedAlways` and `WalkErrsOnlyIfAlways` follow. The steps use the
service's own theorems: a download of what is listed finds it because databases
are backed and paths unique, a link is right because `SignaturesFaithful`. `FoundWhenQuietAlways` has an
invariant of its own, `DatabasesMade`: as long as nothing fails, an architecture
directory has a database or somebody is at work in it, and a publication turned
away at `Stat` found a file, which some database must have listed.

**Keys and uploads** (`UploadProofs`).

* `KeyInvariant` (`KeyInv`): whatever a key set has, or a fetch for it brings, was
  offered at the time the set was made or later (`SetInv`), because a fetch
  begins after its set was made and withdrawing a key records the present; a
  verification holds a set made less than a lifetime before it began
  (`PointerInv`), which stays true when the set is replaced; what it accepts is
  of that set (`TrustInv`). `TrustIsBounded` and `KeyTypeCorrect` follow.
* `UploadInvariant` (`UploadInv`): the handler gets past authentication with the
  permission only (`AuthInv`); the goroutine has no error exactly if it wrote
  everything, and closes its end accordingly (`WriterInv`), so that a body that
  ends cleanly is a whole one and a publication implies a complete body and no
  write error (`ReplyInv`); `Publish` has returned what `Outcome` says of both
  (`MainInv`). `PublishTellsTheTruth`, `EarlyAnswersAreReported`,
  `OnlyTheAuthorized` (with `BoundedTrust` of the key cache) and
  `UploadTypeCorrect` follow; `UploadImplementsKeySet` says that composing the
  two has added nothing to the key cache's behaviours.
* `PartsInvariant` (`PartsInv`), which counts: what the handler has staged of a
  part is the number of its pieces of data before the place it has read to
  (`CountInv`); where it stands between the parts, and that it publishes only at a
  final boundary (`PositionInv`); and what may have cut the body short
  (`UncutInv`). `PublishesWholeUploads` and `OnlyTheMalformedAreRejected` follow.

**Tokens** (`TokenCacheProofs`). `TokenInvariant` (`TokenInv`), for any number of
goroutines, processes, client IDs, scopes and commands:

* `ControlInv`: types, what a goroutine has at each call, who owns which mutex, and
  that two sources of one record outside `unguarded` share their mutex.
  `BudgetInv`: each command obtains at most one token, so that there is always a
  number for the next one.
* `HomeInv`: wherever tokens are (keyring, sources, on their way), those of one
  grant belong to one record, and those with one refresh token to one grant. This
  is what `LogoutForgets` lacks to be inductive, with `ForgottenInv`: what a
  logout has deleted is in nobody's hands.
* `InnerInv`, `LoginInv`, `HoldsInner`: interactive sources and new logins have
  tokens of their own. With them `LiveInv`, as long as nothing fails: what is stored,
  held or about to be stored or presented is live, but for records in
  `unguarded`.
* `ClientInv`: whose token a record, an interactive source and a thread hold. A
  token is saved for its own client by every path but the one that `Misfiles`
  counts, also when it is refreshed under a record's name.

`TokenTypeCorrect`, `LogoutForgetsAlways`, `NoStaleRefreshAlways` and
`RecordUsableAlways` follow.

**Authorizations** (`AuthorizationProofs`). `AuthorizationInvariant`
(`AuthorizationInv`): whoever authorizes does so for the flight in `authorizing`,
so there is only one (`AuthorizingInv`; from the step that clears `authorizing`
while it holds it); a callback waiting in the channel belongs to its own
transaction, and a page is counted at most once, and only with `callbackOnce`
used (`CallbackInv`); a server belongs to a caller that has not shut it down yet
(`ServerInv`); the flight that callers join has not ended, because numbers only
grow and the step that ends one takes it out of `authorizing` (`RunningInv`).
`AuthorizationTypeCorrect`, `PromptsOnce`, `CodesStayApart`, `CompletesOnce`,
`ServersEnd` and `JoinsRunningAlways` follow.

So every safety property that a run checks and finds true is a theorem. Only
model-checked are `EveryCallReturns`, `EveryRequestReturns`,
`EveryCommandReturns`, `EveryTokenReturns` and `UploadEnds`, liveness under
fairness, which is out of the prover's reach.

## Not modelled, and the plan

What the theorems do not say yet, and a continuation could: that requests hold up
only those they conflict with, as safety properties (who waits for whom, in
`FileLocks` and in `TokenCache`), which is most of the argument for the liveness
properties; and the composition of `FileLocks` with `RepositoryService`, which
now meet in `LifecycleLock` by inspection of `Acquire`, `Release` and `Drop`.

Simplifications that remain: in `Queries` there is one reader at a time (readers
change nothing, so two do not meet) and mutations do not overlap in its run;
`Upload` takes the verdict on the token's header and claims (`jwt.go:109-159`)
and `PublishUpload` as given; the discovery of the provider at the start is one
attempt whose failure ends the process, and is not modelled.

In `TokenCache` the client credentials source is missing: it stores nothing,
and its one lock is `oauth2`'s.

Left out for good: parsing of packages and databases, rendering, validation of
names and URLs, configuration, the constant metadata documents: data without
state, which unit tests reach well.
