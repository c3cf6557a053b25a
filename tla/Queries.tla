------------------------------ MODULE Queries ------------------------------
(***************************************************************************)
(* The read side of the depot (service.go:238-258 and 370-459, server.go:  *)
(* 140-250, 392-451, client.go:294-319): queries take no locks, so each of *)
(* their system calls may find the tree after any step of the mutations of *)
(* RepositoryService.                                                      *)
(*                                                                         *)
(*   repositories   Service.Repositories, for the index and the API        *)
(*   page           the package page of one repository, and a download     *)
(*                  from it                                                *)
(*   walk           Client.List, which asks for page after page            *)
(*                                                                         *)
(* Queries keep nothing between them and do not meet one another: a        *)
(* behaviour has one, which starts at any moment.                          *)
(***************************************************************************)
EXTENDS RepositoryService

CONSTANTS Asked,     \* the queries a client may ask
          Rank,      \* the order of package names
          PageSize   \* Client.List's pageSize, the server's limit

QueryKinds == [kind : {"repositories"}]
    \cup [kind : {"page"}, repo : Repos]
    \cup [kind : {"walk"}, repo : Repos, arch : Archs]

ASSUME QueryAssumption ==
    /\ Asked \subseteq QueryKinds
    /\ Rank \in [Names -> Nat]
    /\ \A m, n \in Names : Rank[m] = Rank[n] => m = n
    /\ PageSize \in Nat \ {0}

VARIABLES
    query,    \* what is asked
    call,     \* the next call of the handler or the client
    names,    \* repositories the handler has not looked at yet
    current,  \* the one it is looking at
    todo,     \* architectures it has not looked at yet
    found,    \* architectures with a database
    answer,   \* what it will return: repositories, or rows of the page
    offset,   \* the walk's cursor
    count,    \* how often the walk was given a name (2: twice or more)
    served,   \* the archive a download delivered
    outcome,
    (* auxiliary: what happened since the query started *)
    lasting,  \* what was there all the time
    came,     \* whether something new appeared
    went      \* whether something disappeared

handler == <<names, current, todo, found>>
client == <<offset, count, served>>
history == <<lasting, came, went>>
reader == <<query, call, handler, answer, client, outcome>>
queryVars == <<vars, reader, history>>

Rows == [arch : Archs, up : Packages, link : {"unknown", "shown", "none"}]

QueryTypeOK ==
    /\ query \in Asked \cup {[kind |-> "none"]}
    /\ call \in {"idle", "root", "next", "scan", "download", "fetch", "done"}
    /\ names \in SUBSET Repos
    /\ current \in Repos \cup {None}
    /\ todo \in SUBSET Archs
    /\ found \in SUBSET Archs
    /\ answer \in SUBSET [repo : Repos, archs : SUBSET Archs]
           \/ answer \in SUBSET Rows
    /\ offset \in Nat
    /\ count \in [Names -> 0..2]
    /\ served \in [arch : Archs, up : Packages, got : Packages \cup {None}] \cup {None}
    /\ outcome \in {"pending", "ok", "gone", "failed"}
    /\ came \in BOOLEAN /\ went \in BOOLEAN

-----------------------------------------------------------------------------
(* What a query is about, for the history.                                 *)

Empty(r) == r \in dirs /\ Under(archDirs, r) = {}

(* The test of Repositories: a database, or nothing at all.                *)
Discoverable(r) == Empty(r) \/ \E d \in Under(dbs, r) : d.name = r

NamesAt(place) == {NameOf[u] : u \in Listing(place)}

Present(q) ==
    CASE q.kind = "none" -> {}
      [] q.kind = "repositories" ->
             {<<"directory", r>> : r \in dirs \cap Repos}
                 \cup {<<"empty", r>> : r \in {s \in Repos : Empty(s)}}
                 \cup {<<"database", d.repo, d.arch>> : d \in {e \in dbs : e.name = e.repo}}
      [] q.kind = "page" ->
             LET listed == {e \in Under(entries, q.repo) : e.name = q.repo}
             IN {<<"listed", e.arch, e.up>> : e \in listed}
                    \cup {<<"whole", e.arch, e.up>> : e \in {f \in listed : PlaceOf(f) \notin torn}}
      [] q.kind = "walk" -> NamesAt([repo |-> q.repo, arch |-> q.arch])

(* Every step of the system extends the history of a running query.        *)
Observe ==
    LET before == Present(query)
        now == Present(query)'
    IN IF call = "done" THEN UNCHANGED history
       ELSE /\ lasting' = IF call = "idle" THEN now ELSE lasting \cap now
            /\ came' = (call # "idle" /\ (came \/ now \ before # {}))
            /\ went' = (call # "idle" /\ (went \/ before \ now # {}))

-----------------------------------------------------------------------------
Turn(from, to) == call = from /\ call' = to

Return(from, result) ==
    /\ Turn(from, "done")
    /\ outcome' = result

Ask ==
    /\ call = "idle"
    /\ query' \in Asked
    /\ call' = CASE query'.kind = "repositories" -> "root"
                 [] query'.kind = "page" -> "next"
                 [] query'.kind = "walk" -> "fetch"
    /\ names' = IF query'.kind = "page" THEN {query'.repo} ELSE {}
    /\ UNCHANGED <<vars, current, todo, found, answer, client, outcome>>

(* os.ReadDir of the root; componentPattern leaves out hidden snapshots.   *)
ReadRoot ==
    /\ Turn("root", "next")
    /\ names' = dirs \cap Repos
    /\ UNCHANGED <<vars, query, current, todo, found, answer, client, outcome>>

(* repositoryArchitectures: a directory that is gone has none.             *)
ReadRepository ==
    /\ Turn("next", "scan")
    /\ \E r \in names :
           /\ current' = r
           /\ names' = names \ {r}
           /\ todo' = {place.arch : place \in Under(archDirs, r)}
    /\ found' = {}
    /\ UNCHANGED <<vars, query, answer, client, outcome>>

Here(a) == [repo |-> current, arch |-> a]

(* Mutant: a missing database is an error.                                 *)
LstatOrFail ==
    \E a \in todo :
        /\ IF Database(Here(a)) \in dbs
           THEN /\ Turn("scan", "scan")
                /\ found' = found \cup {a}
                /\ UNCHANGED outcome
           ELSE Return("scan", "gone") /\ UNCHANGED found
        /\ todo' = todo \ {a}
        /\ UNCHANGED <<vars, query, names, current, answer, client>>

Lstat ==
    \E a \in todo :
        /\ Turn("scan", "scan")
        /\ found' = IF Database(Here(a)) \in dbs THEN found \cup {a} ELSE found
        /\ todo' = todo \ {a}
        /\ UNCHANGED <<vars, query, names, current, answer, client, outcome>>

Scanned(kind) == call = "scan" /\ query.kind = kind /\ todo = {}

Report == answer' = answer \cup {[repo |-> current, archs |-> found]}

(* Mutant: a repository without databases is never reported.               *)
IgnoreContents ==
    /\ Turn("scan", "next")
    /\ UNCHANGED <<answer, outcome>>

ReadContents ==
    \/ /\ Turn("scan", "next")
       /\ current \in dirs
       /\ IF Under(archDirs, current) = {} THEN Report ELSE UNCHANGED answer
       /\ UNCHANGED outcome
    \/ /\ Return("scan", "gone")
       /\ current \notin dirs
       /\ UNCHANGED answer

(* Without databases Repositories looks whether there is anything in the   *)
(* directory at all; this second os.ReadDir does fail if it has gone.      *)
ReportRepository ==
    /\ Scanned("repositories")
    /\ \/ found # {} /\ Turn("scan", "next") /\ Report /\ UNCHANGED outcome
       \/ found = {} /\ ReadContents
    /\ UNCHANGED <<vars, query, handler, client>>

ReturnRepositories ==
    /\ names = {} /\ query.kind = "repositories"
    /\ Return("next", "ok")
    /\ UNCHANGED <<vars, query, handler, answer, client>>

-----------------------------------------------------------------------------
(* The package page: one database after the other, then one lstat per      *)
(* package (packageViews, HasSignature).                                   *)

Listed(a) == {[arch |-> a, up |-> u, link |-> "unknown"] : u \in Listing(Here(a))}

ListArchitecture ==
    /\ Scanned("page")
    /\ \E a \in found :
           /\ found' = found \ {a}
           /\ answer' = answer \cup Listed(a)
    /\ UNCHANGED <<vars, query, call, names, current, todo, client, outcome>>

AllListed == Scanned("page") /\ found = {}

FileOfRow(row) == [repo |-> current, arch |-> row.arch, up |-> row.up]

HasSignature(row) == \E s \in sigs : SamePath(s, FileOfRow(row))

LinkSignature ==
    /\ AllListed
    /\ \E row \in answer :
           /\ row.link = "unknown"
           /\ answer' = (answer \ {row}) \cup
                  {[row EXCEPT !.link = IF HasSignature(row) THEN "shown" ELSE "none"]}
    /\ UNCHANGED <<vars, query, call, handler, client, outcome>>

ReturnPage ==
    /\ AllListed
    /\ Turn("scan", "download")
    /\ \A row \in answer : row.link # "unknown"
    /\ outcome' = "ok"
    /\ UNCHANGED <<vars, query, handler, answer, client>>

(* A link of the page is followed: os.Open, 404 if there is no such file.  *)
AtPath(x) == {y.up : y \in {f \in pkgs : SamePath(f, x)}}

Download ==
    /\ Turn("download", "done")
    /\ \E row \in answer :
           \E got \in IF AtPath(FileOfRow(row)) = {} THEN {None} ELSE AtPath(FileOfRow(row)) :
               served' = [arch |-> row.arch, up |-> row.up, got |-> got]
    /\ UNCHANGED <<vars, query, handler, answer, offset, count, outcome>>

LeavePage ==
    /\ Turn("download", "done")
    /\ UNCHANGED <<vars, query, handler, answer, client, outcome>>

-----------------------------------------------------------------------------
(* Client.List: pages of the sorted listing, until one is not full.        *)

Position(n, S) == Cardinality({m \in S : Rank[m] <= Rank[n]})

Page(S, from) == {n \in S : Position(n, S) \in from + 1 .. from + PageSize}

(* Mutant: the offset of the next page taken for the last of this one.     *)
SkipOne(from) == from + PageSize + 1

(* Mutant: back instead of on.                                             *)
PreviousPage(from) == from - PageSize

NextOffset(from) == from + PageSize

NextPage == Page(NamesAt([repo |-> query.repo, arch |-> query.arch]), offset)

Fetch ==
    /\ call = "fetch"
    /\ count' = [n \in Names |->
                     IF n \in NextPage /\ count[n] < 2 THEN count[n] + 1 ELSE count[n]]
    /\ \/ /\ Cardinality(NextPage) = PageSize
          /\ Turn("fetch", "fetch")
          /\ offset' = NextOffset(offset)
          /\ UNCHANGED outcome
       \/ /\ Cardinality(NextPage) < PageSize
          /\ Return("fetch", "ok")
          /\ UNCHANGED offset
    /\ UNCHANGED <<vars, query, handler, answer, served>>

-----------------------------------------------------------------------------
(* Any call of a running query may fail, and fails the query: what it has  *)
(* put together so far is not returned.                                    *)
QueryFails ==
    /\ call \notin {"idle", "download", "done"}
    /\ Return(call, "failed")
    /\ names' = {} /\ current' = None /\ todo' = {} /\ found' = {}
    /\ answer' = {}
    /\ offset' = 0
    /\ count' = [n \in Names |-> 0]
    /\ served' = None
    /\ UNCHANGED <<vars, query>>

QueryStep ==
    \/ ReadRoot \/ ReadRepository \/ Lstat \/ ReportRepository
    \/ ReturnRepositories \/ ListArchitecture \/ LinkSignature
    \/ ReturnPage \/ Download \/ LeavePage \/ Fetch

QueryInit ==
    /\ Init
    /\ query = [kind |-> "none"]
    /\ call = "idle"
    /\ names = {} /\ current = None /\ todo = {} /\ found = {}
    /\ answer = {}
    /\ offset = 0
    /\ count = [n \in Names |-> 0]
    /\ served = None
    /\ outcome = "pending"
    /\ lasting = {} /\ came = FALSE /\ went = FALSE

QueryNext ==
    /\ \/ Next /\ UNCHANGED reader
       \/ Ask
       \/ QueryStep
       \/ QueryFails
    /\ Observe

QuerySpec == QueryInit /\ [][QueryNext]_queryVars

-----------------------------------------------------------------------------
(* Properties.                                                             *)

Answered(kind) == query.kind = kind /\ outcome = "ok"

(* A list of the repositories reports every database that was there all    *)
(* the time under its repository, and every repository that was empty all  *)
(* the time; the page of a repository has every package that was listed    *)
(* all the time; although both are put together from one system call after *)
(* the other while mutations run (service.go:380-389, 398-459).            *)
ListsWhatLasts ==
    /\ Answered("repositories") =>
           /\ \A r \in Repos, a \in Archs :
                  <<"database", r, a>> \in lasting =>
                      \E x \in answer : x.repo = r /\ a \in x.archs
           /\ \A r \in Repos :
                  <<"empty", r>> \in lasting => \E x \in answer : x.repo = r
    /\ Answered("page") =>
           \A a \in Archs, u \in Packages :
               <<"listed", a, u>> \in lasting => \E x \in answer : x.arch = a /\ x.up = u

(* As long as nothing fails, no list overlooks a repository for longer     *)
(* than a request is working on it: one with architecture directories but  *)
(* no database, which Repositories leaves out although Create calls it     *)
(* existing, is being published to for the first time or removed           *)
(* (service.go:166-188, 414-421).                                          *)
FoundWhenQuiet ==
    Undisturbed =>
        \A r \in dirs \cap Repos :
            \/ Discoverable(r)
            \/ \E t \in Threads : pc[t] # "idle" /\ r = job[t].repo

(* Mutations never make a query fail, except that listing the repositories *)
(* does when one of their directories goes meanwhile (service.go:415-418). *)
FailsOnlyIf ==
    outcome = "gone" => query.kind = "repositories" /\ went

(* As long as nothing fails, a package that was listed while its page was  *)
(* made has a signature link if and only if it was uploaded with one: the  *)
(* signature is looked for after the database was read, and service.go     *)
(* installs it before listing and removes it after delisting the package   *)
(* (server.go:217-250, service.go:180-188, 221-232).                       *)
SignatureLinks ==
    Answered("page") /\ Undisturbed =>
        \A row \in answer :
            <<"whole", row.arch, row.up>> \in lasting =>
                (row.link = "shown") = (row.up \in Signed)

(* Following a link of the page downloads the package it was shown for, if *)
(* that is still listed: never a 404, never another archive of that file   *)
(* name (server.go:392-419).                                               *)
DownloadsWhatIsListed ==
    served # None /\ <<"whole", served.arch, served.up>> \in lasting =>
        served.got = served.up

(* The client's walk over the pages, each cut out of a database that may   *)
(* have changed since the page before, misses a package only if another    *)
(* one went meanwhile, and has one twice only if another one came          *)
(* (service.go:245-257, client.go:294-319).                                *)
WalkErrsOnlyIf ==
    Answered("walk") =>
        /\ ~went => \A n \in lasting : count[n] > 0
        /\ ~came => \A n \in Names : count[n] < 2
=============================================================================
