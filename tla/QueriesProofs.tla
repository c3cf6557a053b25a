---------------------------- MODULE QueriesProofs ----------------------------
(***************************************************************************)
(* Queries that take no locks, against any number of mutations, failures   *)
(* and crashes between their calls: what lasts is listed, links are right, *)
(* downloads are what was listed, and a walk over pages errs only about    *)
(* what changed.                                                           *)
(*                                                                         *)
(* A query changes nothing (QueriesChangeNothing), so that everything      *)
(* proved of RepositoryService holds between its calls.  QueryInv relates  *)
(* what it has put together so far to what was there all the time.         *)
(***************************************************************************)
EXTENDS Queries, RepositoryOutcomeProofs, FiniteSetTheorems

(* No call of a query changes anything the mutations work on.              *)
LEMMA ServiceSteps ==
  ASSUME [QueryNext]_queryVars
  PROVE  [Next]_vars /\ (UNCHANGED reader \/ UNCHANGED vars)
  <1>1. CASE UNCHANGED queryVars
    BY <1>1 DEF queryVars
  <1>2. CASE QueryNext
    BY <1>2 DEF QueryNext, Ask, QueryFails, QueryStep, ReadRoot, ReadRepository, Lstat,
       ReportRepository, ReturnRepositories, ListArchitecture, LinkSignature, ReturnPage,
       Download, LeavePage, Fetch
  <1>3. QED
    BY <1>1, <1>2

(* Queries are readers: the mutations behave as if nobody asked anything   *)
(* (service.go:238-258, 370-459: no query writes).                         *)
THEOREM QueriesChangeNothing == QuerySpec => Spec
  <1>1. QueryInit => Init
    BY DEF QueryInit
  <1>2. [QueryNext]_queryVars => [Next]_vars
    BY ServiceSteps
  <1>3. QED
    BY <1>1, <1>2, PTL DEF QuerySpec, Spec

-----------------------------------------------------------------------------
(* The invariant.                                                          *)

(* Which calls a query makes, and what it has before and after them.       *)
CallInv ==
    /\ call = "idle" <=> query.kind = "none"
    /\ call = "root" => query.kind = "repositories"
    /\ call \in {"next", "scan"} => query.kind \in {"repositories", "page"}
    /\ call = "download" => query.kind = "page"
    /\ call = "fetch" => query.kind = "walk"
    /\ call = "idle" => answer = {} /\ offset = 0 /\ count = [n \in Names |-> 0]
    /\ outcome = "pending" <=> call \notin {"download", "done"}
    /\ call # "done" => served = None /\ outcome \in {"pending", "ok"}
    /\ served # None => Answered("page")
    /\ outcome = "gone" => query.kind = "repositories"

(* What lasts is there, in every state of a running query.                 *)
HistoryInv == call \notin {"idle", "done"} => lasting \subseteq Present(query)

(* The list of the repositories: each that lasts is still to be looked at, *)
(* or being looked at, or in the answer.                                   *)
RepositoriesInv ==
    query.kind = "repositories" =>
        /\ answer \in SUBSET [repo : Repos, archs : SUBSET Archs]
        /\ call \in {"next", "scan"} =>
               /\ \A r \in names : r \in dirs \/ went
               /\ \A r \in Repos, a \in Archs :
                      <<"database", r, a>> \in lasting =>
                          \/ r \in names
                          \/ call = "scan" /\ current = r /\ a \in todo \cup found
                          \/ \E x \in answer : x.repo = r /\ a \in x.archs
               /\ \A r \in Repos :
                      <<"empty", r>> \in lasting =>
                          \/ r \in names
                          \/ call = "scan" /\ current = r /\ todo \cup found = {}
                          \/ \E x \in answer : x.repo = r
        /\ call = "scan" => current \in Repos /\ (current \in dirs \/ went)

(* The page of a repository: each package that lasts is in a database that *)
(* is still to be read, or in the answer, and a link says what is true.    *)
PageInv ==
    query.kind = "page" =>
        /\ answer \in SUBSET Rows
        /\ call = "next" => names = {query.repo} /\ answer = {}
        /\ call \in {"scan", "download"} => current = query.repo
        /\ call = "scan" =>
               \A a \in Archs, u \in Packages :
                   <<"listed", a, u>> \in lasting =>
                       a \in todo \cup found \/ \E x \in answer : x.arch = a /\ x.up = u
        /\ outcome = "ok" => \A x \in answer : x.link # "unknown"
        /\ Undisturbed =>
               \A x \in answer :
                   x.link # "unknown" /\ <<"whole", x.arch, x.up>> \in lasting =>
                       (x.link = "shown") = (x.up \in Signed)

(* The walk: a name that lasts and was not given is behind the cursor as   *)
(* long as nothing goes; one that was given is before it, or has gone, as  *)
(* long as nothing comes.                                                  *)
WalkedNames == NamesAt([repo |-> query.repo, arch |-> query.arch])

WalkInv ==
    call = "fetch" =>
        /\ ~went => \A n \in lasting : count[n] > 0 \/ Position(n, WalkedNames) > offset
        /\ ~came =>
               \A n \in Names :
                   /\ count[n] < 2
                   /\ count[n] = 1 /\ n \in WalkedNames => Position(n, WalkedNames) <= offset

(* What a query has returned.                                              *)
AnswerInv ==
    /\ ListsWhatLasts /\ FailsOnlyIf /\ DownloadsWhatIsListed /\ WalkErrsOnlyIf

QueryInv ==
    /\ QueryTypeOK /\ CallInv /\ HistoryInv
    /\ RepositoriesInv /\ PageInv /\ WalkInv /\ AnswerInv

LEMMA QueryInitInv == QueryInit => QueryInv
  <1> SUFFICES ASSUME QueryInit PROVE QueryInv
    OBVIOUS
  <1>1. QueryTypeOK
    <2>1. count \in [Names -> 0..2] /\ offset \in Nat
      BY DEF QueryInit
    <2>2. query \in Asked \cup {[kind |-> "none"]} /\ answer \in SUBSET Rows
      BY DEF QueryInit
    <2>3. QED
      BY <2>1, <2>2 DEF QueryInit, QueryTypeOK
  <1>2. CallInv /\ HistoryInv
    BY DEF QueryInit, CallInv, HistoryInv, Answered
  <1>3. RepositoriesInv /\ PageInv /\ WalkInv
    BY DEF QueryInit, RepositoriesInv, PageInv, WalkInv
  <1>4. AnswerInv
    BY DEF QueryInit, AnswerInv, ListsWhatLasts, FailsOnlyIf, DownloadsWhatIsListed,
       WalkErrsOnlyIf, Answered
  <1>5. QED
    BY <1>1, <1>2, <1>3, <1>4 DEF QueryInv

-----------------------------------------------------------------------------
(* What a query is about.                                                  *)

LEMMA PresentRepositories ==
  ASSUME QueryTypeOK, query.kind = "repositories"
  PROVE  /\ \A r : <<"directory", r>> \in Present(query) <=> r \in dirs \cap Repos
         /\ \A r : <<"empty", r>> \in Present(query) <=> r \in Repos /\ Empty(r)
         /\ \A r, a : <<"database", r, a>> \in Present(query) <=>
                \E d \in dbs : d.repo = r /\ d.arch = a /\ d.name = d.repo
  <1>1. Present(query) =
            {<<"directory", r>> : r \in dirs \cap Repos}
                \cup {<<"empty", r>> : r \in {s \in Repos : Empty(s)}}
                \cup {<<"database", d.repo, d.arch>> : d \in {e \in dbs : e.name = e.repo}}
    BY DEF Present
  <1>2. \A r : <<"directory", r>> \in Present(query) <=> r \in dirs \cap Repos
    BY <1>1
  <1>3. \A r : <<"empty", r>> \in Present(query) <=> r \in Repos /\ Empty(r)
    BY <1>1
  <1>4. \A r, a : <<"database", r, a>> \in Present(query) <=>
            \E d \in dbs : d.repo = r /\ d.arch = a /\ d.name = d.repo
    BY <1>1
  <1>5. QED
    BY <1>2, <1>3, <1>4

LEMMA PresentPage ==
  ASSUME query.kind = "page", NEW x \in Present(query)
  PROVE  \E e \in entries :
             /\ e.repo = query.repo /\ e.name = query.repo
             /\ \/ x = <<"listed", e.arch, e.up>>
                \/ x = <<"whole", e.arch, e.up>> /\ PlaceOf(e) \notin torn
  <1> DEFINE listed == {e \in Under(entries, query.repo) : e.name = query.repo}
  <1>1. Present(query) =
            {<<"listed", e.arch, e.up>> : e \in listed}
                \cup {<<"whole", e.arch, e.up>> : e \in {f \in listed : PlaceOf(f) \notin torn}}
    BY DEF Present
  <1>2. \A e : e \in listed <=> e \in entries /\ e.repo = query.repo /\ e.name = query.repo
    BY DEF Under
  <1> HIDE DEF listed
  <1>3. QED
    BY <1>1, <1>2

LEMMA ListedEntry ==
  ASSUME query.kind = "page", NEW a, NEW u, <<"listed", a, u>> \in Present(query)
  PROVE  \E e \in entries :
             e.repo = query.repo /\ e.name = query.repo /\ e.arch = a /\ e.up = u
  <1>1. PICK e \in entries :
            /\ e.repo = query.repo /\ e.name = query.repo
            /\ \/ <<"listed", a, u>> = <<"listed", e.arch, e.up>>
               \/ <<"listed", a, u>> = <<"whole", e.arch, e.up>> /\ PlaceOf(e) \notin torn
    BY PresentPage
  <1>2. QED
    BY <1>1

LEMMA WholeEntry ==
  ASSUME query.kind = "page", NEW a, NEW u, <<"whole", a, u>> \in Present(query)
  PROVE  \E e \in entries :
             /\ e.repo = query.repo /\ e.name = query.repo /\ e.arch = a /\ e.up = u
             /\ PlaceOf(e) \notin torn
  <1>1. PICK e \in entries :
            /\ e.repo = query.repo /\ e.name = query.repo
            /\ \/ <<"whole", a, u>> = <<"listed", e.arch, e.up>>
               \/ <<"whole", a, u>> = <<"whole", e.arch, e.up>> /\ PlaceOf(e) \notin torn
    BY PresentPage
  <1>2. QED
    BY <1>1

(* How a step extends the history.                                         *)
LEMMA Observed ==
  ASSUME QueryInv, [QueryNext]_queryVars
  PROVE  /\ call = "done" => UNCHANGED <<reader, history>>
         /\ call # "idle" => UNCHANGED query /\ call' # "idle"
         /\ call \notin {"idle", "done"} =>
                /\ lasting' \subseteq lasting /\ lasting' \subseteq Present(query)'
                /\ lasting \subseteq Present(query)
                /\ went => went'
                /\ came => came'
                /\ ~went' => Present(query) \subseteq Present(query)'
                /\ ~came' => Present(query)' \subseteq Present(query)
         /\ call = "idle" /\ call' # "idle" =>
                lasting' = Present(query)' /\ ~came' /\ ~went' /\ Ask
  <1>1. CASE UNCHANGED queryVars
    <2>1. Present(query)' = Present(query)
      BY <1>1 DEF queryVars, vars, disk, folders, files, database, marks, reader, Present,
         Under, Empty, PlaceOf, NamesAt, Listing, In
    <2>2. QED
      BY <1>1, <2>1 DEF queryVars, reader, history, QueryInv, HistoryInv
  <1>2. CASE QueryNext
    <2>1. Observe
      BY <1>2 DEF QueryNext
    <2>2. call = "done" => UNCHANGED reader
      BY <1>2 DEF QueryNext, Ask, QueryFails, QueryStep, ReadRoot, ReadRepository, Lstat,
         ReportRepository, ReadContents, ReturnRepositories, ListArchitecture, LinkSignature,
         ReturnPage, Download, LeavePage, Fetch, Turn, Return, AllListed, Scanned
    <2>3. call # "idle" => UNCHANGED query /\ call' # "idle"
      BY <1>2 DEF QueryNext, reader, Ask, QueryFails, QueryStep, ReadRoot, ReadRepository, Lstat,
         ReportRepository, ReadContents, ReturnRepositories, ListArchitecture, LinkSignature,
         ReturnPage, Download, LeavePage, Fetch, Turn, Return, AllListed, Scanned
    <2>4. call = "idle" /\ call' # "idle" => Ask
      BY <1>2 DEF QueryNext, reader, QueryFails, QueryStep, ReadRoot, ReadRepository, Lstat,
         ReportRepository, ReadContents, ReturnRepositories, ListArchitecture, LinkSignature,
         ReturnPage, Download, LeavePage, Fetch, Turn, Return, AllListed, Scanned
    <2>5. QED
      BY <2>1, <2>2, <2>3, <2>4 DEF Observe, history, QueryInv, HistoryInv
  <1>3. QED
    BY <1>1, <1>2

-----------------------------------------------------------------------------
(* Types and calls.                                                        *)

LEMMA QueryTypeStep ==
  ASSUME ServiceInv, QueryInv, [QueryNext]_queryVars
  PROVE  QueryTypeOK'
  <1> USE QueryAssumption DEF QueryInv, QueryTypeOK, handler, client
  <1>t. came' \in BOOLEAN /\ went' \in BOOLEAN
    <2>1. CASE UNCHANGED history
      BY <2>1 DEF history
    <2>2. CASE Observe
      BY <2>1, <2>2 DEF Observe
    <2>3. QED
      BY <2>1, <2>2 DEF QueryNext, queryVars
  <1>d. /\ entries \subseteq Entries /\ archDirs \subseteq Places /\ pkgs \subseteq Files
    BY DEF ServiceInv, ControlInv, TypeOK
  <1>n. /\ [n \in Names |-> 0] \in [Names -> 0..2] /\ {} \in SUBSET Rows
    OBVIOUS
  <1>1. CASE UNCHANGED reader
    BY <1>t, <1>1 DEF reader
  <1>2. CASE Ask
    BY <1>t, <1>2 DEF Ask, QueryKinds
  <1>3. CASE ReadRoot
    BY <1>t, <1>3 DEF ReadRoot, Turn
  <1>4. CASE ReadRepository
    <2>1. \A r : {place.arch : place \in Under(archDirs, r)} \subseteq Archs
      BY <1>d DEF Under, Places
    <2>2. QED
      BY <1>t, <1>4, <2>1 DEF ReadRepository, Turn
  <1>5. CASE Lstat
    BY <1>t, <1>5 DEF Lstat, Turn
  <1>6. CASE ReportRepository
    <2>1. query.kind = "repositories" /\ call = "scan"
      BY <1>6 DEF ReportRepository, Scanned
    <2>2. answer' \in SUBSET [repo : Repos, archs : SUBSET Archs]
      <3>1. answer \in SUBSET [repo : Repos, archs : SUBSET Archs] /\ current \in Repos
        BY <2>1 DEF RepositoriesInv
      <3>2. UNCHANGED answer \/ answer' = answer \cup {[repo |-> current, archs |-> found]}
        BY <1>6 DEF ReportRepository, ReadContents, Report
      <3>3. QED
        BY <3>1, <3>2
    <2>3. QED
      BY <1>t, <1>6, <2>2 DEF ReportRepository, ReadContents, Turn, Return
  <1>7. CASE ReturnRepositories
    BY <1>t, <1>7 DEF ReturnRepositories, Turn, Return
  <1>8. CASE ListArchitecture
    <2>1. query.kind = "page"
      BY <1>8 DEF ListArchitecture, Scanned
    <2>2. \A a \in Archs : Listed(a) \in SUBSET Rows
      BY <1>d DEF Listed, Listing, In, Entries, Rows
    <2>3. answer \in SUBSET Rows
      BY <2>1 DEF PageInv
    <2>4. answer' \in SUBSET Rows /\ found' \in SUBSET Archs
      BY <1>8, <2>2, <2>3 DEF ListArchitecture
    <2>5. QED
      BY <1>t, <1>8, <2>4 DEF ListArchitecture
  <1>9. CASE LinkSignature
    <2>1. query.kind = "page"
      BY <1>9 DEF LinkSignature, AllListed, Scanned
    <2>2. answer \in SUBSET Rows
      BY <2>1 DEF PageInv
    <2>3. \A x \in Rows : \A link \in {"unknown", "shown", "none"} : [x EXCEPT !.link = link] \in Rows
      BY DEF Rows
    <2>4. answer' \in SUBSET Rows
      BY <1>9, <2>2, <2>3 DEF LinkSignature
    <2>5. QED
      BY <1>t, <1>9, <2>4 DEF LinkSignature
  <1>10. CASE ReturnPage
    BY <1>t, <1>10 DEF ReturnPage, Turn
  <1>11. CASE Download
    <2>1. query.kind = "page"
      BY <1>11 DEF Download, Turn, CallInv
    <2>2. answer \in SUBSET Rows
      BY <2>1 DEF PageInv
    <2>3. \A x : AtPath(x) \subseteq Packages
      BY <1>d DEF AtPath, Files
    <2>4. served' \in [arch : Archs, up : Packages, got : Packages \cup {None}]
      BY <1>11, <2>2, <2>3 DEF Download, Rows
    <2>5. QED
      BY <1>t, <1>11, <2>4 DEF Download, Turn
  <1>12. CASE LeavePage
    BY <1>t, <1>12 DEF LeavePage, Turn
  <1>13. CASE Fetch
    <2>1. count' \in [Names -> 0..2]
      BY <1>13 DEF Fetch
    <2>2. offset' \in Nat
      BY <1>13 DEF Fetch, NextOffset
    <2>3. QED
      BY <1>t, <1>13, <2>1, <2>2 DEF Fetch, Turn, Return
  <1>14. CASE QueryFails
    BY <1>t, <1>n, <1>14 DEF QueryFails, Turn, Return
  <1>15. QED
    BY <1>1, <1>2, <1>3, <1>4, <1>5, <1>6, <1>7, <1>8, <1>9, <1>10, <1>11, <1>12, <1>13,
       <1>14 DEF QueryNext, QueryStep, queryVars

LEMMA CallStep ==
  ASSUME QueryInv, [QueryNext]_queryVars
  PROVE  CallInv'
  <1> USE QueryAssumption DEF QueryInv, QueryTypeOK, CallInv, handler, client, Turn, Return,
          Scanned, AllListed, Answered
  <1>1. CASE UNCHANGED reader
    BY <1>1 DEF reader
  <1>2. CASE Ask
    BY <1>2 DEF Ask, QueryKinds
  <1>3. CASE ReadRoot \/ ReadRepository \/ Lstat
    BY <1>3 DEF ReadRoot, ReadRepository, Lstat
  <1>4. CASE ReportRepository \/ ReturnRepositories
    BY <1>4 DEF ReportRepository, ReadContents, ReturnRepositories
  <1>5. CASE ListArchitecture \/ LinkSignature \/ ReturnPage
    BY <1>5 DEF ListArchitecture, LinkSignature, ReturnPage
  <1>6. CASE Download \/ LeavePage
    BY <1>6 DEF Download, LeavePage
  <1>7. CASE Fetch
    BY <1>7 DEF Fetch
  <1>8. CASE QueryFails
    BY <1>8 DEF QueryFails
  <1>9. QED
    BY <1>1, <1>2, <1>3, <1>4, <1>5, <1>6, <1>7, <1>8 DEF QueryNext, QueryStep, queryVars

LEMMA HistoryStep ==
  ASSUME QueryInv, [QueryNext]_queryVars
  PROVE  HistoryInv'
  <1>1. call' \notin {"idle", "done"} => call # "done"
    BY Observed DEF reader
  <1>2. QED
    BY <1>1, Observed DEF HistoryInv

-----------------------------------------------------------------------------
(* The list of the repositories.                                           *)

LEMMA DirectoriesStay ==
  ASSUME QueryTypeOK, query.kind = "repositories", UNCHANGED query,
         Present(query) \subseteq Present(query)'
  PROVE  dirs \cap Repos \subseteq dirs'
  <1>1. ASSUME NEW r \in dirs \cap Repos PROVE <<"directory", r>> \in Present(query)'
    BY <1>1, PresentRepositories
  <1>2. Present(query)' =
            {<<"directory", r>> : r \in dirs' \cap Repos}
                \cup {<<"empty", r>> : r \in {s \in Repos : Empty(s)'}}
                \cup {<<"database", d.repo, d.arch>> : d \in {e \in dbs' : e.name = e.repo}}
    BY DEF Present
  <1>3. \A r : <<"directory", r>> \in Present(query)' => r \in dirs'
    BY <1>2
  <1>4. QED
    BY <1>1, <1>3

(* A database that is there is in a directory that is there.               *)
LEMMA DatabasePlace ==
  ASSUME ServiceInv, NEW d \in dbs, d.name = d.repo
  PROVE  /\ d.repo \in dirs \cap Repos /\ PlaceOf(d) \in Under(archDirs, d.repo)
         /\ d = Database([repo |-> d.repo, arch |-> d.arch])
  <1>1. d \in Databases /\ PlaceOf(d) \in archDirs
    BY DEF ServiceInv, ControlInv, TypeOK, DiskInv, TreeShape
  <1>2. d.repo \in dirs
    BY <1>1 DEF ServiceInv, DiskInv, TreeShape, PlaceOf
  <1>3. QED
    BY <1>1, <1>2 DEF Databases, Under, PlaceOf, Database

LEMMA RepositoriesStep ==
  ASSUME ServiceInv, QueryInv, [QueryNext]_queryVars
  PROVE  RepositoriesInv'
  <1> SUFFICES ASSUME query'.kind = "repositories" PROVE RepositoriesInv'
    BY DEF RepositoriesInv
  <1> USE DEF handler, client, Turn, Return
  <1>t. QueryTypeOK /\ CallInv /\ RepositoriesInv /\ HistoryInv
    BY DEF QueryInv
  <1>h. call \notin {"idle", "done"} =>
            /\ UNCHANGED query
            /\ lasting' \subseteq lasting /\ lasting' \subseteq Present(query)
            /\ went => went'
            /\ \A r \in Repos : r \in dirs \/ went => r \in dirs' \/ went'
    <2>1. SUFFICES ASSUME call \notin {"idle", "done"}
                   PROVE  \A r \in Repos : r \in dirs \/ went => r \in dirs' \/ went'
      BY Observed
    <2>2. CASE went'
      BY <2>2
    <2>3. CASE ~went'
      BY <1>t, <2>1, <2>3, Observed, DirectoriesStay
    <2>4. QED
      BY <2>2, <2>3
  <1>k. ASSUME call \notin {"idle", "done"}
        PROVE  query.kind = "repositories" /\ names \subseteq Repos
    BY <1>t, <1>h, <1>k DEF QueryTypeOK
  <1>1. CASE UNCHANGED reader
    <2>1. CASE call \in {"next", "scan"}
      BY <1>t, <1>h, <1>k, <1>1, <2>1 DEF RepositoriesInv, reader
    <2>2. CASE call \notin {"next", "scan"}
      BY <1>t, <1>1, <2>2 DEF RepositoriesInv, reader
    <2>3. QED
      BY <2>1, <2>2
  <1>2. CASE Ask
    BY <1>t, <1>2 DEF Ask, RepositoriesInv, CallInv
  <1>3. CASE ReadRoot
    <2>1. /\ call = "root" /\ call' = "next" /\ names' = dirs \cap Repos
          /\ UNCHANGED <<dirs, answer>>
      BY <1>3 DEF ReadRoot, vars, disk, folders
    <2>2. \A r \in Repos, a \in Archs : <<"database", r, a>> \in lasting' => r \in names'
      <3> SUFFICES ASSUME NEW r \in Repos, NEW a \in Archs, <<"database", r, a>> \in lasting'
                   PROVE  r \in names'
        OBVIOUS
      <3>1. <<"database", r, a>> \in Present(query)
        BY <1>h, <2>1
      <3>2. PICK d \in dbs : d.repo = r /\ d.arch = a /\ d.name = d.repo
        BY <1>t, <1>k, <2>1, <3>1, PresentRepositories
      <3>3. QED
        BY <2>1, <3>2, DatabasePlace
    <2>3. \A r \in Repos : <<"empty", r>> \in lasting' => r \in names'
      BY <1>t, <1>h, <1>k, <2>1, PresentRepositories DEF Empty
    <2>4. answer' \in SUBSET [repo : Repos, archs : SUBSET Archs]
      BY <1>t, <1>k, <2>1 DEF RepositoriesInv
    <2>5. QED
      BY <2>1, <2>2, <2>3, <2>4 DEF RepositoriesInv
  <1>4. CASE ReadRepository
    <2>1. PICK r \in names :
              /\ current' = r /\ names' = names \ {r}
              /\ todo' = {place.arch : place \in Under(archDirs, r)}
      BY <1>4 DEF ReadRepository
    <2>2. /\ call = "next" /\ call' = "scan" /\ found' = {}
          /\ UNCHANGED <<dirs, answer>>
      BY <1>4 DEF ReadRepository, vars, disk, folders
    <2>3. ASSUME NEW s \in Repos, NEW a \in Archs, <<"database", s, a>> \in lasting'
          PROVE  \/ s \in names'
                 \/ current' = s /\ a \in todo' \cup found'
                 \/ \E x \in answer' : x.repo = s /\ a \in x.archs
      <3>1. <<"database", s, a>> \in lasting /\ <<"database", s, a>> \in Present(query)
        BY <1>h, <2>2, <2>3
      <3>2. PICK d \in dbs : d.repo = s /\ d.arch = a /\ d.name = d.repo
        BY <1>t, <1>k, <2>2, <3>1, PresentRepositories
      <3>3. PlaceOf(d) \in Under(archDirs, s) /\ PlaceOf(d).arch = a
        BY <3>2, DatabasePlace DEF PlaceOf
      <3>4. CASE s = r
        BY <2>1, <3>3, <3>4
      <3>5. CASE s # r
        BY <1>t, <1>k, <2>1, <2>2, <3>1, <3>5 DEF RepositoriesInv
      <3>6. QED
        BY <3>4, <3>5
    <2>4. ASSUME NEW s \in Repos, <<"empty", s>> \in lasting'
          PROVE  \/ s \in names'
                 \/ current' = s /\ todo' \cup found' = {}
                 \/ \E x \in answer' : x.repo = s
      <3>1. <<"empty", s>> \in lasting /\ Empty(s)
        BY <1>t, <1>h, <1>k, <2>2, <2>4, PresentRepositories
      <3>2. CASE s = r
        BY <2>1, <2>2, <3>1, <3>2 DEF Empty
      <3>3. CASE s # r
        BY <1>t, <1>k, <2>1, <2>2, <3>1, <3>3 DEF RepositoriesInv
      <3>4. QED
        BY <3>2, <3>3
    <2>5. \A s \in names \cup {r} : s \in Repos /\ (s \in dirs' \/ went')
      BY <1>t, <1>h, <1>k, <2>1, <2>2 DEF RepositoriesInv
    <2>6. answer' \in SUBSET [repo : Repos, archs : SUBSET Archs]
      BY <1>t, <1>k, <2>2 DEF RepositoriesInv
    <2>7. QED
      BY <2>1, <2>2, <2>3, <2>4, <2>5, <2>6 DEF RepositoriesInv
  <1>5. CASE Lstat
    <2>1. PICK b \in todo :
              /\ todo' = todo \ {b}
              /\ found' = IF Database(Here(b)) \in dbs THEN found \cup {b} ELSE found
      BY <1>5 DEF Lstat
    <2>2. call = "scan" /\ call' = "scan" /\ UNCHANGED <<dirs, names, current, answer>>
      BY <1>5 DEF Lstat, vars, disk, folders
    <2>3. ASSUME NEW s \in Repos, NEW a \in Archs, <<"database", s, a>> \in lasting'
          PROVE  \/ s \in names
                 \/ current = s /\ a \in todo' \cup found'
                 \/ \E x \in answer : x.repo = s /\ a \in x.archs
      <3>1. <<"database", s, a>> \in lasting /\ <<"database", s, a>> \in Present(query)
        BY <1>h, <2>2, <2>3
      <3>2. PICK d \in dbs : d.repo = s /\ d.arch = a /\ d.name = d.repo
        BY <1>t, <1>k, <2>2, <3>1, PresentRepositories
      <3>3. Database([repo |-> s, arch |-> a]) \in dbs
        BY <3>2, DatabasePlace
      <3>4. CASE current = s /\ a = b
        BY <2>1, <3>3, <3>4 DEF Here
      <3>5. CASE ~(current = s /\ a = b)
        BY <1>t, <1>k, <2>1, <2>2, <3>1, <3>5 DEF RepositoriesInv
      <3>6. QED
        BY <3>4, <3>5
    <2>4. ASSUME NEW s \in Repos, <<"empty", s>> \in lasting'
          PROVE  s \in names \/ \E x \in answer : x.repo = s
      BY <1>t, <1>h, <1>k, <2>1, <2>2, <2>4 DEF RepositoriesInv
    <2>5. QED
      BY <1>t, <1>h, <1>k, <2>2, <2>3, <2>4 DEF RepositoriesInv
  <1>6. CASE ReportRepository
    <2>1. call = "scan" /\ todo = {} /\ UNCHANGED <<dirs, names, current, todo, found>>
      BY <1>6 DEF ReportRepository, Scanned, vars, disk, folders
    <2>2. current \in Repos /\ answer \in SUBSET [repo : Repos, archs : SUBSET Archs]
          /\ found \subseteq Archs
      BY <1>t, <1>k, <2>1 DEF RepositoriesInv, QueryTypeOK
    <2>3. UNCHANGED answer \/ answer' = answer \cup {[repo |-> current, archs |-> found]}
      BY <1>6 DEF ReportRepository, ReadContents, Report
    <2>4. answer' \in SUBSET [repo : Repos, archs : SUBSET Archs]
      BY <2>2, <2>3
    <2>5. ASSUME call' = "next"
          PROVE  /\ found # {} => answer' = answer \cup {[repo |-> current, archs |-> found]}
                 /\ Empty(current) /\ found = {} =>
                        answer' = answer \cup {[repo |-> current, archs |-> found]}
      BY <1>6, <2>5 DEF ReportRepository, ReadContents, Report, Empty
    <2>6. ASSUME call' = "next", NEW s \in Repos, NEW a \in Archs,
                 <<"database", s, a>> \in lasting'
          PROVE  s \in names \/ \E x \in answer' : x.repo = s /\ a \in x.archs
      <3>1. \/ s \in names
            \/ current = s /\ a \in found
            \/ \E x \in answer : x.repo = s /\ a \in x.archs
        BY <1>t, <1>h, <1>k, <2>1, <2>6 DEF RepositoriesInv
      <3>2. CASE current = s /\ a \in found
        <4>1. [repo |-> current, archs |-> found] \in answer'
          BY <2>5, <2>6, <3>2
        <4>2. QED
          BY <3>2, <4>1
      <3>3. QED
        BY <2>3, <3>1, <3>2
    <2>7. ASSUME call' = "next", NEW s \in Repos, <<"empty", s>> \in lasting'
          PROVE  s \in names \/ \E x \in answer' : x.repo = s
      <3>1. \/ s \in names
            \/ current = s /\ found = {}
            \/ \E x \in answer : x.repo = s
        BY <1>t, <1>h, <1>k, <2>1, <2>7 DEF RepositoriesInv
      <3>2. Empty(s)
        BY <1>t, <1>h, <1>k, <2>1, <2>7, PresentRepositories
      <3>3. CASE current = s /\ found = {}
        <4>1. [repo |-> current, archs |-> found] \in answer'
          BY <2>5, <2>7, <3>2, <3>3
        <4>2. QED
          BY <3>3, <4>1
      <3>4. QED
        BY <2>3, <3>1, <3>3
    <2>8. call' \in {"next", "done"}
      BY <1>6 DEF ReportRepository, ReadContents
    <2>9. \A r \in names : r \in dirs' \/ went'
      BY <1>t, <1>h, <1>k, <2>1 DEF RepositoriesInv
    <2>10. QED
      BY <2>1, <2>4, <2>6, <2>7, <2>8, <2>9 DEF RepositoriesInv
  <1>7. CASE ReturnRepositories
    BY <1>t, <1>k, <1>7 DEF ReturnRepositories, RepositoriesInv
  <1>8. CASE QueryFails
    BY <1>8 DEF QueryFails, RepositoriesInv
  <1>9. CASE ListArchitecture \/ LinkSignature \/ ReturnPage \/ Download \/ LeavePage \/ Fetch
    BY <1>t, <1>9 DEF ListArchitecture, LinkSignature, ReturnPage, Download, LeavePage, Fetch,
       AllListed, Scanned, CallInv
  <1>10. QED
    BY <1>1, <1>2, <1>3, <1>4, <1>5, <1>6, <1>7, <1>8, <1>9
       DEF QueryNext, QueryStep, queryVars

-----------------------------------------------------------------------------
(* The page of a repository.                                               *)

(* A listed package has a database, in an architecture directory.          *)
LEMMA ListedPlace ==
  ASSUME ServiceInv, NEW e \in entries, e.name = e.repo
  PROVE  /\ Database([repo |-> e.repo, arch |-> e.arch]) \in dbs
         /\ e.arch \in {place.arch : place \in Under(archDirs, e.repo)}
         /\ e.up \in Listing([repo |-> e.repo, arch |-> e.arch])
  <1>1. Database([repo |-> e.repo, arch |-> e.arch]) \in dbs
    BY DEF ServiceInv, DiskInv, TreeShape, Database
  <1>2. [repo |-> e.repo, arch |-> e.arch] \in archDirs
    BY <1>1 DEF ServiceInv, DiskInv, TreeShape, Database, PlaceOf
  <1>3. e.arch \in {place.arch : place \in Under(archDirs, e.repo)}
    BY <1>2 DEF Under
  <1>4. e.up \in Listing([repo |-> e.repo, arch |-> e.arch])
    BY DEF Listing, In
  <1>5. QED
    BY <1>1, <1>3, <1>4

(* The lstat of a signature tells what the package was uploaded with.      *)
LEMMA LinkIsRight ==
  ASSUME SignaturesFaithful, Undisturbed, QueryTypeOK, query.kind = "page",
         current = query.repo, NEW row, <<"whole", row.arch, row.up>> \in Present(query)
  PROVE  HasSignature(row) <=> row.up \in Signed
  <1>1. PICK e \in entries :
            /\ e.repo = query.repo /\ e.name = query.repo /\ e.arch = row.arch
            /\ e.up = row.up /\ PlaceOf(e) \notin torn
    BY WholeEntry
  <1>2. FileOfEntry(e) = FileOfRow(row)
    BY <1>1 DEF FileOfEntry, FileOfRow
  <1>3. {s.up : s \in {x \in sigs : SamePath(x, FileOfRow(row))}} = {row.up} \cap Signed
    BY <1>1, <1>2 DEF SignaturesFaithful
  <1>4. CASE row.up \in Signed
    <2>1. row.up \in {s.up : s \in {x \in sigs : SamePath(x, FileOfRow(row))}}
      BY <1>3, <1>4
    <2>2. QED
      BY <1>4, <2>1 DEF HasSignature
  <1>5. CASE row.up \notin Signed
    <2>1. \A s \in sigs : SamePath(s, FileOfRow(row)) =>
              s.up \in {z.up : z \in {x \in sigs : SamePath(x, FileOfRow(row))}}
      OBVIOUS
    <2>2. QED
      BY <1>3, <1>5, <2>1 DEF HasSignature
  <1>6. QED
    BY <1>4, <1>5

LEMMA PageStep ==
  ASSUME ServiceInv, SignaturesFaithful, QueryInv, [QueryNext]_queryVars
  PROVE  PageInv'
  <1> SUFFICES ASSUME query'.kind = "page" PROVE PageInv'
    BY DEF PageInv
  <1> USE DEF handler, client, Turn, Return, Scanned, AllListed
  <1>t. QueryTypeOK /\ CallInv /\ PageInv
    BY DEF QueryInv
  <1>q. QueryTypeOK'
    BY QueryTypeStep
  <1>h. call # "idle" =>
            /\ UNCHANGED query
            /\ lasting' \subseteq lasting
            /\ call # "done" => lasting' \subseteq Present(query)
    BY Observed DEF history
  <1>u. Undisturbed' => Undisturbed
    BY ServiceSteps, UndisturbedBefore DEF ServiceInv
  <1>p. Lstat \/ ListArchitecture \/ LinkSignature => outcome' # "ok"
    BY <1>t DEF Lstat, ListArchitecture, LinkSignature, CallInv
  <1>1. CASE UNCHANGED reader
    <2>1. CASE call = "idle"
      BY <1>t, <1>1, <2>1 DEF CallInv, PageInv, reader
    <2>2. CASE call # "idle"
      BY <1>t, <1>h, <1>u, <1>1, <2>2 DEF PageInv, reader
    <2>3. QED
      BY <2>1, <2>2
  <1>2. CASE Ask
    BY <1>t, <1>2 DEF Ask, PageInv, CallInv
  <1>3. CASE ReadRepository
    <2>1. query.kind = "page" /\ names = {query.repo} /\ answer = {} /\ call = "next"
      BY <1>t, <1>h, <1>3 DEF ReadRepository, PageInv
    <2>2. /\ current' = query.repo /\ call' = "scan" /\ answer' = {}
          /\ todo' = {place.arch : place \in Under(archDirs, query.repo)}
      BY <1>3, <2>1 DEF ReadRepository
    <2>3. ASSUME NEW a \in Archs, NEW u \in Packages, <<"listed", a, u>> \in lasting'
          PROVE  a \in todo'
      <3>1. <<"listed", a, u>> \in Present(query)
        BY <1>h, <2>1, <2>3
      <3>2. PICK e \in entries :
                e.repo = query.repo /\ e.name = query.repo /\ e.arch = a /\ e.up = u
        BY <1>t, <2>1, <3>1, ListedEntry
      <3>3. QED
        BY <2>2, <3>2, ListedPlace
    <2>4. QED
      BY <1>h, <2>1, <2>2, <2>3 DEF PageInv
  <1>4. CASE Lstat
    <2>1. PICK b \in todo :
              /\ todo' = todo \ {b}
              /\ found' = IF Database(Here(b)) \in dbs THEN found \cup {b} ELSE found
      BY <1>4 DEF Lstat
    <2>2. /\ call = "scan" /\ call' = "scan" /\ UNCHANGED <<current, answer>>
          /\ query.kind = "page" /\ current = query.repo
      BY <1>t, <1>h, <1>4 DEF Lstat, PageInv
    <2>3. ASSUME NEW a \in Archs, NEW u \in Packages, <<"listed", a, u>> \in lasting'
          PROVE  a \in todo' \cup found' \/ \E x \in answer : x.arch = a /\ x.up = u
      <3>1. <<"listed", a, u>> \in Present(query) /\ <<"listed", a, u>> \in lasting
        BY <1>h, <2>2, <2>3
      <3>2. PICK e \in entries :
                e.repo = query.repo /\ e.name = query.repo /\ e.arch = a /\ e.up = u
        BY <1>t, <2>2, <3>1, ListedEntry
      <3>3. Database(Here(a)) \in dbs
        BY <2>2, <3>2, ListedPlace DEF Here
      <3>4. QED
        BY <1>t, <2>1, <2>2, <3>1, <3>3 DEF PageInv
    <2>4. QED
      BY <1>t, <1>h, <1>u, <1>p, <1>4, <2>2, <2>3 DEF PageInv
  <1>5. CASE ListArchitecture
    <2>1. PICK b \in found : found' = found \ {b} /\ answer' = answer \cup Listed(b)
      BY <1>5 DEF ListArchitecture
    <2>2. /\ call = "scan" /\ call' = "scan" /\ UNCHANGED <<current, todo>>
          /\ query.kind = "page" /\ current = query.repo
      BY <1>t, <1>h, <1>5 DEF ListArchitecture, PageInv
    <2>3. ASSUME NEW a \in Archs, NEW u \in Packages, <<"listed", a, u>> \in lasting'
          PROVE  a \in todo' \cup found' \/ \E x \in answer' : x.arch = a /\ x.up = u
      <3>1. <<"listed", a, u>> \in Present(query) /\ <<"listed", a, u>> \in lasting
        BY <1>h, <2>2, <2>3
      <3>2. PICK e \in entries :
                e.repo = query.repo /\ e.name = query.repo /\ e.arch = a /\ e.up = u
        BY <1>t, <2>2, <3>1, ListedEntry
      <3>3. u \in Listing(Here(a))
        BY <2>2, <3>2, ListedPlace DEF Here
      <3>4. CASE a = b
        <4>1. [arch |-> a, up |-> u, link |-> "unknown"] \in answer'
          BY <2>1, <3>3, <3>4 DEF Listed
        <4>2. QED
          BY <4>1
      <3>5. CASE a # b
        <4>1. a \in todo \cup found \/ \E x \in answer : x.arch = a /\ x.up = u
          BY <1>t, <2>2, <3>1 DEF PageInv
        <4>2. QED
          BY <2>1, <2>2, <3>5, <4>1
      <3>6. QED
        BY <3>4, <3>5
    <2>4. \A x \in answer' : x \in answer \/ x.link = "unknown"
      BY <2>1 DEF Listed
    <2>5. answer' \in SUBSET Rows
      <3>1. Listed(b) \in SUBSET Rows
        BY <1>t, <2>1 DEF Listed, Listing, In, Rows, QueryTypeOK, ServiceInv, ControlInv,
           TypeOK, Entries
      <3>2. QED
        BY <1>t, <2>1, <2>2, <3>1 DEF PageInv
    <2>6. ASSUME Undisturbed', NEW x \in answer', x.link # "unknown",
                 <<"whole", x.arch, x.up>> \in lasting'
          PROVE  (x.link = "shown") = (x.up \in Signed)
      BY <1>t, <1>h, <1>u, <2>2, <2>4, <2>6 DEF PageInv
    <2>7. QED
      BY <1>h, <1>p, <1>5, <2>2, <2>3, <2>5, <2>6 DEF PageInv
  <1>6. CASE LinkSignature
    <2> DEFINE linked(row) ==
              [row EXCEPT !.link = IF HasSignature(row) THEN "shown" ELSE "none"]
    <2>1. PICK row \in answer :
              row.link = "unknown" /\ answer' = (answer \ {row}) \cup {linked(row)}
      BY <1>6 DEF LinkSignature
    <2>2. /\ call = "scan" /\ call' = "scan" /\ UNCHANGED <<current, todo, found>>
          /\ query.kind = "page" /\ current = query.repo /\ answer \subseteq Rows
      BY <1>t, <1>h, <1>6 DEF LinkSignature, PageInv
    <2>3. /\ linked(row) \in Rows /\ linked(row).arch = row.arch /\ linked(row).up = row.up
          /\ (linked(row).link = "shown") <=> HasSignature(row)
      BY <2>1, <2>2 DEF Rows
    <2>4. ASSUME NEW a \in Archs, NEW u \in Packages, <<"listed", a, u>> \in lasting'
          PROVE  a \in todo' \cup found' \/ \E x \in answer' : x.arch = a /\ x.up = u
      <3>1. a \in todo \cup found \/ \E x \in answer : x.arch = a /\ x.up = u
        BY <1>t, <1>h, <2>2, <2>4 DEF PageInv
      <3>2. ASSUME NEW x \in answer, x.arch = a, x.up = u
            PROVE  \E y \in answer' : y.arch = a /\ y.up = u
        <4>1. CASE x = row
          <5>1. linked(row) \in answer'
            BY <2>1
          <5>2. QED
            BY <2>3, <3>2, <4>1, <5>1
        <4>2. CASE x # row
          <5>1. x \in answer'
            BY <2>1, <4>2
          <5>2. QED
            BY <3>2, <5>1
        <4>3. QED
          BY <4>1, <4>2
      <3>3. QED
        BY <2>2, <3>1, <3>2
    <2>5. ASSUME Undisturbed', NEW x \in answer', x.link # "unknown",
                 <<"whole", x.arch, x.up>> \in lasting'
          PROVE  (x.link = "shown") = (x.up \in Signed)
      <3>1. CASE x \in answer
        BY <1>t, <1>h, <1>u, <2>2, <2>5, <3>1 DEF PageInv
      <3>2. CASE x = linked(row)
        <4>1. <<"whole", row.arch, row.up>> \in Present(query)
          BY <1>h, <2>2, <2>3, <2>5, <3>2
        <4>2. HasSignature(row) <=> row.up \in Signed
          BY <1>t, <1>u, <2>2, <2>5, <4>1, LinkIsRight
        <4>3. QED
          BY <2>3, <3>2, <4>2
      <3>3. QED
        BY <2>1, <3>1, <3>2
    <2>6. answer' \in SUBSET Rows
      BY <2>1, <2>2, <2>3
    <2>7. QED
      BY <1>h, <1>p, <1>6, <2>2, <2>4, <2>5, <2>6 DEF PageInv
  <1>7. CASE ReturnPage
    BY <1>t, <1>h, <1>u, <1>7 DEF ReturnPage, PageInv
  <1>8. CASE Download \/ LeavePage
    BY <1>t, <1>h, <1>u, <1>8 DEF Download, LeavePage, PageInv
  <1>9. CASE QueryFails
    BY <1>9 DEF QueryFails, PageInv
  <1>10. CASE ReadRoot \/ ReportRepository \/ ReturnRepositories \/ Fetch
    BY <1>t, <1>10 DEF ReadRoot, ReportRepository, ReturnRepositories, Fetch, CallInv
  <1>11. QED
    BY <1>1, <1>2, <1>3, <1>4, <1>5, <1>6, <1>7, <1>8, <1>9, <1>10
       DEF QueryNext, QueryStep, queryVars

-----------------------------------------------------------------------------
(* Finitely many packages are listed at any moment.                        *)

LEMMA FiniteImage ==
  ASSUME NEW S, IsFiniteSet(S), NEW T, NEW f, f \in [S -> T], T = {f[x] : x \in S}
  PROVE  IsFiniteSet(T)
  <1>1. f \in Surjection(S, T)
    BY DEF Surjection
  <1>2. QED
    BY <1>1, FS_Surjection

LEMMA FiniteEntries ==
  ASSUME ServiceInv, OutcomeInv, IsFiniteSet(entries), [Next]_vars
  PROVE  IsFiniteSet(entries)'
  <1>s. \A S : S \subseteq entries => IsFiniteSet(S)
    BY FS_Subset
  <1>c. ASSUME NEW from, NEW to PROVE IsFiniteSet(Copies(entries, from, to))
    <2> DEFINE f == [x \in Under(entries, from) |-> [x EXCEPT !.repo = to]]
    <2>1. IsFiniteSet(Under(entries, from))
      BY <1>s DEF Under
    <2>2. Copies(entries, from, to) = {f[x] : x \in Under(entries, from)}
      BY DEF Copies
    <2>3. f \in [Under(entries, from) -> Copies(entries, from, to)]
      BY DEF Copies
    <2> HIDE DEF f
    <2>4. QED
      BY <2>1, <2>2, <2>3, FiniteImage
  <1>1. ASSUME NEW t \in Threads, Begins(t) \/ Step(t) PROVE IsFiniteSet(entries')
    <2>1. CASE AddEntry(t)
      <3>1. PICK x \in pkgs :
                entries' = (entries \ OfName(At(t), NameOf[x.up])) \cup {Entry(At(t), x.up)}
        BY <2>1 DEF AddEntry, ListPackage
      <3>2. IsFiniteSet(entries \ OfName(At(t), NameOf[x.up]))
        BY <1>s
      <3>3. QED
        BY <3>1, <3>2, FS_AddElement
    <2>2. CASE CopyTree(job[t].repo, temp[t])
      BY <2>2, <1>c, FS_Union DEF CopyTree
    <2>3. CASE MoveTree(temp[t], job[t].to)
      <3>1. entries' = Outside(entries, temp[t]) \cup Copies(entries, temp[t], job[t].to)
        BY <2>3 DEF MoveTree, Moved
      <3>2. IsFiniteSet(Outside(entries, temp[t]))
        BY <1>s DEF Outside
      <3>3. QED
        BY <1>c, <3>1, <3>2, FS_Union
    <2>4. ASSUME NEW d \in Unlabelled(t), entries' = Relabelled(entries, d, job[t].to)
          PROVE  IsFiniteSet(entries')
      <3> DEFINE f == [x \in entries |->
                          IF x.repo = d.repo /\ x.arch = d.arch /\ x.name = d.name
                          THEN [x EXCEPT !.name = job[t].to] ELSE x]
      <3>1. entries' = {f[x] : x \in entries}
        BY <2>4 DEF Relabelled
      <3>2. f \in [entries -> entries']
        BY <2>4 DEF Relabelled
      <3> HIDE DEF f
      <3>3. QED
        BY <3>1, <3>2, FiniteImage
    <2>5. \/ AddEntry(t) \/ CopyTree(job[t].repo, temp[t]) \/ MoveTree(temp[t], job[t].to)
          \/ \E d \in Unlabelled(t) : entries' = Relabelled(entries, d, job[t].to)
          \/ entries' \subseteq entries
      BY <1>1, StepEntries DEF Outside
    <2>6. QED
      BY <1>s, <2>1, <2>2, <2>3, <2>4, <2>5
  <1>2. CASE \E process \in Processes : Crash(process)
    BY <1>2 DEF Crash, database
  <1>3. CASE Rest \/ UNCHANGED vars
    BY <1>3 DEF Rest, vars, disk, database
  <1>4. QED
    BY <1>1, <1>2, <1>3 DEF Next

(* The names that one database lists, out of all the entries.              *)
NamesIn(E, place) ==
    {NameOf[e.up] : e \in {x \in E : /\ x.repo = place.repo /\ x.arch = place.arch
                                    /\ x.name = place.repo}}

LEMMA FiniteNames ==
  ASSUME NEW E, IsFiniteSet(E), E \subseteq Entries, NEW place
  PROVE  IsFiniteSet(NamesIn(E, place)) /\ NamesIn(E, place) \subseteq Names
  <1> DEFINE listed == {x \in E : /\ x.repo = place.repo /\ x.arch = place.arch
                                  /\ x.name = place.repo}
             f == [e \in listed |-> NameOf[e.up]]
  <1>1. IsFiniteSet(listed)
    <2>1. listed \subseteq E
      OBVIOUS
    <2>2. QED
      BY <2>1, FS_Subset
  <1>2. NamesIn(E, place) = {f[e] : e \in listed}
    BY DEF NamesIn
  <1>3. f \in [listed -> NamesIn(E, place)]
    BY <1>2
  <1>4. \A e \in listed : f[e] \in Names
    BY DEF Entries, Names
  <1> HIDE DEF listed, f
  <1>5. QED
    BY <1>1, <1>2, <1>3, <1>4, FiniteImage

(* The names a walk goes over, before and after a step.                    *)
LEMMA WalkedFinite ==
  ASSUME ServiceInv, OutcomeInv, IsFiniteSet(entries), [Next]_vars
  PROVE  /\ IsFiniteSet(WalkedNames) /\ WalkedNames \subseteq Names
         /\ IsFiniteSet(WalkedNames') /\ WalkedNames' \subseteq Names
  <1> DEFINE place == [repo |-> query.repo, arch |-> query.arch]
  <1>1. WalkedNames = NamesIn(entries, place)
    BY DEF WalkedNames, NamesAt, Listing, In, NamesIn
  <1>2. WalkedNames' = NamesIn(entries', place')
    BY DEF WalkedNames, NamesAt, Listing, In, NamesIn
  <1>3. entries \subseteq Entries
    BY DEF ServiceInv, ControlInv, TypeOK
  <1>4. entries' \subseteq Entries
    BY ServiceInductive DEF ServiceInv, ControlInv, TypeOK
  <1>5. IsFiniteSet(entries')
    BY FiniteEntries
  <1>6. QED
    BY <1>1, <1>2, <1>3, <1>4, <1>5, FiniteNames

-----------------------------------------------------------------------------
(* Positions in a sorted list of names, and the pages of it.               *)

Upto(n, S) == {m \in S : Rank[m] <= Rank[n]}

LEMMA RanksDiffer ==
  /\ \A n \in Names : Rank[n] \in Nat
  /\ \A m, n \in Names : Rank[m] = Rank[n] => m = n
  BY QueryAssumption

LEMMA PositionType ==
  ASSUME NEW S, IsFiniteSet(S), S \subseteq Names, NEW n
  PROVE  /\ IsFiniteSet(Upto(n, S)) /\ Position(n, S) = Cardinality(Upto(n, S))
         /\ Position(n, S) \in 0 .. Cardinality(S) /\ Cardinality(S) \in Nat
         /\ n \in S => Position(n, S) > 0
  <1>1. Upto(n, S) \subseteq S /\ Position(n, S) = Cardinality(Upto(n, S))
    BY DEF Upto, Position
  <1>2. IsFiniteSet(Upto(n, S)) /\ Cardinality(Upto(n, S)) <= Cardinality(S)
    BY <1>1, FS_Subset
  <1>3. Cardinality(S) \in Nat /\ Cardinality(Upto(n, S)) \in Nat
    BY <1>2, FS_CardinalityType
  <1>4. n \in S => Upto(n, S) # {}
    BY RanksDiffer DEF Upto
  <1>5. Upto(n, S) # {} => Cardinality(Upto(n, S)) # 0
    BY <1>2, FS_EmptySet
  <1>6. QED
    BY <1>1, <1>2, <1>3, <1>4, <1>5

(* A name moves on when others come, and back when others go.              *)
LEMMA PositionGrows ==
  ASSUME NEW S, NEW T, IsFiniteSet(T), T \subseteq Names, S \subseteq T, NEW n
  PROVE  Position(n, S) <= Position(n, T)
  <1>1. Upto(n, S) \subseteq Upto(n, T)
    BY DEF Upto
  <1>2. IsFiniteSet(S) /\ IsFiniteSet(Upto(n, T))
    BY FS_Subset, PositionType
  <1>3. QED
    BY <1>1, <1>2, FS_Subset, PositionType

LEMMA PositionsDiffer ==
  ASSUME NEW S, IsFiniteSet(S), S \subseteq Names, NEW m \in S, NEW n \in S,
         Position(m, S) = Position(n, S)
  PROVE  m = n
  <1>1. ASSUME NEW x \in S, NEW y \in S, Rank[x] <= Rank[y], Position(x, S) = Position(y, S)
        PROVE  x = y
    <2>1. Upto(x, S) \subseteq Upto(y, S)
      <3>1. \A z \in S : Rank[z] \in Nat
        BY RanksDiffer
      <3>2. QED
        BY <1>1, <3>1 DEF Upto
    <2>2. Upto(x, S) = Upto(y, S)
      BY <1>1, <2>1, FS_Subset, PositionType
    <2>3. Rank[y] <= Rank[x]
      BY <2>2, RanksDiffer DEF Upto
    <2>4. QED
      BY <1>1, <2>3, RanksDiffer
  <1>2. Rank[m] <= Rank[n] \/ Rank[n] <= Rank[m]
    BY RanksDiffer
  <1>3. QED
    BY <1>1, <1>2

(* There is a name at each position.                                       *)
LEMMA PositionsFilled ==
  ASSUME NEW S, IsFiniteSet(S), S \subseteq Names, NEW k \in 1 .. Cardinality(S)
  PROVE  \E n \in S : Position(n, S) = k
  <1> DEFINE f == [n \in S |-> Position(n, S)]
  <1>1. f \in Injection(S, 1 .. Cardinality(S))
    <2>1. f \in [S -> 1 .. Cardinality(S)]
      BY PositionType
    <2>2. \A m, n \in S : f[m] = f[n] => m = n
      BY PositionsDiffer
    <2>3. QED
      BY <2>1, <2>2 DEF Injection, IsInjective
  <1>2. Cardinality(S) \in Nat
    BY FS_CardinalityType
  <1>3. IsFiniteSet(1 .. Cardinality(S)) /\ Cardinality(1 .. Cardinality(S)) = Cardinality(S)
    BY <1>2, FS_Interval
  <1>4. f \in Surjection(S, 1 .. Cardinality(S))
    <2> HIDE DEF f
    <2>1. QED
      BY <1>1, <1>3, FS_Injection
  <1>5. PICK n \in S : f[n] = k
    BY <1>4 DEF Surjection
  <1>6. QED
    BY <1>5

(* A page that is not full is the last one.                                *)
LEMMA LastPage ==
  ASSUME NEW S, IsFiniteSet(S), S \subseteq Names, NEW from \in Nat,
         Cardinality(Page(S, from)) < PageSize
  PROVE  \A n \in S : Position(n, S) <= from + PageSize
  <1> SUFFICES ASSUME NEW last \in S, Position(last, S) > from + PageSize
               PROVE  FALSE
    BY PositionType, QueryAssumption
  <1> DEFINE f == [n \in Page(S, from) |-> Position(n, S)]
             slots == from + 1 .. from + PageSize
  <1>1. PageSize \in Nat \ {0}
    BY QueryAssumption
  <1>2. Page(S, from) \subseteq S
    BY DEF Page
  <1>3. IsFiniteSet(slots) /\ Cardinality(slots) = PageSize
    BY <1>1, FS_Interval
  <1>4. from + PageSize <= Cardinality(S)
    BY <1>1, PositionType
  <1>5. f \in [Page(S, from) -> slots]
    BY DEF Page
  <1>6. ASSUME NEW k \in slots PROVE \E n \in Page(S, from) : f[n] = k
    <2>1. k \in 1 .. Cardinality(S)
      BY <1>1, <1>4, PositionType
    <2>2. PICK n \in S : Position(n, S) = k
      BY <2>1, PositionsFilled
    <2>3. n \in Page(S, from)
      BY <2>2 DEF Page
    <2>4. QED
      BY <2>2, <2>3
  <1>7. f \in Surjection(Page(S, from), slots)
    BY <1>5, <1>6 DEF Surjection
  <1>8. IsFiniteSet(Page(S, from))
    BY <1>2, FS_Subset
  <1> HIDE DEF f, slots
  <1>9. Cardinality(slots) <= Cardinality(Page(S, from))
    BY <1>7, <1>8, FS_Surjection
  <1>10. Cardinality(Page(S, from)) \in Nat
    BY <1>8, FS_CardinalityType
  <1>11. QED
    BY <1>1, <1>3, <1>9, <1>10

-----------------------------------------------------------------------------
(* The walk.                                                               *)

(* What the names were counted to be when a page has come.                 *)
LEMMA FetchCounts ==
  ASSUME QueryInv, [QueryNext]_queryVars, Fetch,
         IsFiniteSet(WalkedNames), WalkedNames \subseteq Names
  PROVE  /\ ~went' =>
                \A n \in lasting' :
                    n \in WalkedNames /\
                    (count'[n] > 0 \/ Position(n, WalkedNames) > offset + PageSize)
         /\ ~came' =>
                \A n \in Names :
                    /\ count'[n] < 2
                    /\ count'[n] = 1 /\ n \in WalkedNames =>
                           Position(n, WalkedNames) <= offset + PageSize
  <1>1. /\ call = "fetch" /\ query.kind = "walk" /\ Present(query) = WalkedNames
        /\ count \in [Names -> 0..2] /\ offset \in Nat /\ PageSize \in Nat \ {0}
    BY QueryAssumption DEF QueryInv, QueryTypeOK, CallInv, Fetch, Present, WalkedNames
  <1>2. /\ lasting' \subseteq lasting /\ lasting \subseteq WalkedNames
        /\ (~went' => ~went) /\ (~came' => ~came)
    BY <1>1, Observed
  <1>3. count' = [n \in Names |->
                     IF n \in NextPage /\ count[n] < 2 THEN count[n] + 1 ELSE count[n]]
    BY DEF Fetch
  <1>4. \A n \in WalkedNames : Position(n, WalkedNames) \in Nat
    BY PositionType
  <1>5. \A n : n \in NextPage <=>
            /\ n \in WalkedNames
            /\ offset < Position(n, WalkedNames)
            /\ Position(n, WalkedNames) <= offset + PageSize
    BY <1>1, <1>4 DEF NextPage, Page, WalkedNames
  <1>6. WalkInv
    BY DEF QueryInv
  <1>7. ASSUME ~went', NEW n \in lasting'
        PROVE  /\ n \in WalkedNames
               /\ count'[n] > 0 \/ Position(n, WalkedNames) > offset + PageSize
    <2>1. n \in WalkedNames /\ n \in Names /\ count[n] \in 0..2
      BY <1>1, <1>2, <1>7
    <2>2. count[n] > 0 \/ Position(n, WalkedNames) > offset
      BY <1>1, <1>2, <1>6, <1>7 DEF WalkInv
    <2>3. CASE count[n] > 0
      BY <1>3, <2>1, <2>3
    <2>4. CASE ~(count[n] > 0) /\ n \in NextPage
      BY <1>3, <2>1, <2>4
    <2>5. CASE ~(count[n] > 0) /\ n \notin NextPage
      BY <1>1, <1>4, <1>5, <2>1, <2>2, <2>5
    <2>6. QED
      BY <2>1, <2>3, <2>4, <2>5
  <1>8. ASSUME ~came', NEW n \in Names
        PROVE  /\ count'[n] < 2
               /\ count'[n] = 1 /\ n \in WalkedNames =>
                      Position(n, WalkedNames) <= offset + PageSize
    <2>1. /\ count[n] \in 0..2 /\ count[n] < 2
          /\ (count[n] = 1 /\ n \in WalkedNames => Position(n, WalkedNames) <= offset)
      BY <1>1, <1>2, <1>6, <1>8 DEF WalkInv
    <2>2. CASE n \in NextPage
      <3>1. count[n] # 1
        BY <1>1, <1>4, <1>5, <2>1, <2>2
      <3>2. QED
        BY <1>3, <1>5, <2>1, <2>2, <3>1
    <2>3. CASE n \notin NextPage
      <3>1. count'[n] = count[n]
        BY <1>3, <2>3
      <3>2. QED
        BY <1>1, <1>4, <2>1, <3>1
    <2>4. QED
      BY <2>2, <2>3
  <1>9. QED
    BY <1>7, <1>8

LEMMA WalkStep ==
  ASSUME ServiceInv, OutcomeInv, IsFiniteSet(entries), QueryInv, [QueryNext]_queryVars
  PROVE  WalkInv'
  <1> SUFFICES ASSUME call' = "fetch" PROVE WalkInv'
    BY DEF WalkInv
  <1> USE DEF handler, client, Turn, Return, Scanned, AllListed
  <1>f. /\ IsFiniteSet(WalkedNames) /\ WalkedNames \subseteq Names
        /\ IsFiniteSet(WalkedNames') /\ WalkedNames' \subseteq Names
    BY ServiceSteps, WalkedFinite
  <1>t. QueryTypeOK /\ CallInv /\ WalkInv
    BY DEF QueryInv
  <1>p. \A n : Position(n, WalkedNames)' = Position(n, WalkedNames')
    BY DEF Position
  <1>n. \A n \in WalkedNames' : Position(n, WalkedNames') \in Nat /\ Position(n, WalkedNames') > 0
    BY <1>f, PositionType
  <1>o. \A n \in WalkedNames : Position(n, WalkedNames) \in Nat
    BY <1>f, PositionType
  <1>1. CASE UNCHANGED reader /\ call = "fetch"
    <2>1. UNCHANGED <<query, count, offset>> /\ offset \in Nat /\ query.kind = "walk"
      BY <1>t, <1>1 DEF reader, QueryTypeOK, CallInv
    <2>2. Present(query) = WalkedNames /\ Present(query)' = WalkedNames'
      BY <2>1 DEF Present, WalkedNames
    <2>3. ASSUME ~went', NEW n \in lasting'
          PROVE  count'[n] > 0 \/ Position(n, WalkedNames') > offset'
      <3>1. /\ ~went /\ n \in lasting /\ n \in WalkedNames /\ n \in WalkedNames'
            /\ WalkedNames \subseteq WalkedNames'
        BY <1>1, <2>2, <2>3, Observed
      <3>2. Position(n, WalkedNames) <= Position(n, WalkedNames')
        BY <1>f, <3>1, PositionGrows
      <3>3. count[n] > 0 \/ Position(n, WalkedNames) > offset
        BY <1>t, <1>1, <3>1 DEF WalkInv
      <3>4. QED
        BY <1>n, <1>o, <2>1, <3>1, <3>2, <3>3
    <2>4. ASSUME ~came', NEW n \in Names
          PROVE  /\ count'[n] < 2
                 /\ count'[n] = 1 /\ n \in WalkedNames' => Position(n, WalkedNames') <= offset'
      <3>1. ~came /\ WalkedNames' \subseteq WalkedNames
        BY <1>1, <2>2, <2>4, Observed
      <3>2. /\ count[n] < 2
            /\ (count[n] = 1 /\ n \in WalkedNames => Position(n, WalkedNames) <= offset)
        BY <1>t, <1>1, <3>1 DEF WalkInv
      <3>3. Position(n, WalkedNames') <= Position(n, WalkedNames)
        BY <1>f, <3>1, PositionGrows
      <3>4. QED
        BY <1>n, <1>o, <2>1, <3>1, <3>2, <3>3
    <2>5. QED
      BY <1>p, <2>3, <2>4 DEF WalkInv
  <1>2. CASE Ask
    <2>1. call = "idle" /\ query'.kind = "walk" /\ UNCHANGED <<count, offset>>
      BY <1>2, QueryAssumption DEF Ask, QueryKinds
    <2>2. offset' = 0 /\ count' = [n \in Names |-> 0]
      BY <1>t, <2>1 DEF CallInv
    <2>3. lasting' = WalkedNames'
      <3>1. lasting' = Present(query)'
        BY <2>1, Observed
      <3>2. Present(query)' = WalkedNames'
        BY <2>1 DEF Present, WalkedNames
      <3>3. QED
        BY <3>1, <3>2
    <2>4. \A n \in lasting' : Position(n, WalkedNames') > offset'
      BY <1>n, <2>2, <2>3
    <2>5. \A n \in Names : count'[n] = 0
      BY <2>2
    <2>6. QED
      BY <1>p, <2>4, <2>5 DEF WalkInv
  <1>3. CASE Fetch
    <2>1. offset' = offset + PageSize
      BY <1>3 DEF Fetch, NextOffset
    <2>2. WalkedNames' = WalkedNames
      BY <1>3 DEF Fetch, WalkedNames, NamesAt, Listing, In, vars, disk, database
    <2>3. QED
      BY <1>f, <1>p, <1>3, <2>1, <2>2, FetchCounts DEF WalkInv
  <1>4. CASE UNCHANGED reader /\ call # "fetch"
    BY <1>4 DEF reader
  <1>5. CASE QueryFails \/ ReadRoot \/ ReadRepository \/ Lstat \/ ReportRepository \/ ReturnRepositories
    BY <1>5 DEF QueryFails, ReadRoot, ReadRepository, Lstat, ReportRepository, ReadContents,
       ReturnRepositories
  <1>6. CASE ListArchitecture \/ LinkSignature \/ ReturnPage \/ Download \/ LeavePage
    BY <1>6 DEF ListArchitecture, LinkSignature, ReturnPage, Download, LeavePage
  <1>7. QED
    BY <1>1, <1>2, <1>3, <1>4, <1>5, <1>6 DEF QueryNext, QueryStep, queryVars

-----------------------------------------------------------------------------
(* What a query returns.                                                   *)

LEMMA ListsStep ==
  ASSUME QueryInv, [QueryNext]_queryVars
  PROVE  ListsWhatLasts'
  <1> USE DEF handler, client, Turn, Return, Scanned, AllListed, Answered
  <1>t. CallInv /\ RepositoriesInv /\ PageInv /\ ListsWhatLasts
    BY DEF QueryInv, AnswerInv
  <1>h. call # "idle" => UNCHANGED query /\ lasting' \subseteq lasting
    BY Observed DEF history
  <1>1. CASE UNCHANGED reader \/ Download \/ LeavePage
    <2>1. UNCHANGED <<query, answer, outcome>>
      BY <1>1 DEF reader, Download, LeavePage
    <2>2. CASE call = "idle"
      BY <1>t, <2>1, <2>2 DEF CallInv, ListsWhatLasts
    <2>3. CASE call # "idle"
      BY <1>t, <1>h, <2>1, <2>3 DEF ListsWhatLasts
    <2>4. QED
      BY <2>2, <2>3
  <1>2. CASE Ask \/ ReadRoot \/ ReadRepository \/ Lstat \/ ListArchitecture \/ LinkSignature
    BY <1>t, <1>2 DEF Ask, ReadRoot, ReadRepository, Lstat, ListArchitecture, LinkSignature,
       CallInv, ListsWhatLasts
  <1>3. CASE ReportRepository \/ QueryFails
    BY <1>t, <1>3 DEF ReportRepository, ReadContents, QueryFails, CallInv, ListsWhatLasts
  <1>4. CASE ReturnRepositories
    <2>1. /\ query.kind = "repositories" /\ names = {} /\ call = "next"
          /\ UNCHANGED <<query, answer>>
      BY <1>4 DEF ReturnRepositories
    <2>2. /\ \A r \in Repos, a \in Archs :
                 <<"database", r, a>> \in lasting' =>
                     \E x \in answer : x.repo = r /\ a \in x.archs
          /\ \A r \in Repos :
                 <<"empty", r>> \in lasting' => \E x \in answer : x.repo = r
      BY <1>t, <1>h, <2>1 DEF RepositoriesInv
    <2>3. QED
      BY <2>1, <2>2 DEF ListsWhatLasts
  <1>5. CASE ReturnPage
    <2>1. /\ query.kind = "page" /\ call = "scan" /\ todo = {} /\ found = {}
          /\ UNCHANGED <<query, answer>>
      BY <1>5 DEF ReturnPage
    <2>2. \A a \in Archs, u \in Packages :
              <<"listed", a, u>> \in lasting' => \E x \in answer : x.arch = a /\ x.up = u
      BY <1>t, <1>h, <2>1 DEF PageInv
    <2>3. QED
      BY <2>1, <2>2 DEF ListsWhatLasts
  <1>6. CASE Fetch
    BY <1>t, <1>h, <1>6 DEF Fetch, CallInv, ListsWhatLasts
  <1>7. QED
    BY <1>1, <1>2, <1>3, <1>4, <1>5, <1>6 DEF QueryNext, QueryStep, queryVars

LEMMA FailsStep ==
  ASSUME QueryInv, [QueryNext]_queryVars
  PROVE  FailsOnlyIf'
  <1> USE DEF handler, client, Turn, Return, Scanned, AllListed
  <1>t. CallInv /\ RepositoriesInv /\ FailsOnlyIf
    BY DEF QueryInv, AnswerInv
  <1>1. CASE UNCHANGED reader
    <2>1. CASE call = "done"
      BY <1>t, <1>1, <2>1, Observed DEF FailsOnlyIf, reader, history
    <2>2. CASE call # "done"
      BY <1>t, <1>1, <2>2 DEF FailsOnlyIf, reader, CallInv
    <2>3. QED
      BY <2>1, <2>2
  <1>2. CASE ReportRepository
    <2>1. SUFFICES ASSUME outcome' = "gone" PROVE FailsOnlyIf'
      BY DEF FailsOnlyIf
    <2>2. /\ call = "scan" /\ query.kind = "repositories" /\ UNCHANGED query
          /\ current \notin dirs
      BY <1>t, <1>2, <2>1 DEF ReportRepository, ReadContents, CallInv
    <2>3. went'
      BY <1>t, <2>2, Observed DEF RepositoriesInv
    <2>4. QED
      BY <2>2, <2>3 DEF FailsOnlyIf
  <1>3. CASE Ask \/ ReadRoot \/ ReadRepository \/ Lstat \/ ListArchitecture \/ LinkSignature
    BY <1>t, <1>3 DEF Ask, ReadRoot, ReadRepository, Lstat, ListArchitecture, LinkSignature,
       CallInv, FailsOnlyIf
  <1>4. CASE ReturnRepositories \/ ReturnPage \/ Download \/ LeavePage \/ Fetch \/ QueryFails
    BY <1>t, <1>4 DEF ReturnRepositories, ReturnPage, Download, LeavePage, Fetch, QueryFails,
       CallInv, FailsOnlyIf
  <1>5. QED
    BY <1>1, <1>2, <1>3, <1>4 DEF QueryNext, QueryStep, queryVars

LEMMA DownloadStep ==
  ASSUME ServiceInv, QueryInv, [QueryNext]_queryVars
  PROVE  DownloadsWhatIsListed'
  <1> USE DEF handler, client, Turn, Return, Scanned, AllListed
  <1>t. CallInv /\ PageInv /\ DownloadsWhatIsListed
    BY DEF QueryInv, AnswerInv
  <1>1. CASE UNCHANGED reader
    <2>1. CASE call = "done"
      BY <1>t, <1>1, <2>1, Observed DEF DownloadsWhatIsListed, reader, history
    <2>2. CASE call # "done"
      BY <1>t, <1>1, <2>2 DEF DownloadsWhatIsListed, reader, CallInv
    <2>3. QED
      BY <2>1, <2>2
  <1>2. CASE Download
    <2>1. query.kind = "page" /\ current = query.repo /\ call = "download"
      BY <1>t, <1>2 DEF Download, CallInv, PageInv
    <2>2. PICK row \in answer :
              \E got \in IF AtPath(FileOfRow(row)) = {} THEN {None} ELSE AtPath(FileOfRow(row)) :
                  served' = [arch |-> row.arch, up |-> row.up, got |-> got]
      BY <1>2 DEF Download
    <2>3. PICK got \in IF AtPath(FileOfRow(row)) = {} THEN {None} ELSE AtPath(FileOfRow(row)) :
              served' = [arch |-> row.arch, up |-> row.up, got |-> got]
      BY <2>2
    <2>4. SUFFICES ASSUME <<"whole", row.arch, row.up>> \in lasting'
                   PROVE  got = row.up
      BY <2>3 DEF DownloadsWhatIsListed
    <2>5. <<"whole", row.arch, row.up>> \in Present(query)
      BY <2>1, <2>4, Observed
    <2>6. PICK e \in entries :
              /\ e.repo = query.repo /\ e.name = query.repo /\ e.arch = row.arch
              /\ e.up = row.up /\ PlaceOf(e) \notin torn
      BY <2>1, <2>5, WholeEntry
    <2>7. FileOfEntry(e) = FileOfRow(row) /\ FileOfRow(row) \in pkgs
      BY <2>1, <2>6 DEF FileOfEntry, FileOfRow, ServiceInv, DiskInv, DatabaseBacked
    <2>8. \A f \in pkgs : SamePath(f, FileOfRow(row)) => f = FileOfRow(row)
      BY <2>7 DEF ServiceInv, DiskInv, PathsUnique
    <2>9. AtPath(FileOfRow(row)) = {row.up}
      <3>1. SamePath(FileOfRow(row), FileOfRow(row)) /\ FileOfRow(row).up = row.up
        BY DEF SamePath, FileOfRow
      <3>2. {f \in pkgs : SamePath(f, FileOfRow(row))} = {FileOfRow(row)}
        BY <2>7, <2>8, <3>1
      <3>3. QED
        BY <3>1, <3>2 DEF AtPath
    <2>10. QED
      BY <2>3, <2>9
  <1>3. CASE Ask \/ ReadRoot \/ ReadRepository \/ Lstat \/ ListArchitecture \/ LinkSignature
    BY <1>t, <1>3 DEF Ask, ReadRoot, ReadRepository, Lstat, ListArchitecture, LinkSignature,
       CallInv, DownloadsWhatIsListed
  <1>4. CASE ReturnRepositories \/ ReturnPage \/ LeavePage \/ Fetch \/ QueryFails \/ ReportRepository
    BY <1>t, <1>4 DEF ReturnRepositories, ReturnPage, LeavePage, Fetch, QueryFails,
       ReportRepository, CallInv, DownloadsWhatIsListed
  <1>5. QED
    BY <1>1, <1>2, <1>3, <1>4 DEF QueryNext, QueryStep, queryVars

LEMMA WalkErrsStep ==
  ASSUME ServiceInv, OutcomeInv, IsFiniteSet(entries), QueryInv, [QueryNext]_queryVars
  PROVE  WalkErrsOnlyIf'
  <1> USE DEF handler, client, Turn, Return, Scanned, AllListed, Answered
  <1>t. QueryTypeOK /\ CallInv /\ WalkErrsOnlyIf
    BY DEF QueryInv, AnswerInv
  <1>1. CASE UNCHANGED reader
    <2>1. CASE call = "done"
      BY <1>t, <1>1, <2>1, Observed DEF WalkErrsOnlyIf, reader, history
    <2>2. CASE call # "done"
      BY <1>t, <1>1, <2>2 DEF WalkErrsOnlyIf, reader, CallInv
    <2>3. QED
      BY <2>1, <2>2
  <1>2. CASE Fetch
    <2>1. SUFFICES ASSUME outcome' = "ok" PROVE WalkErrsOnlyIf'
      BY DEF WalkErrsOnlyIf
    <2>2. Cardinality(NextPage) < PageSize /\ offset \in Nat
      BY <1>t, <1>2, <2>1 DEF Fetch, CallInv, QueryTypeOK
    <2>3. IsFiniteSet(WalkedNames) /\ WalkedNames \subseteq Names
      BY ServiceSteps, WalkedFinite
    <2>4. \A n \in WalkedNames : Position(n, WalkedNames) <= offset + PageSize
      BY <2>2, <2>3, LastPage DEF NextPage, WalkedNames
    <2>5. \A n \in WalkedNames : Position(n, WalkedNames) \in Nat
      BY <2>3, PositionType
    <2>6. ASSUME ~went', NEW n \in lasting'
          PROVE  count'[n] > 0
      <3>1. /\ n \in WalkedNames
            /\ count'[n] > 0 \/ Position(n, WalkedNames) > offset + PageSize
        BY <1>2, <2>3, <2>6, FetchCounts
      <3>2. QED
        BY <2>2, <2>4, <2>5, <3>1, QueryAssumption
    <2>7. ~came' => \A n \in Names : count'[n] < 2
      BY <1>2, <2>3, FetchCounts
    <2>8. QED
      BY <2>6, <2>7 DEF WalkErrsOnlyIf
  <1>3. CASE Ask \/ ReadRoot \/ ReadRepository \/ Lstat \/ ListArchitecture \/ LinkSignature
    BY <1>t, <1>3 DEF Ask, ReadRoot, ReadRepository, Lstat, ListArchitecture, LinkSignature,
       CallInv, WalkErrsOnlyIf
  <1>4. CASE ReturnRepositories \/ ReturnPage \/ Download \/ LeavePage \/ QueryFails \/ ReportRepository
    BY <1>t, <1>4 DEF ReturnRepositories, ReturnPage, Download, LeavePage, QueryFails,
       ReportRepository, ReadContents, CallInv, WalkErrsOnlyIf
  <1>5. QED
    BY <1>1, <1>2, <1>3, <1>4 DEF QueryNext, QueryStep, queryVars

-----------------------------------------------------------------------------
LEMMA QueryInductive ==
  ASSUME ServiceInv, OutcomeInv, SignaturesFaithful, IsFiniteSet(entries), QueryInv,
         [QueryNext]_queryVars
  PROVE  QueryInv'
  BY QueryTypeStep, CallStep, HistoryStep, RepositoriesStep, PageStep, WalkStep, ListsStep,
     FailsStep, DownloadStep, WalkErrsStep DEF QueryInv, AnswerInv

(* Between any two system calls of a query, whatever the mutations do      *)
(* meanwhile, what it has put together accounts for everything that was    *)
(* there all the time (service.go:238-258, 370-459, server.go:140-250 and  *)
(* 392-451, client.go:294-319).                                            *)
THEOREM QueryInvariant == QuerySpec => []QueryInv
  <1>1. Init => IsFiniteSet(entries)
    BY FS_EmptySet DEF Init
  <1>2. ServiceInv /\ OutcomeInv /\ IsFiniteSet(entries) /\ [Next]_vars => IsFiniteSet(entries)'
    BY FiniteEntries
  <1>3. Spec => []IsFiniteSet(entries)
    BY <1>1, <1>2, ServiceInvariant, OutcomeInvariant, PTL DEF Spec
  <1>4. QueryInit => QueryInv
    BY QueryInitInv
  <1>5. ServiceInv /\ OutcomeInv /\ SignaturesFaithful /\ IsFiniteSet(entries) /\ QueryInv
            /\ [QueryNext]_queryVars => QueryInv'
    BY QueryInductive
  <1>6. QED
    BY <1>3, <1>4, <1>5, QueriesChangeNothing, ServiceInvariant, OutcomeInvariant,
       SignaturesFaithfulAlways, PTL DEF QuerySpec

(* The handlers' and the client's data have the types the code gives them  *)
(* (service.go:380-459, server.go:217-250, client.go:294-319).             *)
THEOREM QueryTypeCorrect == QuerySpec => []QueryTypeOK
  <1>1. QueryInv => QueryTypeOK
    BY DEF QueryInv
  <1>2. QED
    BY <1>1, QueryInvariant, PTL

(* A list of the repositories or of the packages of one has whatever was   *)
(* there from the first system call to the last, although nothing locks    *)
(* the tree in between (service.go:380-389, 398-459).                      *)
THEOREM ListsWhatLastsAlways == QuerySpec => []ListsWhatLasts
  <1>1. QueryInv => ListsWhatLasts
    BY DEF QueryInv, AnswerInv
  <1>2. QED
    BY <1>1, QueryInvariant, PTL

(* Only the list of the repositories fails because of a mutation, and only *)
(* because a repository went (service.go:415-418).                         *)
THEOREM FailsOnlyIfAlways == QuerySpec => []FailsOnlyIf
  <1>1. QueryInv => FailsOnlyIf
    BY DEF QueryInv, AnswerInv
  <1>2. QED
    BY <1>1, QueryInvariant, PTL

(* The page links the signatures there are: while nothing fails, of every  *)
(* package that was listed all the time (server.go:217-250).               *)
THEOREM SignatureLinksAlways == QuerySpec => []SignatureLinks
  <1>1. QueryInv => SignatureLinks
    <2> SUFFICES ASSUME QueryInv, Answered("page"), Undisturbed, NEW row \in answer,
                        <<"whole", row.arch, row.up>> \in lasting
                 PROVE  (row.link = "shown") = (row.up \in Signed)
      BY DEF SignatureLinks
    <2>1. PageInv /\ query.kind = "page"
      BY DEF QueryInv, Answered
    <2>2. row.link # "unknown"
      BY <2>1 DEF PageInv, Answered
    <2>3. QED
      BY <2>1, <2>2 DEF PageInv
  <1>2. QED
    BY <1>1, QueryInvariant, PTL

(* What the page shows can be downloaded as long as it is listed, and is   *)
(* the archive it was shown for (server.go:392-419).                       *)
THEOREM DownloadsWhatIsListedAlways == QuerySpec => []DownloadsWhatIsListed
  <1>1. QueryInv => DownloadsWhatIsListed
    BY DEF QueryInv, AnswerInv
  <1>2. QED
    BY <1>1, QueryInvariant, PTL

(* Client.List misses a package only if one went while it turned the       *)
(* pages, and has one twice only if one came (client.go:294-319).          *)
THEOREM WalkErrsOnlyIfAlways == QuerySpec => []WalkErrsOnlyIf
  <1>1. QueryInv => WalkErrsOnlyIf
    BY DEF QueryInv, AnswerInv
  <1>2. QED
    BY <1>1, QueryInvariant, PTL

-----------------------------------------------------------------------------
(* The repositories a list can find.  Publish makes an architecture        *)
(* directory before its database is made, and RemoveAll removes the        *)
(* database before the directory; in between the request is working on it. *)
(* That a publication may refuse a file name without leaving such a        *)
(* directory behind takes more: a file that is there has been listed once. *)

Made(place) == \E d \in dbs : PlaceOf(d) = place

Prepares(t, place) ==
    \/ pc[t] \in {"stat", "install"} /\ At(t) = place /\ In(pkgs, place) = {}
    \/ pc[t] \in {"sign", "add"} /\ At(t) = place
    \/ pc[t] = "purge" /\ job[t].repo = place.repo

Accounted(place) == Made(place) \/ \E t \in Threads : Prepares(t, place)

DatabasesMade == Undisturbed => \A place \in archDirs : Accounted(place)

LEMMA PreparesWrites ==
  ASSUME NEW t, NEW place, Prepares(t, place)
  PROVE  \/ pc[t] \in PairWriters /\ At(t) = place
         \/ pc[t] \in LifecycleWriters /\ pc[t] = "purge"
  BY DEF Prepares, PairWriters, PublishCalls, LifecycleWriters, LifecycleCalls

(* Nobody else is working where a thread is.                               *)
LEMMA AloneAt ==
  ASSUME ControlInv, NEW t \in Threads, NEW place, Accounted(place),
         (pc[t] \in PairWriters /\ At(t) = place) \/ pc[t] \in LifecycleWriters
  PROVE  Made(place) \/ Prepares(t, place)
  <1>1. ASSUME NEW u \in Threads, Prepares(u, place), u # t PROVE FALSE
    BY <1>1, PreparesWrites, WritersExclude
  <1>2. QED
    BY <1>1 DEF Accounted

LEMMA OthersPrepare ==
  ASSUME ControlInv, NEW t \in Threads, Begins(t) \/ Step(t), NEW u \in Threads, u # t,
         NEW place \in Places, Prepares(u, place)
  PROVE  Prepares(u, place)'
  <1>1. pc'[u] = pc[u] /\ job'[u] = job[u] /\ At(u)' = At(u)
    BY StepsAreLocal DEF OthersAlone, At
  <1>2. In(pkgs', place) \subseteq In(pkgs, place)
        \/ pc[u] \notin {"stat", "install"}
    <2>1. CASE UNCHANGED disk
      BY <2>1 DEF disk, files
    <2>2. CASE pc[t] \in PairWriters /\ PairStep(t)
      <3>1. CASE pc[u] \in PairWriters /\ At(u) = place
        <4>1. At(t) # place
          BY <2>2, <3>1, WritersExclude
        <4>2. QED
          BY <2>2, <4>1 DEF PairStep
      <3>2. QED
        BY <3>1, PreparesWrites
    <2>3. CASE pc[t] \in LifecycleWriters
      BY <2>3, PreparesWrites, WritersExclude
    <2>4. QED
      BY <2>1, <2>2, <2>3, StepScope
  <1>3. QED
    BY <1>1, <1>2 DEF Prepares

(* A step that removes no database has only to answer for its own thread.  *)
LEMMA KeepsAccounted ==
  ASSUME ControlInv, NEW t \in Threads, Begins(t) \/ Step(t), NEW place \in Places,
         Accounted(place), dbs \subseteq dbs',
         Prepares(t, place) => Accounted(place)'
  PROVE  Accounted(place)'
  <1>1. CASE Made(place)
    BY <1>1 DEF Accounted, Made
  <1>2. CASE Prepares(t, place)
    BY <1>2
  <1>3. ASSUME NEW u \in Threads, u # t, Prepares(u, place)
        PROVE  Accounted(place)'
    BY <1>3, OthersPrepare DEF Accounted
  <1>4. QED
    BY <1>1, <1>2, <1>3 DEF Accounted

LEMMA StepPlaces ==
  ASSUME ControlInv, NEW t \in Threads, Begins(t) \/ Step(t)
  PROVE  \/ /\ dbs \subseteq dbs' /\ archDirs' \subseteq archDirs
            /\ pc[t] \notin {"stat", "install", "sign", "add", "purge"}
         \/ MakeDirectory(t) \/ StatDestination(t) \/ InstallPackage(t)
         \/ InstallSignature(t) \/ AddEntry(t) \/ AddFails(t)
         \/ CopySnapshot(t) \/ RelabelDatabase(t) \/ InstallSnapshot(t)
         \/ DiscardSnapshot(t) \/ PurgeFile(t) \/ PurgeArchitecture(t) \/ PurgeRepository(t)
  <1> USE DEF Go, Proceed, Refuse, Begin, RefuseRequest, disk, folders, database
  <1>1. CASE Begins(t)
    BY <1>1 DEF Begins, BeginUpload, BeginRemove, BeginLifecycle
  <1>2. CASE PublishStep(t)
    BY <1>2 DEF PublishStep, ReceiveUpload, LockForPublish, Inspect, UndoPackage,
       UndoSignature, Cleanup
  <1>3. CASE RemoveStep(t)
    BY <1>3 DEF RemoveStep, LockForRemove, FindPackage, RemoveEntry, DelistPackage,
       RemoveEntryFails, Cancel, RemoveFile, RemoveSignature
  <1>4. CASE LifecycleStep(t)
    BY <1>4 DEF LifecycleStep, LockForLifecycle, Create, CheckRename, MakeSnapshot,
       CheckRepository
  <1>5. CASE Unlock(t)
    BY <1>5 DEF Unlock
  <1>6. QED
    BY <1>1, <1>2, <1>3, <1>4, <1>5 DEF Step

LEMMA PublishAccounted ==
  ASSUME ServiceInv, OutcomeInv, Undisturbed, faults' = faults,
         \A p \in archDirs : Accounted(p), NEW t \in Threads, Begins(t) \/ Step(t),
         \/ MakeDirectory(t) \/ StatDestination(t) \/ InstallPackage(t)
         \/ InstallSignature(t) \/ AddEntry(t) \/ AddFails(t),
         NEW place \in archDirs'
  PROVE  Accounted(place)'
  <1> USE DEF Go
  <1>c. ControlInv
    BY DEF ServiceInv
  <1>f. ~Fault /\ cmdLocks = {}
    BY DEF Fault, ServiceInv, ControlInv, TypeOK, OutcomeInv, Quiet, Untroubled
  <1>a. pc \in [Threads -> Calls] /\ archDirs \subseteq Places
    BY DEF ServiceInv, ControlInv, TypeOK
  <1>1. CASE MakeDirectory(t)
    <2>1. /\ archDirs' = archDirs \cup {At(t)} /\ pc[t] = "mkdir" /\ pc'[t] = "stat"
          /\ UNCHANGED <<dbs, pkgs, job>>
      BY <1>a, <1>f, <1>1 DEF MakeDirectory, files, database, context, request
    <2>2. CASE place \in archDirs
      <3>1. ~Prepares(t, place)
        BY <2>1 DEF Prepares
      <3>2. QED
        BY <1>a, <1>c, <2>1, <2>2, <3>1, KeepsAccounted
    <2>3. CASE place \notin archDirs
      <3>1. place = At(t) /\ At(t)' = At(t)
        BY <2>1, <2>3 DEF At
      <3>2. In(pkgs, place) = {}
        <4>1. ASSUME NEW x \in pkgs, x.repo = place.repo, x.arch = place.arch
              PROVE  PlaceOf(x) = place
          BY <3>1, <4>1 DEF PlaceOf, At
        <4>2. \A x \in pkgs : PlaceOf(x) \in archDirs
          BY DEF ServiceInv, DiskInv, TreeShape
        <4>3. QED
          BY <2>3, <4>1, <4>2 DEF In
      <3>3. Prepares(t, place)'
        BY <2>1, <3>1, <3>2 DEF Prepares
      <3>4. QED
        BY <3>3 DEF Accounted
    <2>4. QED
      BY <2>2, <2>3
  <1>2. CASE StatDestination(t)
    <2>1. /\ pc[t] = "stat" /\ UNCHANGED <<archDirs, dbs, pkgs, job>>
          /\ (pc'[t] = "install" \/ FileExists(t))
      BY <1>a, <1>f, <1>2 DEF StatDestination, Proceed, Refuse, disk, folders, files, database,
         context, request
    <2>2. At(t)' = At(t)
      BY <2>1 DEF At
    <2>3. ASSUME Prepares(t, place) PROVE Accounted(place)'
      <3>1. At(t) = place /\ In(pkgs, place) = {}
        BY <2>1, <2>3 DEF Prepares
      <3>2. ~FileExists(t)
        BY <3>1 DEF FileExists, SamePath, File, At, In
      <3>3. Prepares(t, place)'
        BY <2>1, <2>2, <3>1, <3>2 DEF Prepares
      <3>4. QED
        BY <3>3 DEF Accounted
    <2>4. QED
      BY <1>a, <1>c, <2>1, <2>3, KeepsAccounted
  <1>3. CASE InstallPackage(t)
    <2>1. /\ pc[t] = "install" /\ UNCHANGED <<archDirs, dbs, job>> /\ pc'[t] \in {"sign", "add"}
      BY <1>a, <1>f, <1>3 DEF InstallPackage, AfterInstall, Refuse, folders, database, context,
         request
    <2>2. Prepares(t, place) => Prepares(t, place)'
      BY <2>1 DEF Prepares, At
    <2>3. QED
      BY <1>a, <1>c, <2>1, <2>2, KeepsAccounted DEF Accounted
  <1>4. CASE InstallSignature(t)
    <2>1. /\ pc[t] = "sign" /\ UNCHANGED <<archDirs, dbs, job>> /\ pc'[t] = "add"
      BY <1>a, <1>f, <1>4 DEF InstallSignature, folders, database, context, request
    <2>2. Prepares(t, place) => Prepares(t, place)'
      BY <2>1 DEF Prepares, At
    <2>3. QED
      BY <1>a, <1>c, <2>1, <2>2, KeepsAccounted DEF Accounted
  <1>5. CASE AddEntry(t)
    <2>1. /\ pc[t] = "add" /\ UNCHANGED archDirs /\ dbs' = dbs \cup {Database(At(t))}
      BY <1>5 DEF AddEntry, ListPackage, folders
    <2>2. ASSUME Prepares(t, place) PROVE Made(place)'
      <3>1. At(t) = place
        BY <2>1, <2>2 DEF Prepares
      <3>2. Database(At(t)) \in dbs' /\ PlaceOf(Database(At(t))) = At(t)
        BY <2>1 DEF Database, PlaceOf, At
      <3>3. QED
        BY <3>1, <3>2 DEF Made
    <2>3. QED
      BY <1>a, <1>c, <2>1, <2>2, KeepsAccounted DEF Accounted
  <1>6. CASE AddFails(t)
    BY <1>f, <1>6 DEF AddFails, Cancel, CommandLocked
  <1>7. QED
    BY <1>1, <1>2, <1>3, <1>4, <1>5, <1>6

LEMMA LifecycleAccounted ==
  ASSUME ServiceInv, OutcomeInv, Undisturbed, faults' = faults,
         \A p \in archDirs : Accounted(p), NEW t \in Threads, Begins(t) \/ Step(t),
         \/ CopySnapshot(t) \/ RelabelDatabase(t) \/ InstallSnapshot(t)
         \/ DiscardSnapshot(t) \/ PurgeFile(t) \/ PurgeArchitecture(t) \/ PurgeRepository(t),
         NEW place \in archDirs'
  PROVE  Accounted(place)'
  <1> USE DEF Go
  <1>c. ControlInv
    BY DEF ServiceInv
  <1>f. ~Fault
    BY DEF Fault, ServiceInv, ControlInv, TypeOK
  <1>a. /\ pc \in [Threads -> Calls] /\ archDirs \subseteq Places /\ archDirs' \subseteq Places
        /\ dbs \subseteq Databases
    BY ControlInductive DEF ServiceInv, ControlInv, TypeOK, Next
  <1>m. ASSUME pc[t] \in LifecycleWriters, pc[t] # "purge", NEW p \in archDirs
        PROVE  Made(p)
    BY <1>c, <1>m, AloneAt DEF Prepares, LifecycleWriters, LifecycleCalls
  <1>1. CASE CopySnapshot(t)
    <2>1. /\ pc[t] = "copy"
          /\ archDirs' = archDirs \cup Copies(archDirs, job[t].repo, temp[t])
          /\ dbs' = dbs \cup Copies(dbs, job[t].repo, temp[t])
      BY <1>f, <1>1 DEF CopySnapshot, CopyTree
    <2>2. \A p \in archDirs : Made(p)
      BY <1>m, <2>1 DEF LifecycleWriters, LifecycleCalls
    <2>3. CASE place \in archDirs
      BY <2>1, <2>2, <2>3 DEF Accounted, Made
    <2>4. CASE place \in Copies(archDirs, job[t].repo, temp[t])
      <3>1. PICK p \in archDirs : p.repo = job[t].repo /\ place = [p EXCEPT !.repo = temp[t]]
        BY <2>4 DEF Copies, Under
      <3>2. PICK d \in dbs : PlaceOf(d) = p
        BY <2>2, <3>1 DEF Made
      <3>3. [d EXCEPT !.repo = temp[t]] \in dbs'
        BY <2>1, <3>1, <3>2 DEF Copies, Under, PlaceOf
      <3>4. PlaceOf([d EXCEPT !.repo = temp[t]]) = place
        BY <1>a, <3>1, <3>2 DEF PlaceOf, Databases, Places
      <3>5. QED
        BY <3>3, <3>4 DEF Accounted, Made
    <2>5. QED
      BY <2>1, <2>3, <2>4
  <1>2. CASE RelabelDatabase(t)
    <2>1. PICK d \in Unlabelled(t) :
              dbs' = Relabelled(dbs, d, job[t].to)
      BY <1>f, <1>2 DEF RelabelDatabase
    <2>2. pc[t] = "relabel" /\ UNCHANGED archDirs
      BY <1>f, <1>2 DEF RelabelDatabase, folders
    <2>3. PICK b \in dbs : PlaceOf(b) = place
      BY <1>m, <2>2 DEF Made, LifecycleWriters, LifecycleCalls
    <2> DEFINE moved == IF b.repo = d.repo /\ b.arch = d.arch /\ b.name = d.name
                        THEN [b EXCEPT !.name = job[t].to] ELSE b
    <2>4. moved \in dbs'
      BY <2>1, <2>3 DEF Relabelled
    <2>5. PlaceOf(moved) = PlaceOf(b)
      BY <1>a DEF PlaceOf, Databases
    <2> HIDE DEF moved
    <2>6. QED
      BY <2>3, <2>4, <2>5 DEF Accounted, Made
  <1>3. CASE InstallSnapshot(t)
    <2>1. /\ pc[t] = "relabel"
          /\ archDirs' = Moved(archDirs, temp[t], job[t].to)
          /\ dbs' = Moved(dbs, temp[t], job[t].to)
      BY <1>f, <1>3 DEF InstallSnapshot, MoveTree
    <2>2. \A p \in archDirs : Made(p)
      BY <1>m, <2>1 DEF LifecycleWriters, LifecycleCalls
    <2>3. CASE place \in Outside(archDirs, temp[t])
      <3>1. PICK d \in dbs : PlaceOf(d) = place
        BY <2>2, <2>3 DEF Made, Outside
      <3>2. d \in dbs'
        BY <2>1, <2>3, <3>1 DEF Moved, Outside, PlaceOf
      <3>3. QED
        BY <3>1, <3>2 DEF Accounted, Made
    <2>4. CASE place \in Copies(archDirs, temp[t], job[t].to)
      <3>1. PICK p \in archDirs : p.repo = temp[t] /\ place = [p EXCEPT !.repo = job[t].to]
        BY <2>4 DEF Copies, Under
      <3>2. PICK d \in dbs : PlaceOf(d) = p
        BY <2>2, <3>1 DEF Made
      <3>3. [d EXCEPT !.repo = job[t].to] \in dbs'
        BY <2>1, <3>1, <3>2 DEF Moved, Copies, Under, PlaceOf
      <3>4. PlaceOf([d EXCEPT !.repo = job[t].to]) = place
        BY <1>a, <3>1, <3>2 DEF PlaceOf, Databases, Places
      <3>5. QED
        BY <3>3, <3>4 DEF Accounted, Made
    <2>5. QED
      BY <2>1, <2>3, <2>4 DEF Moved
  <1>4. CASE DiscardSnapshot(t)
    BY <1>4 DEF DiscardSnapshot, OutcomeInv, Quiet, Untroubled
  <1>5. CASE PurgeFile(t) \/ PurgeArchitecture(t)
    <2>1. /\ pc[t] = "purge" /\ pc'[t] = "purge" /\ UNCHANGED job /\ archDirs' \subseteq archDirs
          /\ \A d \in dbs : d.repo # job[t].repo => d \in dbs'
      BY <1>a, <1>5 DEF PurgeFile, PurgeArchitecture, folders, files, database, context, request,
         Under
    <2>2. CASE place.repo = job[t].repo
      <3>1. Prepares(t, place)'
        BY <2>1, <2>2 DEF Prepares
      <3>2. QED
        BY <3>1 DEF Accounted
    <2>3. CASE place.repo # job[t].repo
      <3>1. Made(place)
        <4>1. ~Prepares(t, place)
          BY <2>1, <2>3 DEF Prepares
        <4>2. QED
          BY <1>c, <2>1, <4>1, AloneAt DEF LifecycleWriters, LifecycleCalls
      <3>2. QED
        BY <2>1, <2>3, <3>1 DEF Accounted, Made, PlaceOf
    <2>4. QED
      BY <2>2, <2>3
  <1>6. CASE PurgeRepository(t)
    <2>1. /\ pc[t] = "purge" /\ UNCHANGED <<archDirs, dbs>> /\ Under(archDirs, job[t].repo) = {}
      BY <1>f, <1>6 DEF PurgeRepository, database
    <2>2. ~Prepares(t, place)
      BY <2>1 DEF Prepares, Under
    <2>3. QED
      BY <1>a, <1>c, <2>1, <2>2, KeepsAccounted
  <1>7. QED
    BY <1>1, <1>2, <1>3, <1>4, <1>5, <1>6

LEMMA DatabasesMadeStep ==
  ASSUME ServiceInv, OutcomeInv, DatabasesMade, [Next]_vars
  PROVE  DatabasesMade'
  <1> SUFFICES ASSUME Undisturbed' PROVE DatabasesMade'
    BY DEF DatabasesMade
  <1>c. ControlInv
    BY DEF ServiceInv
  <1>1. /\ Undisturbed /\ faults' = faults
        /\ (\E t \in Threads : Begins(t) \/ Step(t)) \/ UNCHANGED vars
    BY <1>c, UndisturbedBefore
  <1>2. \A p \in archDirs : Accounted(p)
    BY <1>1 DEF DatabasesMade
  <1>3. CASE UNCHANGED vars
    BY <1>2, <1>3 DEF vars, disk, folders, files, database, request, DatabasesMade,
       Accounted, Made, Prepares, At, In
  <1>4. ASSUME NEW t \in Threads, Begins(t) \/ Step(t), NEW place \in archDirs'
        PROVE  Accounted(place)'
    <2>1. CASE /\ dbs \subseteq dbs' /\ archDirs' \subseteq archDirs
               /\ pc[t] \notin {"stat", "install", "sign", "add", "purge"}
      <3>1. place \in archDirs /\ place \in Places /\ ~Prepares(t, place)
        BY <1>4, <2>1 DEF Prepares, ServiceInv, ControlInv, TypeOK
      <3>2. QED
        BY <1>c, <1>2, <1>4, <2>1, <3>1, KeepsAccounted
    <2>2. QED
      BY <1>c, <1>1, <1>2, <1>4, <2>1, StepPlaces, PublishAccounted, LifecycleAccounted
  <1>5. QED
    BY <1>1, <1>3, <1>4 DEF DatabasesMade

(* As long as nothing fails, a list of the repositories overlooks none but *)
(* those a request is working on (service.go:166-188, 414-421).            *)
THEOREM FoundWhenQuietAlways == QuerySpec => []FoundWhenQuiet
  <1>1. Init => DatabasesMade
    BY DEF Init, DatabasesMade
  <1>2. ServiceInv /\ OutcomeInv /\ DatabasesMade /\ [Next]_vars => DatabasesMade'
    BY DatabasesMadeStep
  <1>3. ServiceInv /\ DatabasesMade => FoundWhenQuiet
    <2> SUFFICES ASSUME ServiceInv, DatabasesMade, Undisturbed, NEW r \in dirs \cap Repos,
                        ~Discoverable(r)
                 PROVE  \E t \in Threads : pc[t] # "idle" /\ r = job[t].repo
      BY DEF FoundWhenQuiet
    <2>1. PICK place \in archDirs : place.repo = r
      BY DEF Discoverable, Empty, Under
    <2>2. Accounted(place)
      BY DEF DatabasesMade
    <2>3. ~Made(place)
      <3>1. ASSUME NEW d \in dbs, PlaceOf(d) = place PROVE FALSE
        <4>1. d.repo = r /\ d.name = r
          BY <2>1, <3>1 DEF PlaceOf, ServiceInv, DiskInv, DatabaseNamed
        <4>2. QED
          BY <4>1 DEF Discoverable, Under
      <3>2. QED
        BY <3>1 DEF Made
    <2>4. PICK t \in Threads : Prepares(t, place)
      BY <2>2, <2>3 DEF Accounted
    <2>5. QED
      BY <2>1, <2>4 DEF Prepares, At
  <1>4. QED
    BY <1>1, <1>2, <1>3, QueriesChangeNothing, ServiceInvariant, OutcomeInvariant, PTL DEF Spec
=============================================================================
