---------------------- MODULE RepositoryCatalogProofs ----------------------
(***************************************************************************)
(* RepositoryService implements Catalog: whatever is interleaved, fails or *)
(* dies, the sets of packages that readers find under the names of the     *)
(* repositories change only by whole publications, removals, renames and   *)
(* dropped databases.                                                      *)
(*                                                                         *)
(* The refinement maps a pair to its Listing.  A package is listed exactly *)
(* if its Entry is there (ListedEntries), so that a step is seen through   *)
(* what it makes of the entries under the names of repositories: the many  *)
(* steps on hidden snapshots are stutters.                                 *)
(***************************************************************************)
EXTENDS RepositoryOutcomeProofs

LEMMA SameKeys == Depot!Keys = Keys
  BY DEF Depot!Keys, Keys

LEMMA ListedEntries ==
  ASSUME NEW k \in Keys
  PROVE  /\ entries \subseteq Entries =>
                /\ Listing(k) \subseteq Packages
                /\ \A u \in Packages : u \in Listing(k) <=> Entry(k, u) \in entries
         /\ entries' \subseteq Entries =>
                /\ Listing(k)' \subseteq Packages
                /\ \A u \in Packages : u \in Listing(k)' <=> Entry(k, u) \in entries'
  <1> DEFINE L(E) == {e.up : e \in {f \in In(E, k) : f.name = k.repo}}
  <1>1. ASSUME NEW E, E \subseteq Entries
        PROVE  /\ L(E) \subseteq Packages
               /\ \A u \in Packages : u \in L(E) <=> Entry(k, u) \in E
    <2>1. \A e \in E : e \in Entries
      BY <1>1
    <2>2. L(E) \subseteq Packages
      BY <2>1 DEF In, Entries
    <2>3. ASSUME NEW u \in Packages, Entry(k, u) \in E
          PROVE  u \in L(E)
      BY <2>3 DEF In, Entry
    <2>4. ASSUME NEW u \in Packages, u \in L(E)
          PROVE  Entry(k, u) \in E
      <3>1. PICK e \in E : e.repo = k.repo /\ e.arch = k.arch /\ e.name = k.repo /\ e.up = u
        BY <2>4 DEF In
      <3>2. e = Entry(k, u)
        BY <2>1, <3>1 DEF Entries, Entry
      <3>3. QED
        BY <3>1, <3>2
    <2>5. QED
      BY <2>2, <2>3, <2>4
  <1>2. Listing(k) = L(entries) /\ Listing(k)' = L(entries')
    BY DEF Listing, In
  <1>3. QED
    BY <1>1, <1>2

(* What a step makes of the entries under the names of repositories.       *)
Shown(k, u) == Entry(k, u) \in entries

(* The steps a reader notices, as Catalog has them.                        *)
Publishes(k, u) ==
    /\ <<u, k.arch>> \in Accepted
    /\ \A l \in Keys, v \in Packages :
           Shown(l, v)' <=> \/ l = k /\ v = u
                            \/ Shown(l, v) /\ ~(l = k /\ NameOf[v] = NameOf[u])

Removes(k, u) ==
    /\ Shown(k, u)
    /\ \A l \in Keys, v \in Packages :
           Shown(l, v)' <=> Shown(l, v) /\ ~(l = k /\ NameOf[v] = NameOf[u])

Renames(from, to) ==
    /\ \A l \in Keys, v \in Packages : l.repo = to => ~Shown(l, v)
    /\ \A l \in Keys, v \in Packages :
           Shown(l, v)' <=> \/ l.repo # to /\ Shown(l, v)
                            \/ l.repo = to /\ Shown([repo |-> from, arch |-> l.arch], v)

Drops(k) ==
    \A l \in Keys, v \in Packages : Shown(l, v)' <=> l # k /\ Shown(l, v)

ShowsTheSame == \A l \in Keys, v \in Packages : Shown(l, v)' <=> Shown(l, v)

LEMMA EntryOf ==
  ASSUME NEW k \in Keys, NEW u \in Packages
  PROVE  /\ Entry(k, u) \in Entries /\ PlaceOf(Entry(k, u)) = k
         /\ Entry(k, u).repo = k.repo /\ Entry(k, u).arch = k.arch
         /\ Entry(k, u).name = k.repo /\ Entry(k, u).up = u
  BY DEF Entry, Entries, Keys, Dirs, PlaceOf

LEMMA PublicationShown ==
  ASSUME ServiceInv, OutcomeInv, NEW t \in Threads, AddEntry(t)
  PROVE  At(t) \in Keys /\ subject[t] \in Packages /\ Publishes(At(t), subject[t])
  <1>1. /\ pc[t] = "add" /\ At(t) \in Keys /\ subject[t] \in Packages
        /\ entries' = (entries \ OfName(At(t), NameOf[subject[t]]))
                          \cup {Entry(At(t), subject[t])}
    BY AddedEntries DEF OutcomeInv, OutcomeOf
  <1>2. <<subject[t], At(t).arch>> \in Accepted
    BY <1>1 DEF OutcomeInv, HandlerInv, HandlerFits, Fits, At
  <1>3. ASSUME NEW l \in Keys, NEW v \in Packages
        PROVE  Shown(l, v)' <=>
                   \/ l = At(t) /\ v = subject[t]
                   \/ Shown(l, v) /\ ~(l = At(t) /\ NameOf[v] = NameOf[subject[t]])
    <2>1. Entry(l, v) = Entry(At(t), subject[t]) <=> l = At(t) /\ v = subject[t]
      BY <1>1, EntryOf
    <2>2. Entry(l, v) \in OfName(At(t), NameOf[subject[t]]) <=>
              Shown(l, v) /\ l = At(t) /\ NameOf[v] = NameOf[subject[t]]
      BY <1>1, EntryOf DEF OfName, In, Shown, Keys
    <2>3. Shown(l, v)' <=> Entry(l, v) \in entries'
      BY DEF Shown, Entry
    <2>4. QED
      BY <1>1, <2>1, <2>2, <2>3 DEF Shown
  <1>4. QED
    BY <1>1, <1>2, <1>3 DEF Publishes

LEMMA RemovalShown ==
  ASSUME ServiceInv, NEW t \in Threads, pc[t] = "removeEntry",
         entries' = entries \ OfName(At(t), job[t].name)
  PROVE  At(t) \in Keys /\ subject[t] \in Packages /\ Removes(At(t), subject[t])
  <1>1. /\ At(t) \in Keys /\ subject[t] \in Packages /\ entries \subseteq Entries
    BY DEF ServiceInv, ControlInv, TypeOK, JobsFit, RemoveCalls, RemoveJobs, At, Keys
  <1>2. subject[t] \in Listing(At(t)) /\ NameOf[subject[t]] = job[t].name
    BY DEF ServiceInv, DiskInv, ThreadInv, FoundIsListed, Matches
  <1>3. Shown(At(t), subject[t])
    BY <1>1, <1>2, ListedEntries DEF Shown
  <1>4. ASSUME NEW l \in Keys, NEW v \in Packages
        PROVE  Shown(l, v)' <=> Shown(l, v) /\ ~(l = At(t) /\ NameOf[v] = NameOf[subject[t]])
    <2>1. Entry(l, v) \in OfName(At(t), job[t].name) <=>
              Shown(l, v) /\ l = At(t) /\ NameOf[v] = NameOf[subject[t]]
      BY <1>1, <1>2, EntryOf DEF OfName, In, Shown, Keys
    <2>2. Shown(l, v)' <=> Entry(l, v) \in entries'
      BY DEF Shown, Entry
    <2>3. QED
      BY <2>1, <2>2 DEF Shown
  <1>5. QED
    BY <1>1, <1>3, <1>4 DEF Removes

(* A directory of a name os.MkdirTemp chose is nothing a reader looks at.  *)
LEMMA HiddenShown ==
  ASSUME ServiceInv, NEW hidden \in TempNames,
         \A e \in Entries : e.repo # hidden => (e \in entries' <=> e \in entries)
  PROVE  ShowsTheSame
  <1> SUFFICES ASSUME NEW l \in Keys, NEW v \in Packages
               PROVE  Shown(l, v)' <=> Shown(l, v)
    BY DEF ShowsTheSame
  <1>1. Entry(l, v) \in Entries /\ Entry(l, v).repo # hidden
    BY EntryOf, ServiceAssumption DEF Keys
  <1>2. Shown(l, v)' <=> Entry(l, v) \in entries'
    BY DEF Shown, Entry
  <1>3. QED
    BY <1>1, <1>2 DEF Shown

LEMMA RenameShown ==
  ASSUME ServiceInv, OutcomeInv, NEW t \in Threads, pc[t] = "relabel", ~Relabelling(t),
         job[t].to \notin dirs, MoveTree(temp[t], job[t].to)
  PROVE  /\ job[t].repo \in Repos /\ job[t].to \in Repos /\ job[t].repo # job[t].to
         /\ Renames(job[t].repo, job[t].to)
  <1> DEFINE old == job[t].repo
             new == job[t].to
             Old(e) == [repo |-> temp[t], arch |-> e.arch, name |-> new, up |-> e.up]
  <1>1. /\ old \in Repos /\ new \in Repos /\ old # new /\ temp[t] \notin Repos
        /\ \A e \in entries : e.repo # new
        /\ \A e \in entries : e.repo = temp[t] => e.name = new
        /\ \A e \in Entries :
               e \in entries' <=> \/ e.repo # temp[t] /\ e \in entries
                                  \/ e.repo = new /\ e.name = new /\ Old(e) \in entries
    BY SnapshotMove DEF OutcomeInv
  <1>2. /\ \A e \in Under(entries, temp[t]) : EntryIn(old, e) \in entries
        /\ \A e \in Under(entries, old) :
               \E f \in Under(entries, temp[t]) : f.arch = e.arch /\ f.up = e.up
    BY DEF OutcomeInv, OutcomeOf, SnapshotTrue
  <1>3. entries \subseteq Entries
    BY DEF ServiceInv, ControlInv, TypeOK
  <1>4. ASSUME NEW l \in Keys, NEW v \in Packages, l.repo = new
        PROVE  ~Shown(l, v)
    BY <1>1, <1>4, EntryOf DEF Shown
  <1>5. ASSUME NEW l \in Keys, NEW v \in Packages
        PROVE  Shown(l, v)' <=>
                   \/ l.repo # new /\ Shown(l, v)
                   \/ l.repo = new /\ Shown([repo |-> old, arch |-> l.arch], v)
    <2> DEFINE e == Entry(l, v)
               k == [repo |-> old, arch |-> l.arch]
    <2>1. /\ e \in Entries /\ e.repo = l.repo /\ e.arch = l.arch /\ e.up = v
          /\ e.name = l.repo /\ l.repo \in Repos /\ k \in Keys
      BY <1>1, EntryOf DEF Keys
    <2>2. Shown(l, v)' <=> e \in entries'
      BY DEF Shown, Entry
    <2>3. CASE l.repo # new
      BY <1>1, <2>1, <2>2, <2>3 DEF Shown
    <2>4. CASE l.repo = new
      <3>1. e \in entries' <=> Old(e) \in entries
        BY <1>1, <2>1, <2>4
      <3>2. Old(e) \in entries => Entry(k, v) \in entries
        <4>1. EntryIn(old, Old(e)) = Entry(k, v)
          BY <2>1 DEF EntryIn, Entry
        <4>2. QED
          BY <1>2, <4>1 DEF Under
      <3>3. ASSUME Entry(k, v) \in entries
            PROVE  Old(e) \in entries
        <4>1. Entry(k, v) \in Under(entries, old)
          BY <2>1, <3>3, EntryOf DEF Under
        <4>2. PICK f \in Under(entries, temp[t]) : f.arch = l.arch /\ f.up = v
          BY <1>2, <2>1, <4>1, EntryOf
        <4>3. f \in Entries /\ f \in entries /\ f.repo = temp[t] /\ f.name = new
          BY <1>1, <1>3 DEF Under
        <4>4. f = Old(e)
          BY <2>1, <4>2, <4>3 DEF Entries
        <4>5. QED
          BY <4>3, <4>4
      <3>4. QED
        BY <2>2, <2>4, <3>1, <3>2, <3>3 DEF Shown
    <2>5. QED
      BY <2>3, <2>4
  <1>6. QED
    BY <1>1, <1>4, <1>5 DEF Renames

LEMMA PurgeShown ==
  ASSUME ServiceInv, NEW d \in dbs, d.repo \in Repos, entries' = entries \ ListedIn(d)
  PROVE  PlaceOf(d) \in Keys /\ Drops(PlaceOf(d))
  <1>1. PlaceOf(d) \in Keys /\ d.name = d.repo
    BY DEF ServiceInv, DiskInv, DatabaseNamed, ControlInv, TypeOK, Databases, PlaceOf, Keys
  <1>2. ASSUME NEW l \in Keys, NEW v \in Packages
        PROVE  Shown(l, v)' <=> l # PlaceOf(d) /\ Shown(l, v)
    <2>1. Entry(l, v) \in ListedIn(d) <=> Shown(l, v) /\ l = PlaceOf(d)
      BY <1>1, EntryOf DEF ListedIn, In, PlaceOf, Shown, Keys
    <2>2. Shown(l, v)' <=> Entry(l, v) \in entries'
      BY DEF Shown, Entry
    <2>3. QED
      BY <2>1, <2>2 DEF Shown
  <1>3. QED
    BY <1>1, <1>2 DEF Drops

(* Every step is one a reader may see, or one he does not.                 *)
LEMMA StepShown ==
  ASSUME ServiceInv, OutcomeInv, NEW t \in Threads, Begins(t) \/ Step(t)
  PROVE  \/ ShowsTheSame
         \/ \E k \in Keys, u \in Packages : Publishes(k, u) \/ Removes(k, u)
         \/ \E from, to \in Repos : from # to /\ Renames(from, to)
         \/ \E k \in Keys : Drops(k)
  <1>1. CASE UNCHANGED entries
    BY <1>1 DEF ShowsTheSame, Shown, Entry
  <1>2. CASE AddEntry(t)
    BY <1>2, PublicationShown
  <1>3. CASE pc[t] = "removeEntry" /\ entries' = entries \ OfName(At(t), job[t].name)
    BY <1>3, RemovalShown
  <1>4. CASE pc[t] = "copy" /\ CopyTree(job[t].repo, temp[t])
    <2>1. /\ temp[t] \in TempNames
          /\ \A e \in Entries : e.repo # temp[t] => (e \in entries' <=> e \in entries)
      BY <1>4, SnapshotCopy DEF OutcomeInv
    <2>2. QED
      BY <2>1, HiddenShown
  <1>5. CASE /\ pc[t] = "relabel"
             /\ \E d \in Unlabelled(t) : entries' = Relabelled(entries, d, job[t].to)
    <2>1. PICK d \in Unlabelled(t) : entries' = Relabelled(entries, d, job[t].to)
      BY <1>5
    <2>2. /\ d \in Databases /\ d.repo = temp[t] /\ temp[t] \in TempNames
          /\ job[t].to \in Repos /\ entries \in SUBSET Entries
      BY <1>5 DEF Unlabelled, Under, ServiceInv, ControlInv, TypeOK, JobsFit,
         LifecycleCalls, RenameJobs
    <2>3. \A e \in Entries : e.repo # temp[t] => (e \in entries' <=> e \in entries)
      BY <2>1, <2>2, RelabelledEntries
    <2>4. QED
      BY <2>2, <2>3, HiddenShown
  <1>6. CASE /\ pc[t] = "relabel" /\ ~Relabelling(t) /\ job[t].to \notin dirs
             /\ MoveTree(temp[t], job[t].to)
    BY <1>6, RenameShown
  <1>7. CASE pc[t] = "discard" /\ entries' = Outside(entries, temp[t])
    <2>1. temp[t] \in TempNames
      BY <1>7 DEF ServiceInv, ControlInv, JobsFit, LifecycleCalls
    <2>2. \A e \in Entries : e.repo # temp[t] => (e \in entries' <=> e \in entries)
      BY <1>7 DEF Outside
    <2>3. QED
      BY <2>1, <2>2, HiddenShown
  <1>8. CASE /\ pc[t] = "purge"
             /\ \E d \in Under(dbs, job[t].repo) : entries' = entries \ ListedIn(d)
    <2>1. PICK d \in dbs : d.repo = job[t].repo /\ entries' = entries \ ListedIn(d)
      BY <1>8 DEF Under
    <2>2. job[t].repo \in Repos
      BY <1>8 DEF ServiceInv, ControlInv, JobsFit, LifecycleCalls, LifecycleJobs,
         RenameJobs, CreateJobs, DeleteJobs
    <2>3. QED
      BY <2>1, <2>2, PurgeShown
  <1>9. QED
    BY <1>1, <1>2, <1>3, <1>4, <1>5, <1>6, <1>7, <1>8, StepEntries

-----------------------------------------------------------------------------
(* The steps of Catalog, for the listings.                                 *)

LEMMA StepImplementsCatalog ==
  ASSUME ServiceInv, OutcomeInv, entries' \subseteq Entries, NEW t \in Threads,
         Begins(t) \/ Step(t)
  PROVE  [Depot!CatalogNext]_catalog
  <1>1. entries \subseteq Entries
    BY DEF ServiceInv, ControlInv, TypeOK
  <1>2. \A k \in Keys :
            /\ Listing(k) \subseteq Packages /\ Listing(k)' \subseteq Packages
            /\ \A u \in Packages : /\ u \in Listing(k) <=> Shown(k, u)
                                   /\ u \in Listing(k)' <=> Shown(k, u)'
    BY <1>1, ListedEntries DEF Shown, Entry
  <1>3. /\ catalog = [k \in Keys |-> Listing(k)]
        /\ catalog' = [k \in Keys |-> Listing(k)']
    BY DEF catalog, Keys
  <1>4. CASE ShowsTheSame
    <2>1. \A k \in Keys : Listing(k)' = Listing(k)
      BY <1>2, <1>4 DEF ShowsTheSame
    <2>2. QED
      BY <1>3, <2>1
  <1>5. ASSUME NEW k \in Keys, NEW u \in Packages, Publishes(k, u)
        PROVE  Depot!Publish(k, u)
    <2>1. \A l \in Keys :
              Listing(l)' = IF l = k
                            THEN {v \in Listing(l) : NameOf[v] # NameOf[u]} \cup {u}
                            ELSE Listing(l)
      BY <1>2, <1>5 DEF Publishes
    <2>2. QED
      BY <1>3, <1>5, <2>1 DEF Depot!Publish, Publishes
  <1>6. ASSUME NEW k \in Keys, NEW u \in Packages, Removes(k, u)
        PROVE  Depot!Remove(k, u)
    <2>1. \A l \in Keys :
              Listing(l)' = IF l = k
                            THEN {v \in Listing(l) : NameOf[v] # NameOf[u]}
                            ELSE Listing(l)
      BY <1>2, <1>6 DEF Removes
    <2>2. u \in Listing(k)
      BY <1>2, <1>6 DEF Removes
    <2>3. QED
      BY <1>3, <2>1, <2>2 DEF Depot!Remove
  <1>7. ASSUME NEW from \in Repos, NEW to \in Repos, Renames(from, to)
        PROVE  Depot!Copy(from, to)
    <2>1. \A k \in Keys : [repo |-> from, arch |-> k.arch] \in Keys
                            /\ [k EXCEPT !.repo = from] = [repo |-> from, arch |-> k.arch]
      BY DEF Keys
    <2>2. \A k \in Keys : k.repo = to => Listing(k) = {}
      BY <1>2, <1>7 DEF Renames
    <2>3. \A k \in Keys :
              Listing(k)' = IF k.repo = to THEN Listing([repo |-> from, arch |-> k.arch])
                                           ELSE Listing(k)
      <3> SUFFICES ASSUME NEW k \in Keys
                   PROVE  Listing(k)' = IF k.repo = to
                                        THEN Listing([repo |-> from, arch |-> k.arch])
                                        ELSE Listing(k)
        OBVIOUS
      <3> DEFINE source == [repo |-> from, arch |-> k.arch]
      <3>1. source \in Keys
        BY <2>1
      <3>2. \A u \in Packages :
                Shown(k, u)' <=> \/ k.repo # to /\ Shown(k, u)
                                 \/ k.repo = to /\ Shown(source, u)
        BY <1>7 DEF Renames
      <3>3. CASE k.repo = to
        BY <1>2, <3>1, <3>2, <3>3
      <3>4. CASE k.repo # to
        BY <1>2, <3>2, <3>4
      <3>5. QED
        BY <3>3, <3>4
    <2>4. \A k \in Keys : k.repo = to => catalog[k] = {}
      BY <1>3, <2>2
    <2>5. \A k \in Keys :
              Listing(k)' = IF k.repo = to THEN catalog[[k EXCEPT !.repo = from]]
                                           ELSE catalog[k]
      <3> SUFFICES ASSUME NEW k \in Keys
                   PROVE  Listing(k)' = IF k.repo = to THEN catalog[[k EXCEPT !.repo = from]]
                                                       ELSE catalog[k]
        OBVIOUS
      <3>1. catalog[k] = Listing(k)
        BY <1>3
      <3>2. catalog[[repo |-> from, arch |-> k.arch]] = Listing([repo |-> from, arch |-> k.arch])
        BY <1>3, <2>1
      <3>3. [k EXCEPT !.repo = from] = [repo |-> from, arch |-> k.arch]
        BY <2>1
      <3>4. QED
        BY <2>3, <3>1, <3>2, <3>3
    <2>6. catalog' = [k \in Keys |-> IF k.repo = to THEN catalog[[k EXCEPT !.repo = from]]
                                                    ELSE catalog[k]]
      BY <1>3, <2>5
    <2>7. QED
      BY <2>4, <2>6, SameKeys DEF Depot!Copy
  <1>8. ASSUME NEW k \in Keys, Drops(k)
        PROVE  Depot!DropDatabase(k)
    <2>1. \A l \in Keys : Listing(l)' = IF l = k THEN {} ELSE Listing(l)
      BY <1>2, <1>8 DEF Drops
    <2>2. QED
      BY <1>3, <2>1 DEF Depot!DropDatabase
  <1>9. QED
    BY <1>4, <1>5, <1>6, <1>7, <1>8, StepShown, SameKeys DEF Depot!CatalogNext

LEMMA ImplementsCatalogStep ==
  ServiceInv /\ OutcomeInv /\ ServiceInv' /\ [Next]_vars => [Depot!CatalogNext]_catalog
  <1> SUFFICES ASSUME ServiceInv, OutcomeInv, ServiceInv', [Next]_vars
               PROVE  [Depot!CatalogNext]_catalog
    OBVIOUS
  <1>1. ASSUME NEW t \in Threads, Begins(t) \/ Step(t)
        PROVE  [Depot!CatalogNext]_catalog
    <2>1. entries' \subseteq Entries
      BY DEF ServiceInv, ControlInv, TypeOK
    <2>2. QED
      BY <1>1, <2>1, StepImplementsCatalog
  <1>2. ASSUME UNCHANGED entries
        PROVE  catalog' = catalog
    BY <1>2 DEF catalog, Listing, In
  <1>3. CASE \E process \in Processes : Crash(process)
    BY <1>2, <1>3 DEF Crash, database
  <1>4. CASE Rest \/ UNCHANGED vars
    BY <1>2, <1>4 DEF Rest, vars, disk, database
  <1>5. QED
    BY <1>1, <1>3, <1>4 DEF Next

(* Whatever is interleaved, fails or dies, a reader without locks sees     *)
(* whole publications, whole removals, a repository appear complete under  *)
(* its new name, and databases disappear whole: every step of the service  *)
(* is a step of Catalog or leaves the listings alone (service.go:238-243). *)
THEOREM ServiceImplementsCatalog == Spec => ImplementsCatalog
  <1>1. Init => Depot!CatalogInit
    BY SameKeys DEF Init, Depot!CatalogInit, catalog, Listing, In
  <1>2. QED
    BY <1>1, ImplementsCatalogStep, ServiceInvariant, OutcomeInvariant, PTL
       DEF Spec, ImplementsCatalog, Depot!CatalogSpec

-----------------------------------------------------------------------------
(* Package files nobody lists.  What a request is working on counts for    *)
(* nothing; once it stops, the file has to be listed or gone.              *)

WorksOn(t, x) ==
    \/ pc[t] \in {"sign", "add", "undo", "removeFile"} /\ File(t) = x
    \/ pc[t] = "purge" /\ job[t].repo = x.repo

LEMMA UnlistedIs ==
  ASSUME NEW x
  PROVE  /\ x \in Unlisted <=> /\ x \in pkgs /\ x.repo \in Repos
                               /\ x.up \notin Listing(PlaceOf(x))
                               /\ \A t \in Threads : ~WorksOn(t, x)
         /\ x \in Unlisted' <=> /\ x \in pkgs' /\ x.repo \in Repos
                                /\ x.up \notin Listing(PlaceOf(x))'
                                /\ \A t \in Threads : ~WorksOn(t, x)'
  BY DEF Unlisted, WorksOn, PlaceOf, Listing, In, File

(* How a request gets on with what it works on when its calls succeed, or  *)
(* repo-add fails.                                                         *)
LEMMA WorkGoesOn ==
  ASSUME ControlInv, NEW t \in Threads, Begins(t) \/ Step(t),
         faults' = faults \/ (pc[t] = "add" /\ pc'[t] = "undo")
  PROVE  /\ pc[t] = "install" => \/ pkgs' = pkgs
                                 \/ pc'[t] \in {"sign", "add"} /\ UNCHANGED <<job, subject>>
         /\ pc[t] = "sign" => pc'[t] = "add" /\ UNCHANGED <<job, subject>>
         /\ pc[t] = "add" => \/ pc'[t] = "undo" /\ UNCHANGED <<job, subject>>
                             \/ AddEntry(t)
         /\ pc[t] \in {"undo", "removeFile"} => pkgs' = Unlinked(pkgs, File(t))
         /\ pc[t] = "removeEntry" => \/ entries' = entries
                                     \/ pc'[t] = "removeFile" /\ UNCHANGED <<job, subject>>
         /\ pc[t] = "purge" => \/ pc'[t] = "purge" /\ UNCHANGED job
                               \/ Under(archDirs, job[t].repo) = {} /\ UNCHANGED pkgs
         /\ pc[t] = "relabel" => pkgs' = pkgs \/ ~Relabelling(t)
  <1>0. faults # faults + 1
    BY ServiceAssumption DEF ControlInv, TypeOK
  <1> USE <1>0 DEF ControlInv, TypeOK, Go, Proceed, Refuse, Begin, RefuseRequest, Cancel,
              Fault, disk, files, database, context, request
  <1>1. CASE Begins(t)
    BY <1>1 DEF Begins, BeginUpload, BeginRemove, BeginLifecycle
  <1>2. CASE PublishStep(t)
    <2>1. CASE AddEntry(t)
      <3>1. pc[t] = "add"
        BY <2>1 DEF AddEntry
      <3>2. QED
        BY <2>1, <3>1
    <2>2. CASE AddFails(t)
      BY <2>2 DEF AddFails
    <2>3. CASE ~AddEntry(t) /\ ~AddFails(t)
      BY <1>2, <2>3 DEF PublishStep, ReceiveUpload, LockForPublish, Inspect,
         MakeDirectory, StatDestination, InstallPackage, AfterInstall,
         InstallSignature, UndoPackage, UndoSignature, Cleanup
    <2>4. QED
      BY <2>1, <2>2, <2>3
  <1>3. CASE RemoveStep(t)
    BY <1>3 DEF RemoveStep, LockForRemove, FindPackage, RemoveEntry,
       RemoveEntryFails, RemoveFile, RemoveSignature
  <1>4. CASE LifecycleStep(t)
    BY <1>4 DEF LifecycleStep, LockForLifecycle, Create, CheckRename,
       MakeSnapshot, CopySnapshot, RelabelDatabase, InstallSnapshot,
       DiscardSnapshot, CheckRepository, PurgeFile, PurgeArchitecture,
       PurgeRepository
  <1>5. CASE Unlock(t)
    BY <1>5 DEF Unlock
  <1>6. QED
    BY <1>1, <1>2, <1>3, <1>4, <1>5 DEF Step

(* A file nobody works on any more is listed or gone.                      *)
LEMMA WorkEndsWell ==
  ASSUME ServiceInv, OutcomeInv, entries' \subseteq Entries, NEW t \in Threads,
         Begins(t) \/ Step(t), faults' = faults \/ (pc[t] = "add" /\ pc'[t] = "undo"),
         NEW x \in pkgs, x \in pkgs', WorksOn(t, x), ~WorksOn(t, x)'
  PROVE  x.up \in Listing(PlaceOf(x))'
  <1>1. ControlInv
    BY DEF ServiceInv
  <1>2. CASE pc[t] = "sign" /\ File(t) = x
    BY <1>1, <1>2, WorkGoesOn DEF WorksOn, File
  <1>3. CASE pc[t] = "add" /\ File(t) = x
    <2>1. AddEntry(t)
      BY <1>1, <1>3, WorkGoesOn DEF WorksOn, File
    <2>2. At(t) \in Keys /\ subject[t] \in Packages /\ Publishes(At(t), subject[t])
      BY <2>1, PublicationShown
    <2>3. PlaceOf(x) = At(t) /\ x.up = subject[t]
      BY <1>3 DEF File, At, PlaceOf
    <2>4. Shown(At(t), subject[t])' <=> Entry(At(t), subject[t]) \in entries'
      BY <2>1 DEF Shown, Entry, AddEntry, At, context, request
    <2>5. UNCHANGED <<job, subject>>
      BY <2>1 DEF AddEntry, context, request
    <2>6. Shown(At(t), subject[t])'
      <3>1. \A l \in Keys, v \in Packages :
                l = At(t) /\ v = subject[t] => Entry(l, v) \in entries'
        BY <2>2 DEF Publishes, Shown, Entry
      <3>2. QED
        BY <2>2, <2>4, <3>1
    <2>7. subject[t] \in Listing(PlaceOf(x))'
      BY <2>2, <2>3, <2>4, <2>6, ListedEntries
    <2>8. QED
      BY <2>3, <2>7
  <1>4. CASE pc[t] \in {"undo", "removeFile"} /\ File(t) = x
    <2>1. pkgs' = Unlinked(pkgs, File(t))
      BY <1>1, <1>4, WorkGoesOn
    <2>2. QED
      BY <1>4, <2>1 DEF Unlinked, SamePath
  <1>5. CASE pc[t] = "purge" /\ job[t].repo = x.repo
    <2>1. Under(archDirs, job[t].repo) = {}
      BY <1>1, <1>5, WorkGoesOn DEF WorksOn
    <2>2. QED
      BY <1>5, <2>1 DEF Under, ServiceInv, DiskInv, TreeShape, PlaceOf
  <1>6. QED
    BY <1>2, <1>3, <1>4, <1>5 DEF WorksOn

(* A file that a request puts into a repository is one it works on, or the *)
(* copy of one that has gone unlisted before.                              *)
LEMMA NewcomersAreCopies ==
  ASSUME ServiceInv, OutcomeInv, entries' \subseteq Entries, NEW t \in Threads,
         Begins(t) \/ Step(t), faults' = faults \/ (pc[t] = "add" /\ pc'[t] = "undo"),
         NEW x \in Unlisted', x \notin pkgs, x \in Files
  PROVE  \E y \in Unlisted : y.arch = x.arch /\ y.up = x.up /\ y.repo # x.repo
  <1>1. ControlInv /\ HandlerInv /\ SideFiles
    BY DEF ServiceInv, OutcomeInv
  <1>2. /\ x \in pkgs' /\ x.repo \in Repos /\ x.up \notin Listing(PlaceOf(x))'
        /\ ~WorksOn(t, x)'
    BY UnlistedIs
  <1>3. CASE pc[t] = "install" /\ pkgs' = Placed(pkgs, File(t))
    <2>1. x = File(t)
      BY <1>2, <1>3 DEF Placed, Unlinked
    <2>2. pc'[t] \in {"sign", "add"} /\ File(t)' = x
      BY <1>1, <1>2, <1>3, <2>1, WorkGoesOn DEF File
    <2>3. QED
      BY <1>2, <2>2 DEF WorksOn
  <1>4. CASE pc[t] = "copy" /\ CopyTree(job[t].repo, temp[t])
    <2>1. x.repo = temp[t] /\ temp[t] \in TempNames
      BY <1>1, <1>2, <1>4, SnapshotCopy
    <2>2. QED
      BY <1>2, <2>1, ServiceAssumption
  <1>5. CASE pc[t] = "relabel" /\ job[t].to \notin dirs /\ MoveTree(temp[t], job[t].to)
    <2> DEFINE old == job[t].repo
               new == job[t].to
               y == FileIn(old, x)
    <2>0. ~Relabelling(t)
      BY <1>1, <1>2, <1>5, WorkGoesOn
    <2>1. /\ old \in Repos /\ new \in Repos /\ old # new
          /\ x.repo = new /\ FileIn(temp[t], x) \in pkgs
      BY <1>1, <1>2, <1>5, <2>0, SnapshotMove
    <2>2. Renames(old, new)
      BY <1>5, <2>0, RenameShown
    <2>3. y \in pkgs
      <3>1. FileIn(temp[t], x) \in Under(pkgs, temp[t])
        BY <2>1 DEF FileIn, Under
      <3>2. FileIn(old, FileIn(temp[t], x)) \in pkgs
        BY <1>5, <3>1 DEF OutcomeInv, OutcomeOf, SnapshotTrue
      <3>3. QED
        BY <3>2 DEF FileIn
    <2>4. /\ y.repo = old /\ y.arch = x.arch /\ y.up = x.up /\ x.up \in Packages
          /\ PlaceOf(x) \in Keys /\ PlaceOf(x).repo = new
          /\ PlaceOf(y) \in Keys /\ PlaceOf(y) = [repo |-> old, arch |-> PlaceOf(x).arch]
      BY <2>1 DEF FileIn, Files, PlaceOf, Keys
    <2>5. x.up \notin Listing(PlaceOf(y))
      <3>1. entries \subseteq Entries
        BY <1>1 DEF ControlInv, TypeOK
      <3>2. Entry(PlaceOf(x), x.up) \notin entries'
        BY <1>2, <2>4, ListedEntries
      <3>3. \A l \in Keys, v \in Packages :
                l.repo = new /\ Entry(l, v) \notin entries' =>
                    Entry([repo |-> old, arch |-> l.arch], v) \notin entries
        BY <2>2 DEF Renames, Shown, Entry
      <3>4. Entry(PlaceOf(y), x.up) \notin entries
        BY <2>4, <3>2, <3>3
      <3>5. QED
        BY <2>4, <3>1, <3>4, ListedEntries
    <2>6. \A u \in Threads : ~WorksOn(u, y)
      <3>1. OnTree(t)
        BY <1>5 DEF OnTree, LifecycleWriters, LifecycleCalls
      <3>2. \A u \in Threads \ {t} : ~OnPair(u) /\ ~OnTree(u)
        BY <1>1, <3>1, HoldersExclude
      <3>3. QED
        BY <1>5, <3>2 DEF WorksOn, OnPair, OnTree, PairWriters, PublishCalls,
           RemoveCalls, LifecycleWriters, LifecycleCalls
    <2>7. y \in Unlisted
      BY <2>1, <2>3, <2>4, <2>5, <2>6, UnlistedIs
    <2>8. QED
      BY <2>1, <2>4, <2>7
  <1>6. QED
    BY <1>1, <1>2, <1>3, <1>4, <1>5, StepAddsFiles

(* An entry goes because a newer one replaces it, or to somebody who goes  *)
(* on to remove the file.                                                  *)
LEMMA DelistingIsWork ==
  ASSUME ServiceInv, OutcomeInv, entries' \subseteq Entries, NEW t \in Threads,
         Begins(t) \/ Step(t), faults' = faults \/ (pc[t] = "add" /\ pc'[t] = "undo"),
         NEW x \in Unlisted', x \in pkgs, x \in Files, x.up \in Listing(PlaceOf(x))
  PROVE  \E u \in Listing(PlaceOf(x))' : NameOf[u] = NameOf[x.up]
  <1> DEFINE k == PlaceOf(x)
  <1>1. ControlInv /\ HandlerInv /\ SideFiles /\ entries \subseteq Entries
    BY DEF ServiceInv, OutcomeInv, ControlInv, TypeOK
  <1>2. /\ x.up \notin Listing(PlaceOf(x))' /\ x.repo \in Repos /\ ~WorksOn(t, x)'
    BY UnlistedIs
  <1>3. k \in Keys /\ x.up \in Packages /\ k.repo = x.repo
    BY <1>2 DEF Files, Keys, PlaceOf
  <1>4. Entry(k, x.up) \in entries /\ Entry(k, x.up) \notin entries'
    BY <1>1, <1>2, <1>3, ListedEntries
  <1>5. CASE AddEntry(t)
    <2>1. /\ At(t) \in Keys /\ subject[t] \in Packages
          /\ \A l \in Keys, v \in Packages :
                 Entry(l, v) \in entries' <=>
                     \/ l = At(t) /\ v = subject[t]
                     \/ Entry(l, v) \in entries
                          /\ ~(l = At(t) /\ NameOf[v] = NameOf[subject[t]])
      BY <1>5, PublicationShown DEF Publishes, Shown, Entry
    <2>2. k = At(t) /\ NameOf[x.up] = NameOf[subject[t]]
      BY <1>3, <1>4, <2>1
    <2>3. Entry(k, subject[t]) \in entries'
      BY <2>1, <2>2
    <2>4. subject[t] \in Listing(k)'
      BY <1>3, <2>1, <2>3, ListedEntries
    <2>5. QED
      BY <2>2, <2>4
  <1>6. CASE pc[t] = "removeEntry" /\ entries' = entries \ OfName(At(t), job[t].name)
    <2>1. Entry(k, x.up) \in OfName(At(t), job[t].name)
      BY <1>4, <1>6
    <2>2. k = At(t) /\ NameOf[x.up] = job[t].name
      BY <1>3, <2>1, EntryOf DEF OfName, In, At, Keys
    <2>3. subject[t] \in Packages /\ At(t) \in Keys
      BY <1>6, RemovalShown
    <2>4. Entry(At(t), subject[t]) \in entries /\ NameOf[subject[t]] = job[t].name
      BY <1>1, <1>6, <2>3, ListedEntries
         DEF ServiceInv, DiskInv, ThreadInv, FoundIsListed, Matches
    <2>5. x.up = subject[t]
      BY <1>3, <1>4, <2>2, <2>3, <2>4, EntryOf DEF OutcomeInv, OneVersionListed
    <2>6. x = File(t)
      BY <2>2, <2>5 DEF Files, File, At, PlaceOf
    <2>7. pc'[t] = "removeFile" /\ File(t)' = File(t)
      BY <1>1, <1>4, <1>6, WorkGoesOn DEF File
    <2>8. QED
      BY <1>2, <2>6, <2>7 DEF WorksOn
  <1>7. CASE /\ pc[t] = "purge"
             /\ \E d \in Under(dbs, job[t].repo) : entries' = entries \ ListedIn(d)
    <2>1. x.repo = job[t].repo
      BY <1>3, <1>4, <1>7, EntryOf DEF Under, ListedIn, In, PlaceOf
    <2>2. (pc'[t] = "purge" /\ UNCHANGED job) \/ Under(archDirs, job[t].repo) = {}
      BY <1>1, <1>7, WorkGoesOn
    <2>3. PlaceOf(x) \in archDirs
      BY DEF ServiceInv, DiskInv, TreeShape
    <2>4. QED
      BY <1>2, <1>7, <2>1, <2>2, <2>3 DEF WorksOn, Under, PlaceOf
  <1>8. CASE pc[t] = "copy" /\ CopyTree(job[t].repo, temp[t])
    BY <1>4, <1>8 DEF CopyTree
  <1>9. CASE \/ /\ pc[t] = "relabel"
                /\ \E d \in Unlabelled(t) : entries' = Relabelled(entries, d, job[t].to)
             \/ /\ pc[t] = "relabel" /\ ~Relabelling(t) /\ job[t].to \notin dirs
                /\ MoveTree(temp[t], job[t].to)
             \/ pc[t] = "discard" /\ entries' = Outside(entries, temp[t])
    <2>1. temp[t] \in TempNames /\ Entry(k, x.up) \in Entries /\ Entry(k, x.up).repo # temp[t]
      BY <1>1, <1>2, <1>3, <1>9, EntryOf, ServiceAssumption
         DEF ControlInv, JobsFit, LifecycleCalls
    <2>2. CASE /\ pc[t] = "relabel"
               /\ \E d \in Unlabelled(t) : entries' = Relabelled(entries, d, job[t].to)
      <3>1. PICK d \in Unlabelled(t) : entries' = Relabelled(entries, d, job[t].to)
        BY <2>2
      <3>2. /\ d \in Databases /\ d.repo = temp[t]
            /\ job[t].to \in Repos /\ entries \in SUBSET Entries
        BY <1>1, <2>2 DEF Unlabelled, Under, ControlInv, TypeOK, JobsFit,
           LifecycleCalls, RenameJobs
      <3>3. QED
        BY <1>4, <2>1, <3>1, <3>2, RelabelledEntries
    <2>3. CASE /\ pc[t] = "relabel" /\ ~Relabelling(t) /\ job[t].to \notin dirs
               /\ MoveTree(temp[t], job[t].to)
      BY <1>4, <2>1, <2>3 DEF MoveTree, Moved, Outside
    <2>4. CASE pc[t] = "discard" /\ entries' = Outside(entries, temp[t])
      BY <1>4, <2>1, <2>4 DEF Outside
    <2>5. QED
      BY <1>9, <2>2, <2>3, <2>4
  <1>10. QED
    BY <1>4, <1>5, <1>6, <1>7, <1>8, <1>9, StepEntries

LEMMA UnlistedStep ==
  ASSUME ServiceInv, OutcomeInv, ServiceInv', [Next]_vars, crashes' = crashes,
         faults' = faults \/ CommandFailed, NEW x \in Unlisted' \ Unlisted
  PROVE  \/ \E u \in Listing(PlaceOf(x))' : NameOf[u] = NameOf[x.up]
         \/ \E y \in Unlisted : y.arch = x.arch /\ y.up = x.up /\ y.repo # x.repo
  <1>1. /\ ControlInv /\ entries' \subseteq Entries /\ pkgs' \subseteq Files
        /\ \A u \in Threads : \A y : WorksOn(u, y) \in BOOLEAN
    BY DEF ServiceInv, ControlInv, TypeOK, WorksOn
  <1>2. ASSUME NEW t \in Threads, Begins(t) \/ Step(t)
        PROVE  \/ \E u \in Listing(PlaceOf(x))' : NameOf[u] = NameOf[x.up]
               \/ \E y \in Unlisted : y.arch = x.arch /\ y.up = x.up /\ y.repo # x.repo
    <2>1. /\ x \in pkgs' /\ x.repo \in Repos /\ x.up \notin Listing(PlaceOf(x))'
          /\ \A u \in Threads : ~WorksOn(u, x)'
          /\ x \in Files
      BY <1>1, UnlistedIs
    <2>2. OthersAlone(t)
      BY <1>1, <1>2, StepsAreLocal
    <2>3. faults' = faults \/ (pc[t] = "add" /\ pc'[t] = "undo")
      BY <2>2 DEF CommandFailed, OthersAlone
    <2>4. CASE x \notin pkgs
      BY <1>1, <1>2, <2>1, <2>3, <2>4, NewcomersAreCopies
    <2>5. CASE x \in pkgs /\ x.up \in Listing(PlaceOf(x))
      BY <1>1, <1>2, <2>1, <2>3, <2>5, DelistingIsWork
    <2>6. CASE x \in pkgs /\ x.up \notin Listing(PlaceOf(x))
      <3>1. PICK u \in Threads : WorksOn(u, x)
        BY <2>1, <2>6, UnlistedIs
      <3>2. u = t
        <4>1. u # t => (WorksOn(u, x)' <=> WorksOn(u, x))
          BY <2>2 DEF OthersAlone, WorksOn, File
        <4>2. QED
          BY <2>1, <3>1, <4>1
      <3>3. QED
        BY <1>1, <1>2, <2>1, <2>3, <2>6, <3>1, <3>2, WorkEndsWell
    <2>7. QED
      BY <2>4, <2>5, <2>6
  <1>3. CASE \E process \in Processes : Crash(process)
    BY <1>1, <1>3 DEF Crash, TypeOK, ControlInv
  <1>4. CASE Rest \/ UNCHANGED vars
    <2>1. UNCHANGED <<pkgs, entries, pc, job, subject>>
      BY <1>4 DEF Rest, vars, disk, files, database, request
    <2>2. Unlisted' = Unlisted
      BY <2>1 DEF Unlisted, Listing, In, File
    <2>3. QED
      BY <2>2
  <1>5. QED
    BY <1>2, <1>3, <1>4 DEF Next

(* A package file drops out of sight only because a newer version replaces *)
(* its entry, because a crash or a failing system call cuts an operation   *)
(* short, or as the copy of a file that already had: whatever repo-add     *)
(* does, the rollback removes what was installed (service.go:188-193).     *)
THEOREM UnlistedOnlyIfAlways == Spec => UnlistedOnlyIf
  <1>1. ServiceInv /\ OutcomeInv /\ ServiceInv' /\ [Next]_vars =>
            [crashes' = crashes /\ (faults' = faults \/ CommandFailed) =>
                \A x \in Unlisted' \ Unlisted :
                    \/ \E u \in Listing(PlaceOf(x))' : NameOf[u] = NameOf[x.up]
                    \/ \E y \in Unlisted :
                           y.arch = x.arch /\ y.up = x.up /\ y.repo # x.repo]_vars
    BY UnlistedStep
  <1>2. QED
    BY <1>1, ServiceInvariant, OutcomeInvariant, PTL DEF Spec, UnlistedOnlyIf
=============================================================================
