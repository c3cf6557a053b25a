------------------------------ MODULE Catalog ------------------------------
(***************************************************************************)
(* What a reader of the depot sees, and the only ways it may change.       *)
(*                                                                         *)
(* A reader (Service.List, pacman fetching a database) sees for every      *)
(* repository/architecture pair a set of packages, empty when there is no  *)
(* database.  Readers take no locks, so what they see must change by whole *)
(* operations, although the program gets there through many small changes  *)
(* to directories and files.                                               *)
(***************************************************************************)
CONSTANTS Repos,     \* repository names
          Archs,     \* architecture names
          Packages,  \* package archives, each with or without a signature
          NameOf,    \* the package name in the archive's .PKGINFO
          Accepted   \* <<package, architecture>>: PublishUpload lets it in

Keys == [repo : Repos, arch : Archs]

VARIABLE catalog

CatalogTypeOK == catalog \in [Keys -> SUBSET Packages]

CatalogInit == catalog = [k \in Keys |-> {}]

(* repo-add: a new package replaces the one of that name.                  *)
Publish(k, u) ==
    /\ <<u, k.arch>> \in Accepted
    /\ catalog' = [catalog EXCEPT ![k] =
                      {v \in @ : NameOf[v] # NameOf[u]} \cup {u}]

(* repo-remove: every package of that name goes, and there was one.        *)
Remove(k, u) ==
    /\ u \in catalog[k]
    /\ catalog' = [catalog EXCEPT ![k] = {v \in @ : NameOf[v] # NameOf[u]}]

(* Renaming shows the whole repository under a name nobody was using ...   *)
Copy(from, to) ==
    /\ \A k \in Keys : k.repo = to => catalog[k] = {}
    /\ catalog' = [k \in Keys |->
                      IF k.repo = to THEN catalog[[k EXCEPT !.repo = from]]
                                     ELSE catalog[k]]

(* ... and then, like removing it, drops the old one database by database. *)
DropDatabase(k) == catalog' = [catalog EXCEPT ![k] = {}]

CatalogNext ==
    \/ \E k \in Keys, u \in Packages : Publish(k, u) \/ Remove(k, u)
    \/ \E from, to \in Repos : from # to /\ Copy(from, to)
    \/ \E k \in Keys : DropDatabase(k)

CatalogSpec == CatalogInit /\ [][CatalogNext]_catalog
=============================================================================
