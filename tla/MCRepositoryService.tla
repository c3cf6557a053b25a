------------------------ MODULE MCRepositoryService ------------------------
(* RepositoryService with two requests at a time.  The packages are two    *)
(* versions of one package, the second signed, and a third archive of       *)
(* another name uploaded under the file name of the second; for the second *)
(* architecture only the signed one passes the inspection.                 *)
EXTENDS RepositoryInvariant, TLC

CONSTANTS t1, t2, p1, p2, r1, r2, x86, arm, v1, v2, other, foo, bar, n1, n2

MCThreads == {t1, t2}
OneThread == {t1}
OneProcess == [t \in OneThread |-> p1]
TwoProcesses == [t \in MCThreads |-> IF t = t1 THEN p1 ELSE p2]
MCProcesses == {p1, p2}
MCRepos == {r1, r2}
MCArchs == {x86, arm}
OneArch == {x86}
MCPackages == {v1, v2, other}
MCNameOf == [u \in MCPackages |-> IF u = other THEN bar ELSE foo]
MCFileOf == [u \in MCPackages |-> IF u = v1 THEN "foo-1" ELSE "foo-2"]
MCSigned == {v2}
MCAccepted == (MCPackages \X {x86}) \cup {<<v2, arm>>}
MCTempNames == {n1, n2}
TwoVersions == {v1, v2}
TwoVersionsAccepted == {<<v1, x86>>, <<v2, x86>>, <<v2, arm>>}
OneArchAccepted == MCPackages \X OneArch

Symmetry == Permutations(MCRepos) \cup Permutations(MCTempNames)
=============================================================================
