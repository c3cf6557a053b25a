----------------------------- MODULE MCQueries -----------------------------
(* One query during requests served one after the other.  The packages are *)
(* a signed one, accepted for both architectures, and an unsigned one of   *)
(* another name, for the first only.  A page of the walk holds one.        *)
EXTENDS Queries

CONSTANTS t1, p1, r1, r2, x86, arm, signed, plain, foo, bar, n1

OneThread == {t1}
MCProcesses == {p1}
OneProcess == [t \in OneThread |-> p1]
MCRepos == {r1, r2}
MCArchs == {x86, arm}
MCPackages == {signed, plain}
MCNameOf == [u \in MCPackages |-> IF u = plain THEN bar ELSE foo]
MCFileOf == [u \in MCPackages |-> u]
MCSigned == {signed}
MCAccepted == {<<signed, x86>>, <<plain, x86>>, <<signed, arm>>}
OneName == {n1}
MCRank == [n \in {foo, bar} |-> IF n = bar THEN 1 ELSE 2]
MCAsked == {[kind |-> "repositories"], [kind |-> "page", repo |-> r1],
            [kind |-> "walk", repo |-> r1, arch |-> x86]}
=============================================================================
