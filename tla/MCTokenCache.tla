---------------------------- MODULE MCTokenCache ----------------------------
(* Instances of TokenCache for TLC.                                        *)
EXTENDS TokenCache

CONSTANTS t1, t2, c1, c2, publish, create, publisher, admin

OneProcess == [t \in Threads |-> c1]
OwnProcess == [t \in Threads |-> IF t = t1 THEN c1 ELSE c2]

=============================================================================
