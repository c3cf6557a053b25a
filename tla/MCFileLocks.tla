---------------------------- MODULE MCFileLocks ----------------------------
(* FileLocks with two requests in one process and a third in another, over *)
(* three pairs two of which share a lock file: "a-b"/"c" and "a"/"b-c" are *)
(* both locked through a-b-c.lock.                                         *)
EXTENDS FileLocks

CONSTANTS t1, t2, t3, p1, p2, k1, k2, k3, f1, f2

MCThreads == {t1, t2, t3}
MCKeys == {k1, k2, k3}
MCProcesses == {p1, p2}
MCProcessOf == [t \in MCThreads |-> IF t = t3 THEN p2 ELSE p1]
MCLockFiles == {f1, f2}
MCLockFileOf == [k \in MCKeys |-> IF k = k1 THEN f1 ELSE f2]
=============================================================================
