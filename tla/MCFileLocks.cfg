CONSTANTS
    t1 = t1  t2 = t2  t3 = t3
    p1 = p1  p2 = p2
    k1 = k1  k2 = k2  k3 = k3
    f1 = f1  f2 = f2
    Threads <- MCThreads
    Keys <- MCKeys
    Processes <- MCProcesses
    ProcessOf <- MCProcessOf
    LockFiles <- MCLockFiles
    LockFileOf <- MCLockFileOf
    MaxRequests = 4
SPECIFICATION FairSpec
INVARIANTS MutualExclusion NothingLeaks RWMutexNeverWaits
PROPERTIES ImplementsLock EveryCallReturns
