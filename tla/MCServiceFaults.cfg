CONSTANTS
    t1 = t1  t2 = t2  p1 = p1  p2 = p2
    r1 = r1  r2 = r2  x86 = x86  arm = arm
    v1 = v1  v2 = v2  other = other  foo = foo  bar = bar
    n1 = n1  n2 = n2
    None = None
    Threads <- MCThreads
    Processes <- MCProcesses
    ProcessOf <- TwoProcesses
    Repos <- MCRepos
    Archs <- OneArch
    Packages <- MCPackages
    NameOf <- MCNameOf
    FileOf <- MCFileOf
    Signed <- MCSigned
    Accepted <- OneArchAccepted
    TempNames <- MCTempNames
    MaxRequests = 3
    MaxFaults = 1
    MaxCrashes = 1
SYMMETRY Symmetry
SPECIFICATION Spec
INVARIANTS DatabaseBacked RenameLosesNothing RepliesTruthful SignaturesFaithful
PROPERTIES NeverOverwritten UnlistedOnlyIf TemporariesReclaimed ImplementsCatalog
