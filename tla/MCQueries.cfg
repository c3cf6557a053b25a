CONSTANTS
    t1 = t1  p1 = p1
    r1 = r1  r2 = r2  x86 = x86  arm = arm
    signed = signed  plain = plain  foo = foo  bar = bar
    n1 = n1
    None = None
    Threads <- OneThread
    Processes <- MCProcesses
    ProcessOf <- OneProcess
    Repos <- MCRepos
    Archs <- MCArchs
    Packages <- MCPackages
    NameOf <- MCNameOf
    FileOf <- MCFileOf
    Signed <- MCSigned
    Accepted <- MCAccepted
    TempNames <- OneName
    Asked <- MCAsked
    Rank <- MCRank
    PageSize = 1
    MaxRequests = 3
    MaxFaults = 0
    MaxCrashes = 0
SPECIFICATION QuerySpec
INVARIANTS QueryTypeOK ListsWhatLasts FoundWhenQuiet FailsOnlyIf SignatureLinks DownloadsWhatIsListed WalkErrsOnlyIf
