CONSTANTS
    k1 = k1  v1 = v1  v2 = v2
    NoSet = NoSet  None = None
    SigningKeys = {k1}
    Verifiers = {v1, v2}
    Request = v1
    Lifetime = 2
    MaxTime = 2
    Bodies <- MCBodies
    MaxBody = 6
    Buffer = 1
SPECIFICATION MCFairSpec
INVARIANTS BoundedTrust PublishesComplete RejectsMalformedOnly TellsTheTruth ReportsEarlyAnswer AuthorizedOnly
PROPERTIES UploadEnds
