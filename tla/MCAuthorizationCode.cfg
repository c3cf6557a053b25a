CONSTANTS
    t1 = t1  t2 = t2  t3 = t3
    Callers = {t1, t2, t3}
    MaxCalls = 4
    MaxPages = 2
SPECIFICATION FairSpec
CHECK_DEADLOCK FALSE
INVARIANTS OnePromptAtATime ExchangesOwnCode OneCompletePage
    ServerBelongsToCall
PROPERTIES JoinsRunningOne EveryTokenReturns
