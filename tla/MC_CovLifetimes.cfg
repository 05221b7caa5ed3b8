CONSTANTS
    k1 = k1
    s1 = s1
    s2 = s2
    serverThread = serverThread
    mainThread = mainThread
    NoKey = NoKey
    Keys <- MCKeys
    Subscribers <- MCSubscribers
    Tickers <- MCTickers
    Values = {0}
    Increments = {0}
    MaxLifetime = 3
    MaxObjects = 1
    MaxCovSubscriptions = 2
    MaxTime = 4

SPECIFICATION TimedSpec
SYMMETRY Symmetry

INVARIANT TimedTypeOK
INVARIANT NoSubscriptionOutlivesLifetime
