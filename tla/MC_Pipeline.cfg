CONSTANTS
    k1 = k1
    k2 = k2
    c1 = c1
    s1 = s1
    s2 = s2
    NoKey = NoKey
    NoRecord = NoRecord
    NoEvent = NoEvent
    Keys <- MCKeys
    Subscribers <- MCSubscribers
    Subs <- MCSubs
    Values <- MCValues
    Increments <- MCIncrements
    Streams <- MCStreams
    MaxLifetime = 1
    MaxObjects = 1
    MaxCovSubscriptions = 1
    MaxRedeliveries = 1
    MaxCrashes = 1

SPECIFICATION FairSpec
INVARIANT PipelineTypeOK
INVARIANT RegistryBackedByCache
PROPERTY StreamsDrained
