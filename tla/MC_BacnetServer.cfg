CONSTANTS
    k1 = k1
    k2 = k2
    s1 = s1
    s2 = s2
    NoKey = NoKey
    Keys <- MCKeys
    Subscribers <- MCSubscribers
    Values <- MCValues
    Increments <- MCIncrements
    MaxLifetime = 2
    MaxObjects = 1
    MaxCovSubscriptions = 2

SPECIFICATION Spec
SYMMETRY Symmetry

INVARIANT TypeOK
INVARIANT CountersMatchTables
INVARIANT TablesBounded
PROPERTY NoNotificationWithoutChange
PROPERTY CovRefinement
