CONSTANTS
    a = a
    nj = nj
    no = no
    pd = pd
    jt = jt
    W <- MCW
    Events <- MCEvents
    Offsets <- MCOffsets
    Absent <- a
    InvalidJson <- nj
    NotObject <- no
    Pending <- pd
    JsonTrue <- jt
SPECIFICATION Spec
INVARIANTS
    TypeOK
    DecodesPerSchema
