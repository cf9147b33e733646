SPECIFICATION FairSpec
CONSTANTS
    c1 = c1
    c2 = c2
    c3 = c3
    Clients = {c1, c2, c3}
    Size <- ThreeSizes
    Inodes = {i1, i2, i3, i4}
    Nil = Nil
INVARIANTS
    TypeOK
    OwnBytesAlone
    NoFileLeft
PROPERTY SavedRequestEnds
CHECK_DEADLOCK FALSE
