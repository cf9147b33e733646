\* Liveness and the parameter edits: no symmetry, one RAF, one conversion.
SPECIFICATION FairSpec
CONSTANTS
    RAFs = {r1}
    Edits = {e1}
    Handles = {h1, h2}
    Nil = Nil
    RafObject = RafObject
    MaxPolls = 2
    MaxConversions = 1
INVARIANTS
    TypeOK
    OwnResult
PROPERTIES
    OperationEnds
CHECK_DEADLOCK FALSE
