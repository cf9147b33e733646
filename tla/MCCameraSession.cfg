\* Safety, with results of several conversions of two RAFs in the store.
SPECIFICATION Spec
CONSTANTS
    RAFs = {r1, r2}
    Edits = {}
    Handles = {h1, h2, h3}
    Nil = Nil
    RafObject = RafObject
    MaxPolls = 1
    MaxConversions = 2
CHECK_DEADLOCK FALSE
SYMMETRY Symmetry
INVARIANTS
    SessionAgrees
    SessionTruth
    TargetIsAResult
    NeverRedelivered
    OwnResult
    ConvertsLoadedRaf
