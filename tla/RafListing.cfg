SPECIFICATION FairSpec
CONSTANTS
    Handle = {h1, h2, h3, h4}
    Storage = {s1}
    Nowhere = nowhere
    MaxDirDepth = 2
    MaxStorages = 2
    MaxKids = 2
INVARIANTS
    TypeOK
    ListedOnce
    EveryRafListed
PROPERTIES
    AskedOnce
    ListingEnds
CHECK_DEADLOCK FALSE
