SPECIFICATION Spec
CONSTANTS
    c1 = c1
    c2 = c2
    c3 = c3
    Clients = {c1, c2}
    Size <- TwoSizes
    Inodes = {i1, i2, i3}
    Nil = Nil
INVARIANT ExactLength
CHECK_DEADLOCK FALSE
