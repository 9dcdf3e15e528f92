\* Two instances come up against an empty database; one is killed half way.
SPECIFICATION ShelfSpec
CONSTANTS
    b1 = b1
    b2 = b2
    u1 = u1
    u2 = u2
    d1 = d1
    s1 = s1
    s2 = s2
    p1 = p1
    n1 = n1
    n2 = n2
    n3 = n3
    none = none
    Settings <- FourSettings
    Boots = {b1, b2}
    Uploads = {u1, u2}
    Downloads = {d1}
    Listed = {p1}
    SeedDocs <- TwoSeeds
    Names = {n1, n2, n3}
    KeyOf <- TwoKeys
    NoDoc = none
SYMMETRY ShelfSymmetry
CHECK_DEADLOCK FALSE
INVARIANT
    HalfSeedIsRetried
