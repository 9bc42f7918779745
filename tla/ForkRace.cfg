SPECIFICATION Spec
CONSTANTS
    Node = {n1, n2}
    Member = {n1, n2, absent}
    Server = server
    Miner = {n1, n2}
    InitPeers <- EverybodyKnown
    Outside <- OnlyN1
    Reliable = TRUE
    MaxHeight = 3
    Tx = {t1}
    SignedTx = {t1}
    Stamp = {g1, g2, bad}
    GoodStamp = {g1, g2}
    MaxTxs = 2
    n1 = n1
    n2 = n2
    absent = absent
    t1 = t1
    g1 = g1
    bad = bad
CHECK_DEADLOCK FALSE
INVARIANTS LedgerAgrees OrphansAskedFor NoDoubleInclusion
PROPERTIES TipOnlyClimbs LandingAdoptsLongest ImplementsLongestChain
