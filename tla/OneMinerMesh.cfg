SPECIFICATION FairSpec
CONSTANTS
    Node = {n1, n2, n3}
    Member = {n1, n2, n3}
    Server = server
    Miner = {n1}
    InitPeers <- OnlyMembers
    Outside <- Silence
    Reliable = TRUE
    MaxHeight = 2
    Tx = {}
    SignedTx = {}
    Stamp = {g1, bad}
    GoodStamp = {g1}
    MaxTxs = 2
    n1 = n1
    n2 = n2
    absent = absent
    t1 = t1
    g1 = g1
    bad = bad
CHECK_DEADLOCK FALSE
PROPERTIES EverybodyCatchesUp
