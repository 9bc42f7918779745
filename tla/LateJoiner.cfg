SPECIFICATION BootSpec
CONSTANTS
    Node = {n1, n2}
    Member = {n1, n2}
    Server = server
    Miner = {n1}
    InitPeers <- N2Unknown
    Outside <- Height
    Reliable = TRUE
    MaxHeight = 4
    Tx = {}
    SignedTx = {}
    Stamp = {g1, bad}
    GoodStamp = {g1}
    MaxTxs = 2
    Registrar = n1
    n1 = n1
    n2 = n2
    absent = absent
    t1 = t1
    g1 = g1
    bad = bad
CHECK_DEADLOCK FALSE
PROPERTIES NothingStaysParked TeamHearsEveryBlock RegistrarIsAnswered
