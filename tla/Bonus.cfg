SPECIFICATION BonusSpec
CONSTANTS
    t1 = t1
    t2 = t2
    t3 = t3
    g1 = g1
    g2 = g2
    bad = bad
    Tx = {t1, t2}
    SignedTx = {t1, t2}
    Stamp = {g1, g2, bad}
    GoodStamp = {g1, g2}
    MaxTxs = 1
    Candidates <- Offers
    max_depth = 1
    MaxHeight = 3
    TxHash = {t1, t2, t3}
    Salt <- Salts
    Short <- ShortIds
    Bodies <- SomeBodies
    TARGET_BLOCK_SECONDS = 16
    RETARGET_INTERVAL = 3
    MIN_DIFFICULTY = 4
    MAX_DIFFICULTY = 8
    Gaps <- SomeGaps
    MaxBlocks = 9
    MEDIAN_PAST_WINDOW = 5
    MAX_FUTURE_DRIFT = 1
    MaxNow = 3
INVARIANTS AcceptedNeverLost NoGapEscapes HonestNotLockedOut
PROPERTIES ComesBackOnlyDisplaced DiscardBounded AbandonsOnlyShadowed ShortOnlyWhenLost
PROPERTIES NearestStep HonestBlockArrives Settles MedianNeverFalls
CHECK_DEADLOCK FALSE
