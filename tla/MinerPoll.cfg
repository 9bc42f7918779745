SPECIFICATION WatchSpec
CONSTANTS
    MaxWorkers = 3
    MaxNonce = 16
    Proofs <- FirstIsGood
    PollEvery = 4
INVARIANTS PolledOncePerPeriod
CHECK_DEADLOCK FALSE
