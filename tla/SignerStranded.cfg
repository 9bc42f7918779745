SPECIFICATION FairSpec
CONSTANTS
    N = 2
    Copies = 3
    Reliable = TRUE
    MaxLoss = 3
    Prompt = TRUE
    MaxRestarts = 0
    Budget = FALSE
CHECK_DEADLOCK FALSE
PROPERTIES EveryGapCloses
