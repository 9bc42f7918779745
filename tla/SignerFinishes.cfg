SPECIFICATION FairSpec
CONSTANTS
    N = 2
    Copies = 3
    Reliable = TRUE
    MaxLoss = 2
    Prompt = TRUE
    MaxRestarts = 0
    Budget = TRUE
CHECK_DEADLOCK FALSE
PROPERTIES EverybodyFinishes
