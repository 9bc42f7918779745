SPECIFICATION Spec
CONSTANTS
    N = 3
    Copies = 3
    Reliable = FALSE
    MaxLoss = 0
    Prompt = FALSE
    MaxRestarts = 0
    Budget = FALSE
INVARIANTS SignsWhatWasShared
