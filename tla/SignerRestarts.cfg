SPECIFICATION Spec
CONSTANTS
    N = 2
    Copies = 2
    Reliable = FALSE
    MaxLoss = 0
    Prompt = FALSE
    MaxRestarts = 2
    Budget = TRUE
INVARIANTS TypeOK BundlesVerify LeavesConfirmed
PROPERTIES ImplementsGroupSigning
