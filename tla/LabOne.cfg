SPECIFICATION Spec
CONSTANTS
    MaxWorkers = 3
    MaxNonce = 8
    Proofs <- OneOrTwoProofs
    PollEvery = 4
    Server = server
    Stranger = stranger
    MaxLoss = 1
INVARIANTS LeastOfItsStride AnswerUnderway SubmitsTheProof DoneMeansSubmitted
PROPERTIES SearchReturns FinishesUnlessLost
CHECK_DEADLOCK FALSE
