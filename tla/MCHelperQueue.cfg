CONSTANTS
    s1 = s1
    NoShare = NoShare
    Shares = {s1}
    RoundOf <- OneRound
    NumRounds = 1
    MaxConcurrent = 2
    MaxAttempts = 2
    NumSlots = 2
    VoteEnd = 2
    MaxTime = 2
    MaxHeight = 3
    MaxTroubles = 2
SPECIFICATION Spec
INVARIANTS SharesInOnePlace OncePerHeight
PROPERTIES WitnessUntilCommitted NotBeforeSubmitAt
