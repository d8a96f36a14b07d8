CONSTANTS
    s1 = s1
    NoShare = NoShare
    Shares = {s1}
    RoundOf <- OneRound
    NumRounds = 1
    MaxConcurrent = 1
    MaxAttempts = 1
    NumSlots = 1
    VoteEnd = 1
    MaxTime = 2
    MaxHeight = 1
    MaxTroubles = 2
    Getters = {"g1", "g2"}
    MaxVersion = 3
    MaxBoots = 2
SPECIFICATION MCSpec
PROPERTIES WitnessForgotten ConfigCatchesUp
