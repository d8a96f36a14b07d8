CONSTANTS
    \* three shares of two rounds
    sh1 = sh1
    sh2 = sh2
    sh3 = sh3
    NoShare = NoShare
    Shares = {sh1, sh2, sh3}
    RoundOf <- TwoRounds
    NumRounds = 2
    MaxConcurrent = 2
    MaxAttempts = 1
    NumSlots = 1
    VoteEnd = 2
    MaxTime = 1
    MaxHeight = 1
    MaxTroubles = 0
    \* Rounds shorter and longer than the cap of a schedule, first attempts at the
    \* start and inside the last margin.  Half seconds.
    Second = 2
    MaxDuration = 24
    SafetyBuffer = 7
    MinBuffer = 3
    FinalJitter = 2
    MinSpacing = 2
    Offset1 = 4
    Offset2 = 9
    LastWindow = 12
    Backoff = 4
    UrgentBackoff = 2
    DeadlineBuffer = 4
    StalledMax = 10
    MaxStalled = 2
    FailedMaxAttempts = 5
    Starts = {1, 21}
    EarlierAttempts = {1}
    VoteEnds = {26, 40}
    Delays = {0, 5}
    Horizon = 26
    MaxRestarts = 1
    \* two operators, two requests
    o1 = o1
    o2 = o2
    h1 = h1
    h2 = h2
    Operators = {o1, o2}
    Registers = {h1, h2}
    RequestWindow = 1
    PendingTTL = 2
    MaxDelay = 1
    MaxNow = 3
    MaxStarts = 2
SPECIFICATION MCSpec
SYMMETRY QueueSymmetry
INVARIANTS StoredStateDecodes ProofsBounded PendingListed
PROPERTIES FairDispatch PollsPaced
CHECK_DEADLOCK FALSE
