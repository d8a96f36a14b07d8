SPECIFICATION Spec
CONSTANTS
    Rounds = {1}
    Validators = {1, 2, 3, 4, 5}
    Flaky = {}
    Shares <- MCShares
    Slots <- MCSlots
    SlotOf <- MCSlotOf
    ValueOf <- MCValueOf
    MinCeremonyValidators = 4
    ContributionTimeout = 1
    DealTimeout = 1
    TallyTimeout = 1
    TallyBSGSBound = 3
    VoteEnds = {1, 2}
    MaxStep = 1
    CreateBy = 0
    MaxTime = 4
INVARIANTS
    SurvivorsReachThreshold
    SharesStayAtTheirIndex
    ResultsAreTheBallots
