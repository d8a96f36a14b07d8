\* Two rounds; validator 2 may be jailed by x/slashing at any time.
SPECIFICATION FairSpec
CONSTANTS
  Rounds = {1, 2}
  Validators = {1, 2}
  Flaky = {2}
  Shares <- MCPair
  Slots <- MCSlots
  SlotOf <- MCPairSlotOf
  ValueOf <- MCPairValueOf
  MinCeremonyValidators = 1
  ContributionTimeout = 1
  DealTimeout = 1
  TallyTimeout = 1
  TallyBSGSBound = 2
  VoteEnds = {2}
  MaxStep = 1
  CreateBy = 1
  MaxTime = 5
INVARIANTS OneCeremonyAtATime NoRepeatOffender
PROPERTIES ImplementsVoteSession EveryRoundSettles
