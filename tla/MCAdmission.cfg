SPECIFICATION AdmissionSpec
CONSTANTS
    Me = "me"
    Rival = "rival"
    RoundProposals = 2
    RoundOptions = 2
    MaxProposals = 3
    MaxVoteOptions = 3
    MaxGovNullifiers = 2
    ShareLimit = 1
    MaxTxBytes <- MCMaxTxBytes
    MaxBroadcasts = 2
    Scenarios <- MCScenarios
    MempoolSize = 2
    BlockSize = 2
    MaxBlocks = 3
    MaxCalls = 1
    MaxRestarts = 1
    Base = 32
    RoundIDLen = 2
    RoundIDs <- MCRoundIDs
    Nullifiers <- MCNullifiers
    Proposals = {30, 31}
    Decisions = {0, 31}
    Indices = {1, 31}
    Operators <- MCOperators
    PallasKeys <- MCPallasKeys
    EndorserIDs <- MCEndorserIDs
    Addresses = {a1}
    FirstShare <- MCFirstShare
    MaxMessages = 3
    MaxHeight = 1
INVARIANTS StoreScansExact StoreRoundTrips OwnProposalAccepted MempoolExecutable ExecutedAsAuthorised AnswersAreTrue
CHECK_DEADLOCK FALSE
