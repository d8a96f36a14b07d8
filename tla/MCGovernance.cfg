CONSTANTS
    Parts = {"coordinators", "registry", "config"}
    \* coordinator actions
    acct1 = acct1
    acct2 = acct2
    acct3 = acct3
    e1 = e1
    r1 = r1
    r2 = r2
    v1 = v1
    v2 = v2
    Nothing = Nothing
    Accounts <- MCAccounts
    InitialPolicy <- MCInitialPolicy
    InitialAccounts = {acct1, acct2}
    InitialFunds = 3
    Payloads <- MCPayloads
    Endorsers = {e1}
    Rounds = {r1, r2}
    MaxEligible = 1
    TTL = 1
    MaxActions = 2
    MaxTime = 3
    \* the registry
    val1 = val1
    val2 = val2
    val3 = val3
    k1 = k1
    k2 = k2
    k3 = k3
    NoKey = NoKey
    Nobody = Nobody
    Validators = {val1, val2, val3}
    Keys = {k1, k2, k3}
    \* the repository
    RoundIDs = {"r1", "r2"}
    ElectionKeys = {"ea1", "ea2"}
    Tokens = {"s1", "s2"}
    Requests <- MCRequests
    Scenarios <- MCScenarios
    Updates <- MCUpdates
    Scope = "prod"
    PinnedKeys = {"coord"}
    HumanKeys <- MCHumanKeys
    NewLayout <- Layout2
    StartingMain <- MCStartingMain
    TimestampWindow = 1
    MaxBatch = 32
    MaxClock = 2
    MaxEdits = 1
SPECIFICATION MCSpec
INVARIANTS CoordinatorsCanAct EffectsMatchExecutions IndicesAgree CeremonyKeysAreCurrent
           ConfigFilesAuthorised ConfigRequestsKept
PROPERTY PrivilegedChangesHaveQuorum
CHECK_DEADLOCK FALSE
