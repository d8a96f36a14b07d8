CONSTANTS
    \* the tree: two nodes, so that one can restart while the other runs on
    n1 = n1
    n2 = n2
    g1 = g1
    g2 = g2
    NoHandle = NoHandle
    Nodes = {n1, n2}
    Notes = {g1, g2}
    NumProposals = 2
    VoteEnd = 4
    MaxPage = 3
    MaxHeight = 5
    MaxImports = 1
    \* the tally
    Q = 11
    Sizes = {3, 5}
    Draws <- MCDraws
    PallasSk <- MCPallasSk
    Ephemerals = {2}
    Nonces = {9}
    Strays = {4}
    o1 = o1
    o2 = o2
    Options = {o1, o2}
    Ballots = {0, 4}
    Bound = 6
    MaxMisdealt = 1
    MaxReveals = 2
SPECIFICATION MCSpec
SYMMETRY BallotSymmetry
INVARIANTS StoresAgreeUntilImport EveryLeafAnchored OneVotePerNote TreePagesComplete
           SharesInterpolateTheKey DecryptsExactlyTheSum
CHECK_DEADLOCK FALSE
