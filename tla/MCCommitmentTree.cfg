CONSTANTS
    n1 = n1
    n2 = n2
    g1 = g1
    g2 = g2
    NoHandle = NoHandle
    Nodes = {n1, n2}
    Notes = {g1}
    NumProposals = 2
    VoteEnd = 5
    MaxPage = 3
    MaxHeight = 6
    MaxImports = 1
SPECIFICATION Spec
INVARIANT StoresAgree
