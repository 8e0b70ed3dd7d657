SPECIFICATION FairSpec
CONSTANTS
    A = A
    B = B
    C = C
    D = D
    ax = ax
    bx = bx
    by = by
    cx = cx
    u = u
    v = v
    laptop = laptop
    NoTable = NoTable
    Hosts = {A, B, C, D}
    Agents = {1, 2}
    Enforces = {B}
    Names <- MCNames
    Prefix <- MCPrefix
    Rank <- MCRank
    Hits <- MCHits
    Fleet <- MCFleet
    Identities <- MCIdentities
    Requests <- MCRequests
    MaxResults = 3
    MaxCrashes = 1
INVARIANT OneHop SearchIsHonest StaleIsMarked VerdictIsTrue
PROPERTY EveryCallReturns
CHECK_DEADLOCK FALSE
