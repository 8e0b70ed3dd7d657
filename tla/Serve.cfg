SPECIFICATION Spec
CONSTANTS
    pager = pager
    asker = asker
    caller1 = caller1
    caller2 = caller2
    ip = ip
    kai = kai
    kubs = kubs
    NoAddr = NoAddr
    Unknown = Unknown
    Root <- MCRoot
    Slash = "/"
    Up = ".."
    Dot = "."
    KaedIgnoreName = ".kaedignore"
    GitName = ".git"
    DenyMatch <- MCDeny
    ClassifyMatch <- MCClassify
    GitIgnored <- MCGitIgnored
    Contents <- MCContents
    MaxFileBytes = 15
    SealedBytes = 4
    Rank <- MCRank
    MaxReadBytes = 50
    PrefixBytes = 2
    Far = 9
    Agents = {pager, asker, caller1, caller2}
    Addrs = {ip}
    Addr <- MCAddr
    Nodes = {kai, kubs}
    FirstOwner <- MCOwner
    Pins <- MCPins
    Enforces = TRUE
    Ttl = 1
    Patience = 1
    Trees <- MCTrees
    Workloads <- MCWorkloads
    MaxTime = 4
    MaxMoves = 1
    MaxRestarts = 1
    MaxPages = 4
INVARIANT NodeIsFresh PagesConcatenate OnlyPermitted FilteredIsCounted
CHECK_DEADLOCK FALSE
