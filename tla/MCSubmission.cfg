\* Submissions that race, crash and lose answers, on a chain that only grows.
CONSTANTS
    fund = fund
    first = first
    rival = rival
    next = next
    FundingTx = fund
    Spends = {first, rival}
    Terminal = {rival}
    InputOf <- Rivals
    Blocks <- MCBlocks
    NoBlock = NoBlock
    MaxVersions = 2
    MaxHeight = 2
    MaxForks = 0
    MaxDepth = 1
    Buried = {}
    Required = 1
    MayExpire = {first}
    Web = web
    Watcher = watcher
SPECIFICATION FairWatcherSpec
INVARIANTS
    ReleasedIsTracked
PROPERTIES
    ApprovedIntentIsCarriedOut
