\* A funding confirmed again while its child waits in the mempool.
CONSTANTS
    fund = fund
    first = first
    rival = rival
    next = next
    FundingTx = fund
    Spends = {first}
    Terminal = {}
    InputOf <- OneSpend
    Blocks <- MCBlocks
    NoBlock = NoBlock
    MaxVersions = 1
    MaxHeight = 3
    MaxForks = 1
    MaxDepth = 1
    Buried = {}
    Required = 1
    MayExpire = {}
    Web = web
    Watcher = watcher
SPECIFICATION FairWatcherSpec
PROPERTIES
    FundingReconfirms
