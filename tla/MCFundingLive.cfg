\* Two confirmations required; a funding, and its exit, reorganized away and mined again.
CONSTANTS
    fund = fund
    first = first
    rival = rival
    next = next
    FundingTx = fund
    Spends = {first}
    Terminal = {}
    InputOf <- OneSpend
    Blocks <- MCBlocks
    NoBlock = NoBlock
    MaxVersions = 1
    MaxHeight = 4
    MaxForks = 1
    MaxDepth = 2
    Buried = {}
    Required = 2
    MayExpire = {}
    Web = web
    Watcher = watcher
SPECIFICATION FairWatcherSpec
PROPERTIES
    FundingIsActivated
