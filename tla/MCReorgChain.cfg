\* Two-deep reorganizations of a funding, a solo exit and its descendant.
CONSTANTS
    fund = fund
    first = first
    rival = rival
    next = next
    FundingTx = fund
    Spends = {first, next}
    Terminal = {next}
    InputOf <- ChainOfTwo
    Blocks <- MCBlocks
    NoBlock = NoBlock
    MaxVersions = 2
    MaxHeight = 4
    MaxForks = 1
    MaxDepth = 2
    Buried = {}
    Required = 1
    MayExpire = {}
    Web = web
    Watcher = watcher
SPECIFICATION WatcherSpec
INVARIANTS
    WatcherTypeOK
    AnchorsAreEvidence
    ReconciledBeforeNewWork
    QuietReconcileSucceeds
    ReleasedWereApproved
