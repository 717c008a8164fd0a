\* Every interleaving of requests, submissions, confirmations and rollbacks
\* over two competing exits and one descendant.
CONSTANTS
    fund = fund
    soloA = soloA
    soloB = soloB
    coopA = coopA
    FundingTx = fund
    Spends <- MCSpends
    Terminal <- MCTerminal
    InputOf <- MCInputOf
    Blocks = {b1, b2}
    NoBlock = NoBlock
    MaxVersions = 2
SYMMETRY BlockSymmetry
SPECIFICATION Spec
INVARIANTS
    Lineage
    RollbackNeverStuck
PROPERTIES
    BroadcastStaysTracked
    AuthorizedIntentKept
    TipMovesAlongOneSpend
    ImplementsLineage
