CONSTANTS
    alice = alice
    bob = bob
    carol = carol
    u1 = u1
    u2 = u2
    u3 = u3
    o1 = o1
    o2 = o2
    Participants = {alice, bob}
    Utxos = {u1, u2}
    Fees = {1, 2}
    Witnesses = {1}
    Reasons = {"stale", "fee"}
    Operators = {o1, o2}
    None = None
    AskedIn = {"awaiting_approvals"}
    MaxRestarts = 1
    MaxClaims = 2
SPECIFICATION FundingSpec
ACTION_CONSTRAINT Steady
SYMMETRY Symmetry
INVARIANTS
    SentIsPinned
    UnanimousExactBytes
    RestartStaysOpen
PROPERTIES
    SubmissionFreedOnlyUnsent
    RestartIsUnanimous
