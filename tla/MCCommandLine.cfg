SPECIFICATION Spec
CONSTANTS
    pa = pa
    pb = pb
    pc = pc
    vault = vault
    pair = pair
    payout = payout
    Participants = {pa, pb, pc}
    FirstInRoster = pa
    Me = pa
    Nobody = Nobody
    None = None
    Deposit = 10000
    FirstWithdrawal = 9500
    SecondWithdrawal = 10250
    SoloFeeBudget = 2000
    SoloFee = 300
    CooperativeFee = 300
    RecoveryFee = 500
    FinalSweepFee = 300
    RecoveryDelay = 2
    RelayFloor = 250
    Outpoints = {vault, pair, payout}
    OnChain <- Coins
    Typed <- Mistyped
    Processes = {p1, p2}
    Paths = {x, y}
    Messages <- MyContexts
    Nonces = {n1, n2}
    Sessions = {s1, s2}
    ReusesPaths = FALSE
SYMMETRY Alike
CHECK_DEADLOCK FALSE
INVARIANTS
    CommandNonceSignsOnce
    FinishedAsAgreed
