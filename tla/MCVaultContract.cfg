SPECIFICATION ContractSpec
CONSTANTS
    Participants = {pa, pb, pc}
    FirstInRoster = pa
    None = None
    Deposit = 10000
    FirstWithdrawal = 9500
    SecondWithdrawal = 10250
    SoloFeeBudget = 2000
    SoloFee = 300
    CooperativeFee = 300
    RecoveryFee = 500
    FinalSweepFee = 300
    RecoveryDelay = 2
    RelayFloor = 250
    InputValues = {10200, 10202, 10530}
    FundingFees = {602}
    LeaverFees = {249, 2000, 3700}
SYMMETRY Alike
CHECK_DEADLOCK FALSE
INVARIANTS
    EveryoneCanLeave
    EachGetsTheirDue
    RecoveryNeedsWitnesses
