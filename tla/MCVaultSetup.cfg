\* Three participants from empty seats to a funded-ready vault.
CONSTANTS
    Participants = {"alice", "bob", "carol"}
    Rounds = {"abc", "ab", "ac", "bc"}
    Everyone = "abc"
    LeaveRounds <- MCLeaveRounds
    Economics = {1, 2}
    Builders = {"alice", "bob"}
    Expiring = {"alice"}
    None = None
SPECIFICATION SetupSpec
INVARIANTS
    PoliciesAreFinal
    RosterIsExact
    LastOneMovesOn
    ReadyIsProven
