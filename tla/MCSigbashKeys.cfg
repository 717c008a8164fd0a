\* Two tabs over a history that holds exactly what three keys need; three slots of the command.
CONSTANTS
    pair1 = pair1
    pair2 = pair2
    all = all
    alice = alice
    bob = bob
    Orgs = {o1, o2, op}
    Operator = op
    Indexes = {0, 1, 2}
    Pages = {q1, q2}
    PairRounds <- TwoPairs
    RoundOne = all
    Terms = {t1, t2}
    MaxRevision = 7
    SlotOrder <- ThreeSlots
    None = None
    Strict = FALSE
    Browser = browser
    Command = command
SPECIFICATION SigbashKeysSpec
SYMMETRY Symmetry
INVARIANTS
    NoKeyIsStranded
    KitBeforePublic
    RetryIsPossible
