\* Alice's tabs share a nonce by duplication; bob's tab is closed, reloaded and
\* gives up, and has a second nonce to begin again with.
CONSTANTS
    alice = alice
    bob = bob
    a1 = a1
    a2 = a2
    b1 = b1
    p1 = p1
    p2 = p2
    Signers = {alice, bob}
    Tabs = {a1, a2, b1}
    OwnerOf <- Owner
    Proposals = {p1, p2}
    Shaky = {b1}
    MaxNonces <- Nonces
    MaxOnTheWay = 2
    None = None
SPECIFICATION SigningSpec
SYMMETRY Symmetry
INVARIANTS
    NonceSignsOnce
    ExitSignedByAll
    RetryIsTheSame
PROPERTIES
    SecretsSurvive
