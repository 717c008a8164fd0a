SPECIFICATION PasskeysSpec
CONSTANTS
    Pages = {q1, q2}
    Credentials = {c1, c2, c3}
    Counting = {c1}
    Salts = {s1, s2, s3}
    Enrolments = {e1, e2}
    MaxCount = 3
    None = None
SYMMETRY Symmetry
INVARIANTS
    PasskeysTypeOK
    EnvelopesOpen
    SetupCanResume
    RecoverySurvivesLoss
PROPERTIES
    WorkingStaysWorking
