------------------------------ MODULE Passkeys ------------------------------
(***************************************************************************)
(* The passkeys of one seat: claiming the seat with its invite, sealing    *)
(* the participant's Bitcoin secret under a passkey, signing in, unlocking *)
(* and enrolling a further, recovery passkey.  Pages (browser tabs, on any *)
(* device) walk through their requests one at a time and may stop at every *)
(* step, which is also what an expired challenge or session makes of them; *)
(* enrolments and the invite may expire at any time.                       *)
(*                                                                         *)
(* A finish request reads the challenge with the stored counter, verifies  *)
(* the assertion against them, and only then runs its transaction: two     *)
(* steps here, so that requests over one passkey interleave.               *)
(*                                                                         *)
(* A salt is drawn afresh for every envelope, and so is the secret a setup *)
(* page seals under it: the secret is named by that salt.                  *)
(***************************************************************************)
EXTENDS Naturals, FiniteSets

CONSTANTS
    Pages,       \* browser tabs
    Credentials, \* passkeys that authenticators may create
    Counting,    \* those whose authenticator counts its assertions
    Salts,       \* bound: PRF salts drawn
    Enrolments,  \* bound: rows of recovery_enrollments
    MaxCount,    \* bound: assertions of one counting authenticator
    None

ASSUME PasskeysAssumption ==
    /\ IsFiniteSet(Credentials) /\ Counting \subseteq Credentials
    /\ MaxCount \in Nat
    /\ None \notin Pages \cup Credentials \cup Salts \cup Enrolments

VARIABLES
    invite,    \* "open", or no longer usable: "used", "expired"
    member,    \* users and vault_members: the seat is taken
    rows,      \* webauthn_credentials
    stored,    \* their counter column
    enabled,   \* their prf_enabled column
    envelope,  \* passkey_envelopes: [salt, key: salt of the PRF key, secret]
    identity,  \* participant_key_material: the secret it is derived from
    enrolment, \* recovery_enrollments: [status, source, new]
    signedIn,  \* pages with a session that has not expired
    created,   \* passkeys an authenticator has created
    count,     \* assertion counters of the authenticators
    drawn,     \* salts drawn
    page       \* what every page is doing

database == <<invite, member, rows, stored, enabled, envelope, identity, enrolment>>
devices == <<created, count, drawn>>
vars == <<database, signedIn, devices, page>>

Flows == {"idle", "register", "envelope", "login", "unlock", "authorize",
          "recoveryRegister", "recoveryEnvelope"}
Stages == {"asked", "answered", "verified", "done"}

(* A page at rest.  cred, salt, enrol: what its challenge is bound to;     *)
(* answer: the counter of the assertion; observed: the stored counter its  *)
(* verification read; prf: the salt its PRF key was evaluated at; secret:  *)
(* the participant secret in the page's memory.                            *)
Rest == [flow |-> "idle", stage |-> "done", cred |-> None,
         salt |-> None, prf |-> None, secret |-> None, enrol |-> None,
         answer |-> 0, observed |-> 0]

NoEnvelope == [salt |-> None, key |-> None, secret |-> None]
NoEnrolment == [status |-> "none", source |-> None, new |-> None]

At(q, flow, stage) == page[q].flow = flow /\ page[q].stage = stage
Goes(q, rest) == page' = [page EXCEPT ![q] = rest]
OpenEnrolments == {e \in Enrolments : enrolment[e].status = "open"}

(* new_credential_id of an enrolment whose completed_at is null.           *)
Unfinished(c) ==
    \E e \in Enrolments : enrolment[e].status \in {"open", "expired"} /\ enrolment[e].new = c

Init ==
    /\ invite = "open" /\ member = FALSE
    /\ rows = {} /\ enabled = {} /\ stored = [c \in Credentials |-> 0]
    /\ envelope = [c \in Credentials |-> NoEnvelope] /\ identity = None
    /\ enrolment = [e \in Enrolments |-> NoEnrolment]
    /\ signedIn = {}
    /\ created = {} /\ count = [c \in Credentials |-> 0] /\ drawn = {}
    /\ page = [q \in Pages |-> Rest]

-----------------------------------------------------------------------------
(* Claiming the seat.                                                      *)

(* Sessions last fifteen minutes.  One is created after the commit that    *)
(* allows it, which a crash of the server may prevent.                     *)
CreatesSession(q) == signedIn' \in {signedIn, signedIn \cup {q}}
HasSession(q) == q \in signedIn

(* createRegistrationChallenge and, at the end, getRegistrationChallenge.  *)
InviteUsable == invite = "open" /\ ~member

RegisterOptions(q) ==
    /\ page[q].flow = "idle"
    /\ InviteUsable
    /\ Goes(q, [Rest EXCEPT !.flow = "register", !.stage = "asked"])
    /\ UNCHANGED <<database, signedIn, devices>>

(* createPasskey: the authenticator makes a new resident credential.       *)
CreatePasskey(q) ==
    /\ page[q].flow \in {"register", "recoveryRegister"} /\ page[q].stage = "asked"
    /\ \E c \in Credentials \ created :
        /\ created' = created \cup {c}
        /\ Goes(q, [page[q] EXCEPT !.stage = "answered", !.cred = c])
    /\ UNCHANGED <<database, signedIn, count, drawn>>

(* completeRegistration: the invite is consumed with the rows it allows.   *)
TakeSeat(c) ==
    /\ InviteUsable
    /\ invite' = "used" /\ member' = TRUE
    /\ rows' = rows \cup {c} /\ stored' = [stored EXCEPT ![c] = 0]

VerifyRegistration(q) ==
    /\ At(q, "register", "answered")
    /\ TakeSeat(page[q].cred)
    /\ CreatesSession(q)
    /\ Goes(q, Rest)
    /\ UNCHANGED <<enabled, envelope, identity, enrolment, devices>>

-----------------------------------------------------------------------------
(* Assertions.                                                             *)

Challenged(q, flow, c, s, memory) ==
    Goes(q, [memory EXCEPT !.flow = flow, !.stage = "asked", !.cred = c, !.salt = s])

(* createAssertionChallenge: the one passkey of a seat that was claimed.   *)
SetupPasskeys == IF Cardinality(rows) = 1 THEN rows ELSE {}

EnvelopeOptions(q) ==
    /\ page[q].flow = "idle" /\ HasSession(q)
    /\ \E c \in SetupPasskeys, s \in Salts \ drawn :
        /\ drawn' = drawn \cup {s}
        /\ Challenged(q, "envelope", c, s, Rest)
    /\ UNCHANGED <<database, signedIn, created, count>>

LoginOptions(q) ==
    /\ page[q].flow = "idle"
    /\ Challenged(q, "login", None, None, Rest)
    /\ UNCHANGED <<database, signedIn, devices>>

(* createUnlockChallenge: a completed passkey of the member, asked for its *)
(* PRF at the salt of its envelope.                                        *)
UnlockChallenge(q, flow) ==
    \E c \in rows \cap enabled :
        /\ envelope[c] # NoEnvelope
        /\ Challenged(q, flow, c, envelope[c].salt, Rest)

UnlockOptions(q) ==
    /\ page[q].flow = "idle" /\ HasSession(q)
    /\ UnlockChallenge(q, "unlock")
    /\ UNCHANGED <<database, signedIn, devices>>

AuthorizeOptions(q) ==
    /\ page[q].flow = "idle" /\ HasSession(q)
    /\ UnlockChallenge(q, "authorize")
    /\ UNCHANGED <<database, signedIn, devices>>

(* assertPasskey: a sign-in takes any passkey at hand, every other flow    *)
(* the one of its challenge, with the PRF evaluated at the challenge's     *)
(* salt.  The setup page then draws the secret it will seal.               *)
AssertPasskey(q, flow) ==
    /\ At(q, flow, "asked")
    /\ \E c \in created :
        LET answer == IF c \in Counting THEN count[c] + 1 ELSE 0 IN
        /\ flow # "login" => c = page[q].cred
        /\ answer <= MaxCount
        /\ count' = [count EXCEPT ![c] = answer]
        /\ Goes(q, [page[q] EXCEPT
                       !.stage = "answered", !.cred = c, !.prf = page[q].salt,
                       !.answer = answer,
                       !.secret = IF flow = "envelope" THEN page[q].salt ELSE @])
    /\ UNCHANGED <<database, signedIn, created, drawn>>

(* verifyAuthenticationResponse: a counter must grow unless both are zero. *)
CounterAdvances(answer, before) ==
    (answer > 0 \/ before > 0) => answer > before

(* getAssertionChallenge, for the session it was issued to.                *)
ReadAssertionChallenge(q, c) == HasSession(q) /\ c \in rows

(* getLoginChallenge: not for the passkey of an uncompleted enrolment.     *)
ReadLoginChallenge(c) == c \in rows /\ ~Unfinished(c)

(* The finish request reads the challenge and the credential and verifies  *)
(* the assertion.                                                          *)
Verify(q, flow) ==
    LET c == page[q].cred IN
    /\ At(q, flow, "answered")
    /\ IF flow = "login" THEN ReadLoginChallenge(c) ELSE ReadAssertionChallenge(q, c)
    /\ CounterAdvances(page[q].answer, stored[c])
    /\ Goes(q, [page[q] EXCEPT !.stage = "verified", !.observed = stored[c]])
    /\ UNCHANGED <<database, signedIn, devices>>

(* Mutant: the stored counter is written without comparing it.             *)
SetCounterBlindly(q) ==
    /\ page[q].cred \in rows
    /\ stored' = [stored EXCEPT ![page[q].cred] = page[q].answer]

(* What the transaction of every finish request demands and does: the      *)
(* passkey's counter is still the one observed.                            *)
CompareAndSetCounter(q) ==
    /\ page[q].cred \in rows
    /\ stored[page[q].cred] = page[q].observed
    /\ stored' = [stored EXCEPT ![page[q].cred] = page[q].answer]

-----------------------------------------------------------------------------
(* The transactions of the finish requests.                                *)

(* encryptParticipantSecretEnvelope, stored with the challenge's salt.     *)
Sealed(q) == [salt |-> page[q].salt, key |-> page[q].prf, secret |-> page[q].secret]

(* Mutant: ON CONFLICT DO UPDATE of the envelope, while the key material   *)
(* of the first setup page is kept.                                        *)
ReplaceEnvelope(q) ==
    LET c == page[q].cred IN
    /\ envelope' = [envelope EXCEPT ![c] = Sealed(q)]
    /\ CompareAndSetCounter(q)
    /\ enabled' = enabled \cup {c}
    /\ identity' = IF identity = None THEN page[q].secret ELSE identity

(* Mutant: the envelope is inserted outside the transaction whose counter  *)
(* check may fail.                                                         *)
InsertEnvelopeFirst(q) ==
    LET c == page[q].cred
        current == stored[c] = page[q].observed IN
    /\ envelope[c] = NoEnvelope /\ identity = None
    /\ envelope' = [envelope EXCEPT ![c] = Sealed(q)]
    /\ stored' = IF current THEN [stored EXCEPT ![c] = page[q].answer] ELSE stored
    /\ enabled' = IF current THEN enabled \cup {c} ELSE enabled
    /\ identity' = IF current THEN page[q].secret ELSE identity

(* completeEnvelope: INSERT ... ON CONFLICT DO NOTHING, a passkey is given *)
(* one envelope and a participant one identity.                            *)
StoreEnvelope(q) ==
    LET c == page[q].cred IN
    /\ envelope[c] = NoEnvelope /\ identity = None
    /\ envelope' = [envelope EXCEPT ![c] = Sealed(q)]
    /\ CompareAndSetCounter(q)
    /\ enabled' = enabled \cup {c}
    /\ identity' = page[q].secret

FinishEnvelope(q) ==
    /\ At(q, "envelope", "verified")
    /\ StoreEnvelope(q)
    /\ Goes(q, Rest)
    /\ UNCHANGED <<invite, member, rows, enrolment, signedIn, devices>>

FinishLogin(q) ==
    /\ At(q, "login", "verified")
    /\ CompareAndSetCounter(q)
    /\ CreatesSession(q)
    /\ Goes(q, Rest)
    /\ UNCHANGED <<invite, member, rows, enabled, envelope, identity, enrolment, devices>>

(* decryptParticipantSecretEnvelope with the page's PRF key.               *)
Opened(c, prf) == IF envelope[c].key = prf THEN envelope[c].secret ELSE None

(* completeUnlock: the transaction that hands the envelope out.             *)
HandOut(q) ==
    /\ CompareAndSetCounter(q)
    /\ envelope[page[q].cred] # NoEnvelope

(* The request and what the page makes of the envelope it is given.        *)
FinishUnlock(q) ==
    /\ At(q, "unlock", "verified")
    /\ HandOut(q)
    /\ Goes(q, [Rest EXCEPT !.flow = "unlock", !.secret = Opened(page[q].cred, page[q].prf)])
    /\ UNCHANGED <<invite, member, rows, enabled, envelope, identity, enrolment,
                   signedIn, devices>>

(* Mutant: every enrolment past its ten minutes is cleared away, completed *)
(* or not, with its passkey.                                               *)
AllExpiredCredentials ==
    {c \in rows : \E e \in Enrolments :
        enrolment[e].status \in {"expired", "completed"} /\ enrolment[e].new = c}

(* The enrolments an authorization clears away, and their passkeys.        *)
Stale == {e \in Enrolments : enrolment[e].status = "expired"}
StaleCredentials == {c \in rows \ enabled : \E e \in Stale : enrolment[e].new = c}

(* completeRecoveryAuthorization.                                          *)
OpenEnrolment(c, e) ==
    /\ c \in enabled /\ envelope[c] # NoEnvelope
    /\ enrolment[e] = NoEnrolment
    /\ rows' = rows \ StaleCredentials
    /\ enrolment' = [f \in Enrolments |->
           IF f = e THEN [status |-> "open", source |-> c, new |-> None]
           ELSE IF f \in Stale THEN [enrolment[f] EXCEPT !.status = "deleted"]
           ELSE enrolment[f]]

FinishAuthorize(q) ==
    LET c == page[q].cred IN
    /\ At(q, "authorize", "verified")
    /\ CompareAndSetCounter(q)
    /\ \E e \in Enrolments :
        /\ OpenEnrolment(c, e)
        /\ Goes(q, [Rest EXCEPT !.flow = "authorize", !.enrol = e,
                                !.secret = Opened(c, page[q].prf)])
    /\ UNCHANGED <<invite, member, enabled, envelope, identity, signedIn, devices>>

-----------------------------------------------------------------------------
(* The rest of a recovery enrolment, by the page that was authorized.      *)

(* createRecoveryRegistrationChallenge, and the read before it completes.  *)
AwaitsPasskey(e) == e \in OpenEnrolments /\ enrolment[e].new = None

(* The page has compared the secret with the participant's identity.       *)
RecoveryRegisterOptions(q) ==
    /\ At(q, "authorize", "done") /\ page[q].secret = identity
    /\ HasSession(q)
    /\ AwaitsPasskey(page[q].enrol)
    /\ Challenged(q, "recoveryRegister", None, None, page[q])
    /\ UNCHANGED <<database, signedIn, devices>>

(* completeRecoveryRegistration: a passkey that is not enabled yet.        *)
EnrolPasskey(c, e) ==
    /\ AwaitsPasskey(e)
    /\ rows' = rows \cup {c} /\ stored' = [stored EXCEPT ![c] = 0]
    /\ enrolment' = [enrolment EXCEPT ![e].new = c]

VerifyRecoveryRegistration(q) ==
    /\ At(q, "recoveryRegister", "answered")
    /\ HasSession(q)
    /\ EnrolPasskey(page[q].cred, page[q].enrol)
    /\ Goes(q, [page[q] EXCEPT !.stage = "done", !.cred = None])
    /\ UNCHANGED <<invite, member, enabled, envelope, identity, signedIn, devices>>

(* createRecoveryEnvelopeChallenge.                                        *)
NewPasskeys(e) ==
    IF e \in OpenEnrolments THEN {enrolment[e].new} \cap (rows \ enabled) ELSE {}

RecoveryEnvelopeOptions(q) ==
    /\ At(q, "recoveryRegister", "done")
    /\ HasSession(q)
    /\ \E c \in NewPasskeys(page[q].enrol), s \in Salts \ drawn :
        /\ drawn' = drawn \cup {s}
        /\ Challenged(q, "recoveryEnvelope", c, s, page[q])
    /\ UNCHANGED <<database, signedIn, created, count>>

(* completeRecoveryEnvelope: the envelope of the participant's own         *)
(* identity, the enabled passkey and the completed enrolment are one       *)
(* transaction.                                                            *)
CompleteEnrolment(q) ==
    LET c == page[q].cred
        e == page[q].enrol IN
    /\ e \in OpenEnrolments /\ enrolment[e].new = c
    /\ identity # None /\ page[q].secret = identity
    /\ envelope[c] = NoEnvelope /\ c \notin enabled
    /\ envelope' = [envelope EXCEPT ![c] = Sealed(q)]
    /\ CompareAndSetCounter(q)
    /\ enabled' = enabled \cup {c}
    /\ enrolment' = [enrolment EXCEPT ![e].status = "completed"]

FinishRecoveryEnvelope(q) ==
    /\ At(q, "recoveryEnvelope", "verified")
    /\ CompleteEnrolment(q)
    /\ Goes(q, Rest)
    /\ UNCHANGED <<invite, member, rows, identity, signedIn, devices>>

-----------------------------------------------------------------------------
(* What may go wrong at any time.                                          *)

(* A refused request, a closed tab, a lost answer, an expired challenge:   *)
(* the page starts afresh, and may find that its session has expired.      *)
Abandon(q) ==
    /\ page[q].flow # "idle"
    /\ Goes(q, Rest)
    /\ signedIn' \in {signedIn, signedIn \ {q}}
    /\ UNCHANGED <<database, devices>>

ExpireInvite ==
    /\ invite = "open"
    /\ invite' = "expired"
    /\ UNCHANGED <<member, rows, stored, enabled, envelope, identity, enrolment,
                   signedIn, devices, page>>

ExpireEnrolment(e) ==
    /\ e \in OpenEnrolments
    /\ enrolment' = [enrolment EXCEPT ![e].status = "expired"]
    /\ UNCHANGED <<invite, member, rows, stored, enabled, envelope, identity,
                   signedIn, devices, page>>

-----------------------------------------------------------------------------
(* The pages.                                                              *)

FinishKeySetup(q) ==
    \/ EnvelopeOptions(q) \/ AssertPasskey(q, "envelope")
    \/ Verify(q, "envelope") \/ FinishEnvelope(q)

PasskeySetup(q) == RegisterOptions(q) \/ CreatePasskey(q) \/ VerifyRegistration(q)

PasskeySignIn(q) ==
    \/ LoginOptions(q) \/ AssertPasskey(q, "login")
    \/ Verify(q, "login") \/ FinishLogin(q)

PasskeyUnlock(q) ==
    \/ UnlockOptions(q) \/ AssertPasskey(q, "unlock")
    \/ Verify(q, "unlock") \/ FinishUnlock(q)

PasskeyRecoverySetup(q) ==
    \/ AuthorizeOptions(q) \/ AssertPasskey(q, "authorize")
    \/ Verify(q, "authorize") \/ FinishAuthorize(q)
    \/ RecoveryRegisterOptions(q) \/ VerifyRecoveryRegistration(q)
    \/ RecoveryEnvelopeOptions(q) \/ AssertPasskey(q, "recoveryEnvelope")
    \/ Verify(q, "recoveryEnvelope") \/ FinishRecoveryEnvelope(q)

Next ==
    \/ \E q \in Pages :
        \/ PasskeySetup(q) \/ FinishKeySetup(q) \/ PasskeySignIn(q)
        \/ PasskeyUnlock(q) \/ PasskeyRecoverySetup(q) \/ Abandon(q)
    \/ ExpireInvite
    \/ \E e \in Enrolments : ExpireEnrolment(e)

PasskeysSpec == Init /\ [][Next]_vars

-----------------------------------------------------------------------------
(* Properties.                                                             *)

PageRecord ==
    [flow : Flows, stage : Stages, cred : Credentials \cup {None},
     salt : Salts \cup {None}, prf : Salts \cup {None}, secret : Salts \cup {None},
     enrol : Enrolments \cup {None}, answer : Nat, observed : Nat]

(* Types of the rows and of the pages of the passkey routes.               *)
PasskeysTypeOK ==
    /\ invite \in {"open", "used", "expired"} /\ member \in BOOLEAN
    /\ rows \subseteq created /\ created \subseteq Credentials
    /\ enabled \subseteq rows
    /\ stored \in [Credentials -> Nat] /\ count \in [Credentials -> Nat]
    /\ envelope \in [Credentials -> [salt : Salts \cup {None}, key : Salts \cup {None},
                                     secret : Salts \cup {None}]]
    /\ identity \in Salts \cup {None}
    /\ enrolment \in [Enrolments ->
           [status : {"none", "open", "expired", "deleted", "completed"},
            source : Credentials \cup {None}, new : Credentials \cup {None}]]
    /\ signedIn \subseteq Pages /\ drawn \subseteq Salts
    /\ page \in [Pages -> PageRecord]

(* A passkey that gives its owner the participant's secret back: enabled,  *)
(* with an envelope that its PRF at the stored salt opens, holding the     *)
(* secret the vault's roster was derived from.                             *)
Works(c) ==
    /\ c \in rows \cap enabled
    /\ envelope[c].secret = identity /\ envelope[c].key = envelope[c].salt

(* However setup pages, unlocks and enrolments interleave, every envelope  *)
(* on record opens and holds the one identity of its participant, and a    *)
(* page that was given an envelope got that identity's secret out of it.   *)
EnvelopesOpen ==
    /\ \A c \in Credentials : (c \in enabled \/ envelope[c] # NoEnvelope) => Works(c)
    /\ identity # None => \E c \in rows : Works(c)
    /\ \A q \in Pages :
           page[q].flow \in {"unlock", "authorize"} /\ page[q].stage = "done"
               => page[q].secret = identity

(* A setup that stopped between its registration and its envelope can      *)
(* always be taken up again: the seat has exactly one passkey, without an  *)
(* envelope, which is what the envelope's options and finish demand.       *)
SetupCanResume ==
    member /\ identity = None =>
        /\ Cardinality(rows) = 1
        /\ \A c \in rows : c \notin enabled /\ envelope[c] = NoEnvelope /\ ~Unfinished(c)

(* Mutant: every registered passkey counts.                                *)
TwoPasskeysRegistered == Cardinality(rows) >= 2

(* getMemberStatus: two or more enabled passkeys with an envelope.         *)
RecoveryComplete ==
    Cardinality({c \in rows : c \in enabled /\ envelope[c] # NoEnvelope}) >= 2

(* Once the member's page says that recovery is set up, the loss of any    *)
(* one authenticator leaves another passkey that opens the secret: an      *)
(* enrolment that stopped half way does not count.                         *)
RecoverySurvivesLoss ==
    RecoveryComplete => \A c \in created : \E d \in created \ {c} : Works(d)

(* A passkey that works keeps working, also when an authorization clears   *)
(* away the passkeys of enrolments that were never completed, and the      *)
(* counter the server accepted for it never goes back.                     *)
WorkingStaysWorking ==
    [][\A c \in Credentials : Works(c) => Works(c)' /\ stored'[c] >= stored[c]]_vars
=============================================================================
