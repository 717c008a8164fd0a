--------------------------- MODULE PasskeysProofs ---------------------------
(***************************************************************************)
(* Proofs about module Passkeys, for any number of pages, passkeys, salts  *)
(* and enrolments.                                                         *)
(***************************************************************************)
EXTENDS Passkeys, FiniteSetTheorems, TLAPS

-----------------------------------------------------------------------------
(* The inductive invariant.                                                *)

(* Enabled passkeys are those with an envelope, and each of them works;    *)
(* nothing is enrolled before there is an identity, which comes with the   *)
(* first envelope of the one passkey that took the seat.                   *)
RowsOK ==
    /\ ~member => rows = {}
    /\ identity = None =>
          /\ enabled = {}
          /\ \A e \in Enrolments : enrolment[e] = NoEnrolment
          /\ member => \E c \in Credentials : rows = {c}
    /\ identity # None => member /\ enabled # {}
    /\ \A c \in Credentials : c \in enabled <=> envelope[c] # NoEnvelope
    /\ \A c \in enabled : Works(c)

(* The page has a new passkey and is about to register it.                 *)
Registering(q) ==
    page[q].flow \in {"register", "recoveryRegister"} /\ page[q].stage = "answered"

(* The page is asking a passkey for the identity.                          *)
Unlocking(q) == page[q].flow \in {"unlock", "authorize"}

(* What a page holds fits the rows: the PRF key it has is for its salt,    *)
(* which is that of the envelope it will be given or will store; the       *)
(* passkey it registers is nobody's yet; its assertion advanced the        *)
(* counter it was verified against.                                        *)
PageOK(q) ==
    /\ page[q].flow \in {"envelope", "login", "unlock", "authorize", "recoveryEnvelope"}
          /\ page[q].stage \in {"answered", "verified"} => page[q].prf = page[q].salt
    /\ page[q].stage = "verified" => CounterAdvances(page[q].answer, page[q].observed)
    /\ page[q].flow = "envelope" =>
          /\ page[q].salt \in Salts
          /\ page[q].stage \in {"answered", "verified"} => page[q].secret = page[q].salt
    /\ Unlocking(q) =>
          /\ identity # None
          /\ IF page[q].stage = "done" THEN page[q].secret = identity
             ELSE page[q].cred \in enabled /\ page[q].salt = envelope[page[q].cred].salt
    /\ Registering(q) => page[q].cred \in created \ rows

(* No two pages register the same passkey.                                 *)
PagesOK ==
    /\ \A q \in Pages : PageOK(q)
    /\ \A p, q \in Pages :
          p # q /\ Registering(p) /\ Registering(q) => page[p].cred # page[q].cred

(* The inductive invariant.                                                *)
PInv == PasskeysTypeOK /\ RowsOK /\ PagesOK

-----------------------------------------------------------------------------
(* The types.                                                              *)

(* The page that acts is left with a record, and nobody else's changes.    *)
LEMMA PageType ==
    ASSUME PasskeysTypeOK, NEW q \in Pages, NEW r \in PageRecord, Goes(q, r)
    PROVE  /\ page' \in [Pages -> PageRecord]
           /\ page'[q] = r
           /\ \A p \in Pages : p # q => page'[p] = page[p]
BY DEF PasskeysTypeOK, Goes

(* A page that forgot everything.                                          *)
LEMMA RestIsPage == Rest \in PageRecord
BY DEF Rest, PageRecord, Flows, Stages

(* What a page becomes in each of its requests is a page again.            *)
LEMMA ChallengedPage ==
    ASSUME NEW memory \in PageRecord, NEW flow \in Flows,
           NEW c \in Credentials \cup {None}, NEW s \in Salts \cup {None}
    PROVE  [memory EXCEPT !.flow = flow, !.stage = "asked", !.cred = c, !.salt = s]
              \in PageRecord
BY DEF PageRecord, Stages

(* What an answer of the authenticator leaves in a page.                   *)
LEMMA AnsweredPage ==
    ASSUME NEW memory \in PageRecord, NEW c \in Credentials, NEW answer \in Nat,
           NEW s \in Salts \cup {None}, NEW secret \in Salts \cup {None}
    PROVE  [memory EXCEPT !.stage = "answered", !.cred = c, !.prf = s, !.answer = answer,
                          !.secret = secret] \in PageRecord
BY DEF PageRecord, Stages

(* What the proofs need of the constants.                                  *)
LEMMA Facts ==
    /\ IsFiniteSet(Credentials) /\ Counting \subseteq Credentials /\ MaxCount \in Nat
    /\ None \notin Pages /\ None \notin Credentials /\ None \notin Salts
    /\ None \notin Enrolments
BY PasskeysAssumption

(* Everything a page does.                                                 *)
Acts(q) ==
    \/ PasskeySetup(q) \/ FinishKeySetup(q) \/ PasskeySignIn(q)
    \/ PasskeyUnlock(q) \/ PasskeyRecoverySetup(q) \/ Abandon(q)

(* Every action of a page leaves it with a record.                         *)
LEMMA PageActs ==
    ASSUME PInv, NEW q \in Pages, Acts(q)
    PROVE  \E r \in PageRecord : Goes(q, r)
<1> USE Facts, RestIsPage DEF PInv, PasskeysTypeOK
<1>1. page[q] \in PageRecord
  OBVIOUS
<1>2. ASSUME NEW memory \in PageRecord, NEW flow \in Flows,
             NEW c \in Credentials \cup {None}, NEW s \in Salts \cup {None},
             Challenged(q, flow, c, s, memory)
      PROVE  \E r \in PageRecord : Goes(q, r)
  BY <1>2, ChallengedPage DEF Challenged
<1>3. CASE RegisterOptions(q)
  <2>1. [Rest EXCEPT !.flow = "register", !.stage = "asked"] \in PageRecord
    BY DEF PageRecord, Flows, Stages
  <2> QED
    BY <1>3, <2>1 DEF RegisterOptions
<1>4. CASE CreatePasskey(q)
  <2>1. \A c \in Credentials : [page[q] EXCEPT !.stage = "answered", !.cred = c] \in PageRecord
    BY <1>1 DEF PageRecord, Stages
  <2> QED
    BY <1>4, <2>1 DEF CreatePasskey
<1>5. CASE \/ VerifyRegistration(q) \/ FinishEnvelope(q) \/ FinishLogin(q)
           \/ FinishRecoveryEnvelope(q) \/ Abandon(q)
  BY <1>5 DEF VerifyRegistration, FinishEnvelope, FinishLogin, FinishRecoveryEnvelope, Abandon
<1>6. CASE EnvelopeOptions(q)
  <2>1. SetupPasskeys \subseteq Credentials
    BY DEF SetupPasskeys
  <2> QED
    BY <1>2, <1>6, <2>1 DEF EnvelopeOptions, Flows
<1>7. CASE LoginOptions(q)
  BY <1>2, <1>7 DEF LoginOptions, Flows
<1>8. CASE UnlockOptions(q) \/ AuthorizeOptions(q)
  <2>1. PICK c \in rows \cap enabled, flow \in {"unlock", "authorize"} :
           Challenged(q, flow, c, envelope[c].salt, Rest)
    BY <1>8 DEF UnlockOptions, AuthorizeOptions, UnlockChallenge
  <2> QED
    BY <1>2, <2>1 DEF Flows
<1>9. ASSUME NEW flow, AssertPasskey(q, flow) PROVE \E r \in PageRecord : Goes(q, r)
  <2>1. PICK c \in created :
           Goes(q, [page[q] EXCEPT
                       !.stage = "answered", !.cred = c, !.prf = page[q].salt,
                       !.answer = IF c \in Counting THEN count[c] + 1 ELSE 0,
                       !.secret = IF flow = "envelope" THEN page[q].salt ELSE @])
    BY <1>9 DEF AssertPasskey
  <2> DEFINE answer == IF c \in Counting THEN count[c] + 1 ELSE 0
             secret == IF flow = "envelope" THEN page[q].salt ELSE page[q].secret
  <2>2. /\ page[q].salt \in Salts \cup {None} /\ page[q].secret \in Salts \cup {None}
        /\ c \in Credentials /\ count[c] \in Nat
    BY <1>1 DEF PageRecord
  <2>3. answer \in Nat /\ secret \in Salts \cup {None}
    BY <2>2
  <2>4. Goes(q, [page[q] EXCEPT !.stage = "answered", !.cred = c, !.prf = page[q].salt,
                                !.answer = answer, !.secret = secret])
    BY <2>1
  <2> HIDE DEF answer, secret
  <2> QED
    BY <1>1, <2>2, <2>3, <2>4, AnsweredPage
<1>10. ASSUME NEW flow, Verify(q, flow) PROVE \E r \in PageRecord : Goes(q, r)
  <2>1. page[q].cred \in Credentials
    BY <1>10 DEF Verify, ReadLoginChallenge, ReadAssertionChallenge
  <2>2. [page[q] EXCEPT !.stage = "verified", !.observed = stored[page[q].cred]] \in PageRecord
    BY <1>1, <2>1 DEF PageRecord, Stages
  <2> QED
    BY <1>10, <2>2 DEF Verify
<1>11. CASE FinishUnlock(q) \/ FinishAuthorize(q)
  <2> DEFINE secret == Opened(page[q].cred, page[q].prf)
  <2>1. secret \in Salts \cup {None}
    <3>1. page[q].cred \in Credentials
      BY <1>11 DEF FinishUnlock, FinishAuthorize, HandOut, CompareAndSetCounter
    <3>2. envelope[page[q].cred].secret \in Salts \cup {None}
      BY <3>1
    <3> QED
      BY <3>2 DEF Opened
  <2> HIDE DEF secret
  <2>2. /\ [Rest EXCEPT !.flow = "unlock", !.secret = secret] \in PageRecord
        /\ \A e \in Enrolments :
              [Rest EXCEPT !.flow = "authorize", !.enrol = e, !.secret = secret] \in PageRecord
    BY <2>1 DEF PageRecord, Flows, Stages
  <2> QED
    BY <1>11, <2>2 DEF FinishUnlock, FinishAuthorize, secret
<1>12. CASE RecoveryRegisterOptions(q)
  BY <1>1, <1>2, <1>12 DEF RecoveryRegisterOptions, Flows
<1>13. CASE VerifyRecoveryRegistration(q)
  <2>1. [page[q] EXCEPT !.stage = "done", !.cred = None] \in PageRecord
    BY <1>1 DEF PageRecord, Stages
  <2> QED
    BY <1>13, <2>1 DEF VerifyRecoveryRegistration
<1>14. CASE RecoveryEnvelopeOptions(q)
  <2>1. \A e : NewPasskeys(e) \subseteq Credentials
    BY DEF NewPasskeys
  <2> QED
    BY <1>1, <1>2, <1>14, <2>1 DEF RecoveryEnvelopeOptions, Flows
<1> QED
  BY <1>3, <1>4, <1>5, <1>6, <1>7, <1>8, <1>9, <1>10, <1>11, <1>12, <1>13, <1>14
     DEF Acts, PasskeySetup, FinishKeySetup, PasskeySignIn, PasskeyUnlock, PasskeyRecoverySetup

(* The rows, the passkeys and the enrolments keep their types.             *)
LEMMA TypeStep ==
    ASSUME PInv, [Next]_vars
    PROVE  PasskeysTypeOK'
<1> USE Facts DEF PInv, PasskeysTypeOK
<1>1. ASSUME NEW q \in Pages, Acts(q) PROVE PasskeysTypeOK'
  <2>1. page' \in [Pages -> PageRecord]
    BY <1>1, PageActs, PageType
  <2>2. page[q] \in PageRecord
    OBVIOUS
  <2>3. CASE \/ RegisterOptions(q) \/ LoginOptions(q) \/ UnlockOptions(q) \/ AuthorizeOptions(q)
             \/ RecoveryRegisterOptions(q) \/ Abandon(q) \/ \E flow : Verify(q, flow)
    BY <2>1, <2>3 DEF RegisterOptions, LoginOptions, UnlockOptions, AuthorizeOptions,
       RecoveryRegisterOptions, Abandon, Verify, database, devices
  <2>4. CASE EnvelopeOptions(q) \/ RecoveryEnvelopeOptions(q)
    BY <2>1, <2>4 DEF EnvelopeOptions, RecoveryEnvelopeOptions, database
  <2>5. CASE CreatePasskey(q)
    BY <2>1, <2>5 DEF CreatePasskey, database
  <2>6. ASSUME NEW flow, AssertPasskey(q, flow) PROVE PasskeysTypeOK'
    <3>1. PICK c \in created : count' = [count EXCEPT ![c] = IF c \in Counting THEN count[c] + 1 ELSE 0]
      BY <2>6 DEF AssertPasskey
    <3>2. count' \in [Credentials -> Nat]
      BY <3>1
    <3> QED
      BY <2>1, <2>6, <3>2 DEF AssertPasskey, database
  <2>7. CASE VerifyRegistration(q)
    <3>1. page[q].cred \in created
      BY <2>7 DEF VerifyRegistration, At, PagesOK, PageOK, Registering
    <3> QED
      BY <2>1, <2>7, <3>1 DEF VerifyRegistration, TakeSeat, CreatesSession, devices
  <2>8. CompareAndSetCounter(q) => /\ stored' \in [Credentials -> Nat]
                                   /\ page[q].cred \in rows
    BY <2>2 DEF CompareAndSetCounter, PageRecord
  <2>9. Sealed(q) \in [salt : Salts \cup {None}, key : Salts \cup {None},
                       secret : Salts \cup {None}]
    BY <2>2 DEF Sealed, PageRecord
  <2>10. CASE FinishEnvelope(q)
    <3>1. page[q].secret \in Salts \cup {None}
      BY <2>2 DEF PageRecord
    <3> QED
      BY <2>1, <2>8, <2>9, <2>10, <3>1 DEF FinishEnvelope, StoreEnvelope, devices
  <2>11. CASE FinishLogin(q) \/ FinishUnlock(q)
    BY <2>1, <2>8, <2>11 DEF FinishLogin, FinishUnlock, HandOut, CreatesSession, devices
  <2>12. CASE FinishAuthorize(q)
    <3>1. PICK e \in Enrolments : OpenEnrolment(page[q].cred, e)
      BY <2>12 DEF FinishAuthorize
    <3>2. page[q].cred \in Credentials
      BY <2>8, <2>12 DEF FinishAuthorize
    <3>3. rows' \subseteq rows /\ enabled \subseteq rows'
      BY <3>1 DEF OpenEnrolment, StaleCredentials
    <3>4. \A f \in Enrolments :
             [enrolment[f] EXCEPT !.status = "deleted"] \in
                [status : {"none", "open", "expired", "deleted", "completed"},
                 source : Credentials \cup {None}, new : Credentials \cup {None}]
      OBVIOUS
    <3>5. enrolment' \in [Enrolments ->
             [status : {"none", "open", "expired", "deleted", "completed"},
              source : Credentials \cup {None}, new : Credentials \cup {None}]]
      BY <3>1, <3>2, <3>4 DEF OpenEnrolment
    <3> QED
      BY <2>1, <2>8, <2>12, <3>3, <3>5 DEF FinishAuthorize, devices
  <2>13. CASE VerifyRecoveryRegistration(q)
    <3>1. page[q].cred \in created
      BY <2>13 DEF VerifyRecoveryRegistration, At, PagesOK, PageOK, Registering
    <3> QED
      BY <2>1, <2>13, <3>1 DEF VerifyRecoveryRegistration, EnrolPasskey, AwaitsPasskey,
         OpenEnrolments, devices
  <2>14. CASE FinishRecoveryEnvelope(q)
    BY <2>1, <2>8, <2>9, <2>14 DEF FinishRecoveryEnvelope, CompleteEnrolment, OpenEnrolments,
       devices
  <2> QED
    BY <1>1, <2>3, <2>4, <2>5, <2>6, <2>7, <2>10, <2>11, <2>12, <2>13, <2>14
       DEF Acts, PasskeySetup, FinishKeySetup, PasskeySignIn, PasskeyUnlock,
       PasskeyRecoverySetup
<1>2. CASE ExpireInvite
  BY <1>2 DEF ExpireInvite, devices
<1>3. ASSUME NEW e \in Enrolments, ExpireEnrolment(e) PROVE PasskeysTypeOK'
  BY <1>3 DEF ExpireEnrolment, OpenEnrolments, devices
<1>4. CASE UNCHANGED vars
  BY <1>4 DEF vars, database, devices
<1> QED
  BY <1>1, <1>2, <1>3, <1>4 DEF Next, Acts

-----------------------------------------------------------------------------
(* The rows.                                                               *)

(* The transactions of the routes; every other step leaves the rows alone. *)
Transaction(q) ==
    \/ VerifyRegistration(q) \/ FinishEnvelope(q) \/ FinishLogin(q) \/ FinishUnlock(q)
    \/ FinishAuthorize(q) \/ VerifyRecoveryRegistration(q) \/ FinishRecoveryEnvelope(q)

(* The other requests only ask.                                            *)
LEMMA OnlyTransactionsWrite ==
    ASSUME NEW q \in Pages, Acts(q), ~Transaction(q)
    PROVE  UNCHANGED database
BY DEF Acts, PasskeySetup, FinishKeySetup, PasskeySignIn, PasskeyUnlock, PasskeyRecoverySetup,
   Transaction, RegisterOptions, CreatePasskey, EnvelopeOptions, LoginOptions, UnlockOptions,
   AuthorizeOptions, AssertPasskey, Verify, RecoveryRegisterOptions, RecoveryEnvelopeOptions,
   Abandon

(* No request takes the last working passkey away.                         *)
LEMMA RowsStep ==
    ASSUME PInv, [Next]_vars
    PROVE  RowsOK'
<1> USE Facts DEF PInv, PasskeysTypeOK
<1>1. CASE UNCHANGED database
  BY <1>1 DEF database, RowsOK, Works
<1>2. ASSUME NEW q \in Pages, Transaction(q) PROVE RowsOK'
  <2> DEFINE c == page[q].cred
  <2>1. CASE VerifyRegistration(q)
    <3>1. ~member /\ rows = {} /\ rows' = {c} /\ c \in Credentials /\ member' = TRUE
          /\ UNCHANGED <<enabled, envelope, identity, enrolment>>
      BY <2>1 DEF VerifyRegistration, TakeSeat, InviteUsable, RowsOK, At, PagesOK, PageOK,
         Registering
    <3> QED
      BY <3>1 DEF RowsOK, Works
  <2>2. CASE FinishEnvelope(q)
    <3>1. /\ c \in rows /\ identity = None /\ enabled' = enabled \cup {c}
          /\ envelope' = [envelope EXCEPT ![c] = Sealed(q)] /\ identity' = page[q].secret
          /\ UNCHANGED <<member, rows, enrolment>>
      BY <2>2 DEF FinishEnvelope, StoreEnvelope, CompareAndSetCounter
    <3>2. page[q].prf = page[q].salt /\ page[q].secret = page[q].salt /\ page[q].salt \in Salts
      BY <2>2 DEF FinishEnvelope, At, PagesOK, PageOK
    <3>3. Sealed(q) # NoEnvelope /\ Sealed(q).key = Sealed(q).salt /\ Sealed(q).secret = identity'
      BY <3>1, <3>2 DEF Sealed, NoEnvelope
    <3>4. enabled' = {c} /\ member
      BY <3>1 DEF RowsOK
    <3>5. \A d \in Credentials : envelope'[d] = IF d = c THEN Sealed(q) ELSE envelope[d]
      BY <3>1
    <3>6. \A d \in Credentials : d \in enabled' <=> envelope'[d] # NoEnvelope
      BY <3>1, <3>3, <3>4, <3>5 DEF RowsOK
    <3>7. \A d \in enabled' : Works(d)'
      BY <3>1, <3>3, <3>4, <3>5 DEF Works
    <3> QED
      BY <3>1, <3>2, <3>4, <3>6, <3>7 DEF RowsOK
  <2>3. CASE FinishLogin(q) \/ FinishUnlock(q)
    BY <2>3 DEF FinishLogin, FinishUnlock, RowsOK, Works
  <2>4. CASE FinishAuthorize(q)
    <3>1. PICK e \in Enrolments : OpenEnrolment(c, e)
      BY <2>4 DEF FinishAuthorize
    <3>2. c \in enabled /\ rows' \subseteq rows /\ enabled \subseteq rows'
      BY <3>1 DEF OpenEnrolment, StaleCredentials
    <3>3. UNCHANGED <<member, enabled, envelope, identity>>
      BY <2>4 DEF FinishAuthorize
    <3> QED
      BY <3>2, <3>3 DEF RowsOK, Works
  <2>5. CASE VerifyRecoveryRegistration(q)
    <3>1. /\ page[q].enrol \in Enrolments /\ enrolment[page[q].enrol].status = "open"
          /\ rows' = rows \cup {c}
          /\ UNCHANGED <<member, enabled, envelope, identity>>
      BY <2>5 DEF VerifyRecoveryRegistration, EnrolPasskey, AwaitsPasskey, OpenEnrolments
    <3>2. identity # None
      BY <3>1 DEF RowsOK, NoEnrolment
    <3> QED
      BY <3>1, <3>2 DEF RowsOK, Works
  <2>6. CASE FinishRecoveryEnvelope(q)
    <3>1. /\ c \in rows /\ identity # None /\ page[q].secret = identity
          /\ enabled' = enabled \cup {c} /\ envelope' = [envelope EXCEPT ![c] = Sealed(q)]
          /\ UNCHANGED <<member, rows, identity>>
      BY <2>6 DEF FinishRecoveryEnvelope, CompleteEnrolment, CompareAndSetCounter
    <3>2. page[q].prf = page[q].salt
      BY <2>6 DEF FinishRecoveryEnvelope, At, PagesOK, PageOK
    <3>3. Sealed(q) # NoEnvelope /\ Sealed(q).key = Sealed(q).salt /\ Sealed(q).secret = identity'
      BY <3>1, <3>2 DEF Sealed, NoEnvelope
    <3>4. \A d \in Credentials : envelope'[d] = IF d = c THEN Sealed(q) ELSE envelope[d]
      BY <3>1
    <3>5. \A d \in Credentials : d \in enabled' <=> envelope'[d] # NoEnvelope
      BY <3>1, <3>3, <3>4 DEF RowsOK
    <3>6. \A d \in enabled' : Works(d)'
      BY <3>1, <3>3, <3>4 DEF Works, RowsOK
    <3> QED
      BY <3>1, <3>5, <3>6 DEF RowsOK
  <2> QED
    BY <1>2, <2>1, <2>2, <2>3, <2>4, <2>5, <2>6 DEF Transaction
<1>3. CASE ExpireInvite
  BY <1>3 DEF ExpireInvite, RowsOK, Works
<1>4. ASSUME NEW e \in Enrolments, ExpireEnrolment(e) PROVE RowsOK'
  <2>1. identity # None
    BY <1>4 DEF ExpireEnrolment, OpenEnrolments, RowsOK, NoEnrolment
  <2> QED
    BY <1>4, <2>1 DEF ExpireEnrolment, RowsOK, Works
<1>5. CASE UNCHANGED vars
  BY <1>1, <1>5 DEF vars
<1> QED
  BY <1>1, <1>2, <1>3, <1>4, <1>5, OnlyTransactionsWrite DEF Next, Acts

(* Whatever is enabled keeps its envelope, the identity stays, and nothing *)
(* an authenticator created is forgotten.                                  *)
Keeps ==
    /\ enabled \subseteq enabled' /\ created \subseteq created'
    /\ \A c \in enabled : envelope'[c] = envelope[c]
    /\ identity # None => identity' = identity

(* Enabled passkeys stay enabled, and the identity what it is.             *)
LEMMA KeepsStep ==
    ASSUME PInv, [Next]_vars
    PROVE  Keeps
<1> USE Facts DEF PInv, PasskeysTypeOK, Keeps
<1>1. ASSUME NEW q \in Pages, Transaction(q) PROVE Keeps
  <2>1. CASE FinishEnvelope(q)
    BY <2>1 DEF FinishEnvelope, StoreEnvelope, RowsOK, devices
  <2>2. CASE FinishRecoveryEnvelope(q)
    BY <2>2 DEF FinishRecoveryEnvelope, CompleteEnrolment, devices
  <2> QED
    BY <1>1, <2>1, <2>2 DEF Transaction, VerifyRegistration, FinishLogin, FinishUnlock,
       FinishAuthorize, VerifyRecoveryRegistration, devices
<1>2. ASSUME NEW q \in Pages, Acts(q), ~Transaction(q) PROVE Keeps
  <2>1. UNCHANGED database
    BY <1>2, OnlyTransactionsWrite
  <2>2. created \subseteq created'
    BY <1>2 DEF Acts, PasskeySetup, FinishKeySetup, PasskeySignIn, PasskeyUnlock,
       PasskeyRecoverySetup, Transaction, RegisterOptions, CreatePasskey, EnvelopeOptions,
       LoginOptions, UnlockOptions, AuthorizeOptions, AssertPasskey, Verify,
       RecoveryRegisterOptions, RecoveryEnvelopeOptions, Abandon, devices
  <2> QED
    BY <2>1, <2>2 DEF database
<1>3. CASE ExpireInvite \/ \E e \in Enrolments : ExpireEnrolment(e)
  BY <1>3 DEF ExpireInvite, ExpireEnrolment, devices
<1>4. CASE UNCHANGED vars
  BY <1>4 DEF vars, database, devices
<1> QED
  BY <1>1, <1>2, <1>3, <1>4 DEF Next, Acts

-----------------------------------------------------------------------------
(* The pages.                                                              *)

(* The only rows a step adds are those of the page that registers.         *)
LEMMA NewRows ==
    ASSUME PInv, [Next]_vars
    PROVE  \/ rows' \subseteq rows
           \/ \E q \in Pages : Registering(q) /\ ~Registering(q)' /\ rows' = rows \cup {page[q].cred}
<1> USE Facts DEF PInv, PasskeysTypeOK
<1>1. ASSUME NEW q \in Pages, VerifyRegistration(q) \/ VerifyRecoveryRegistration(q)
      PROVE  Registering(q) /\ ~Registering(q)' /\ rows' = rows \cup {page[q].cred}
  <2>1. Registering(q) /\ rows' = rows \cup {page[q].cred}
    BY <1>1 DEF VerifyRegistration, VerifyRecoveryRegistration, TakeSeat, EnrolPasskey, At,
       Registering
  <2>2. page'[q] = Rest \/ page'[q] = [page[q] EXCEPT !.stage = "done", !.cred = None]
    BY <1>1 DEF VerifyRegistration, VerifyRecoveryRegistration, Goes
  <2>3. \A r \in PageRecord : [r EXCEPT !.stage = "done", !.cred = None].stage = "done"
    BY DEF PageRecord
  <2>4. page[q] \in PageRecord /\ Rest.stage = "done"
    BY DEF Rest
  <2>5. page'[q].stage = "done"
    BY <2>2, <2>3, <2>4
  <2> QED
    BY <2>1, <2>5 DEF Registering
<1>2. ASSUME NEW q \in Pages, Transaction(q),
             ~VerifyRegistration(q), ~VerifyRecoveryRegistration(q)
      PROVE  rows' \subseteq rows
  BY <1>2 DEF Transaction, FinishEnvelope, FinishLogin, FinishUnlock, FinishAuthorize,
     FinishRecoveryEnvelope, OpenEnrolment
<1>3. CASE ExpireInvite \/ (\E e \in Enrolments : ExpireEnrolment(e)) \/ UNCHANGED database
  BY <1>3 DEF ExpireInvite, ExpireEnrolment, database
<1> QED
  BY <1>1, <1>2, <1>3, OnlyTransactionsWrite DEF Next, Acts, Transaction, vars

(* A page that does nothing in a step is still in order after it.          *)
LEMMA WaitingPage ==
    ASSUME PInv, [Next]_vars, NEW q \in Pages, page'[q] = page[q]
    PROVE  PageOK(q)'
<1> USE DEF PInv, PagesOK
<1>1. PageOK(q) /\ Keeps
  BY KeepsStep
<1>2. Registering(q) => page[q].cred \in created' \ rows'
  <2>1. ASSUME Registering(q), NEW p \in Pages, Registering(p), ~Registering(p)',
               rows' = rows \cup {page[p].cred}
        PROVE  page[q].cred \notin rows'
    <3>1. p # q
      BY <2>1 DEF Registering
    <3> QED
      BY <1>1, <2>1, <3>1 DEF PageOK
  <2> QED
    BY <1>1, <2>1, NewRows DEF PageOK, Keeps
<1>3. Unlocking(q) =>
         /\ identity' # None
         /\ IF page[q].stage = "done" THEN page[q].secret = identity'
            ELSE page[q].cred \in enabled' /\ page[q].salt = envelope'[page[q].cred].salt
  BY <1>1 DEF PageOK, Keeps
<1> QED
  BY <1>1, <1>2, <1>3 DEF PageOK, Registering, Unlocking

(* The page that acts is in order again, whichever request it makes.       *)
LEMMA ActingPage ==
    ASSUME PInv, [Next]_vars, NEW q \in Pages, Acts(q)
    PROVE  PageOK(q)'
<1> USE Facts DEF PInv, PasskeysTypeOK
<1>1. PageOK(q) /\ Keeps /\ page[q] \in PageRecord
  BY KeepsStep DEF PagesOK
<1>2. ASSUME NEW r \in PageRecord, Goes(q, r) PROVE page'[q] = r
  BY <1>2, PageType
<1>3. ASSUME page'[q].flow \in {"idle", "register", "login"}, page'[q].stage \in {"asked", "done"}
      PROVE  PageOK(q)'
  BY <1>3 DEF PageOK, Unlocking, Registering
<1>4. CASE \/ VerifyRegistration(q) \/ FinishEnvelope(q) \/ FinishLogin(q)
           \/ FinishRecoveryEnvelope(q) \/ Abandon(q)
  <2>1. page'[q] = Rest
    BY <1>4 DEF VerifyRegistration, FinishEnvelope, FinishLogin, FinishRecoveryEnvelope,
       Abandon, Goes
  <2>2. Rest.flow = "idle" /\ Rest.stage = "done"
    BY DEF Rest
  <2> QED
    BY <1>3, <2>1, <2>2
<1>5. CASE RegisterOptions(q)
  <2>1. page'[q].flow = "register" /\ page'[q].stage = "asked"
    BY <1>5 DEF RegisterOptions, Goes, Rest
  <2> QED
    BY <1>3, <2>1
<1>6. CASE CreatePasskey(q)
  <2>1. PICK c \in Credentials \ created :
           /\ created' = created \cup {c}
           /\ page'[q] = [page[q] EXCEPT !.stage = "answered", !.cred = c]
           /\ page[q].flow \in {"register", "recoveryRegister"}
           /\ rows' = rows
    BY <1>6 DEF CreatePasskey, Goes, database
  <2>2. /\ page'[q].flow \in {"register", "recoveryRegister"}
        /\ page'[q].stage = "answered" /\ page'[q].cred = c
    BY <1>1, <2>1 DEF PageRecord
  <2>3. c \in created' \ rows'
    BY <2>1
  <2> QED
    BY <2>2, <2>3 DEF PageOK, Unlocking, Registering
<1>7. ASSUME NEW memory \in PageRecord, NEW flow, NEW c, NEW s,
             Challenged(q, flow, c, s, memory)
      PROVE  /\ page'[q].flow = flow /\ page'[q].stage = "asked"
             /\ page'[q].cred = c /\ page'[q].salt = s
  BY <1>7 DEF Challenged, Goes, PageRecord
<1>8. CASE LoginOptions(q)
  BY <1>3, <1>7, <1>8, RestIsPage DEF LoginOptions
<1>9. CASE EnvelopeOptions(q)
  <2>1. /\ page'[q].flow = "envelope" /\ page'[q].stage = "asked" /\ page'[q].salt \in Salts
    BY <1>7, <1>9, RestIsPage DEF EnvelopeOptions
  <2> QED
    BY <2>1 DEF PageOK, Unlocking, Registering
<1>10. CASE RecoveryEnvelopeOptions(q) \/ RecoveryRegisterOptions(q)
  <2>1. /\ page'[q].flow \in {"recoveryEnvelope", "recoveryRegister"}
        /\ page'[q].stage = "asked"
    BY <1>1, <1>7, <1>10 DEF RecoveryEnvelopeOptions, RecoveryRegisterOptions
  <2> QED
    BY <2>1 DEF PageOK, Unlocking, Registering
<1>11. CASE UnlockOptions(q) \/ AuthorizeOptions(q)
  <2>1. PICK c \in rows \cap enabled, flow \in {"unlock", "authorize"} :
           Challenged(q, flow, c, envelope[c].salt, Rest)
    BY <1>11 DEF UnlockOptions, AuthorizeOptions, UnlockChallenge
  <2>2. /\ page'[q].flow \in {"unlock", "authorize"} /\ page'[q].stage = "asked"
        /\ page'[q].cred = c /\ page'[q].salt = envelope[c].salt
    BY <1>7, <2>1, RestIsPage
  <2>3. identity # None
    BY <2>1 DEF RowsOK
  <2> QED
    BY <1>1, <2>1, <2>2, <2>3 DEF PageOK, Unlocking, Registering, Keeps
<1>12. ASSUME NEW flow \in {"envelope", "login", "unlock", "authorize", "recoveryEnvelope"},
              AssertPasskey(q, flow)
       PROVE  PageOK(q)'
  <2>1. PICK c \in created :
           /\ page'[q] = [page[q] EXCEPT
                  !.stage = "answered", !.cred = c, !.prf = page[q].salt,
                  !.answer = IF c \in Counting THEN count[c] + 1 ELSE 0,
                  !.secret = IF flow = "envelope" THEN page[q].salt ELSE @]
           /\ flow # "login" => c = page[q].cred
    BY <1>12 DEF AssertPasskey, Goes
  <2>2. page[q].flow = flow /\ page[q].stage = "asked"
    BY <1>12 DEF AssertPasskey, At
  <2>3. /\ page'[q].flow = flow /\ page'[q].stage = "answered"
        /\ page'[q].prf = page[q].salt /\ page'[q].salt = page[q].salt
        /\ flow # "login" => page'[q].cred = page[q].cred
        /\ flow = "envelope" => page'[q].secret = page[q].salt
    BY <1>1, <2>1, <2>2 DEF PageRecord
  <2> QED
    BY <1>1, <2>2, <2>3 DEF PageOK, Unlocking, Registering, Keeps
<1>13. ASSUME NEW flow \in {"envelope", "login", "unlock", "authorize", "recoveryEnvelope"},
              Verify(q, flow)
       PROVE  PageOK(q)'
  <2>1. /\ page[q].flow = flow /\ page[q].stage = "answered"
        /\ CounterAdvances(page[q].answer, stored[page[q].cred])
        /\ page'[q] = [page[q] EXCEPT !.stage = "verified", !.observed = stored[page[q].cred]]
    BY <1>13 DEF Verify, At, Goes
  <2>2. /\ page'[q].flow = flow /\ page'[q].stage = "verified"
        /\ page'[q].cred = page[q].cred /\ page'[q].salt = page[q].salt
        /\ page'[q].prf = page[q].prf /\ page'[q].secret = page[q].secret
        /\ page'[q].answer = page[q].answer /\ page'[q].observed = stored[page[q].cred]
    BY <1>1, <2>1 DEF PageRecord
  <2> QED
    BY <1>1, <2>1, <2>2 DEF PageOK, Unlocking, Registering, Keeps
<1>14. CASE FinishUnlock(q) \/ FinishAuthorize(q)
  <2>1. /\ page'[q].flow \in {"unlock", "authorize"} /\ page'[q].stage = "done"
        /\ page'[q].secret = Opened(page[q].cred, page[q].prf)
    <3> DEFINE secret == Opened(page[q].cred, page[q].prf)
    <3>1. \/ page'[q] = [Rest EXCEPT !.flow = "unlock", !.secret = secret]
          \/ \E e \in Enrolments :
                page'[q] = [Rest EXCEPT !.flow = "authorize", !.enrol = e, !.secret = secret]
      BY <1>14 DEF FinishUnlock, FinishAuthorize, Goes
    <3> HIDE DEF secret
    <3>2. /\ page'[q].flow \in {"unlock", "authorize"} /\ page'[q].stage = "done"
          /\ page'[q].secret = secret
      BY <3>1 DEF Rest
    <3> QED
      BY <3>2 DEF secret
  <2>2. /\ Unlocking(q) /\ page[q].stage = "verified"
    BY <1>14 DEF FinishUnlock, FinishAuthorize, At, Unlocking
  <2>3. /\ page[q].prf = page[q].salt /\ identity # None
        /\ page[q].cred \in enabled /\ page[q].salt = envelope[page[q].cred].salt
    BY <1>1, <2>2 DEF PageOK, Unlocking
  <2>4. Works(page[q].cred)
    BY <2>3 DEF RowsOK
  <2>5. page'[q].secret = identity
    BY <2>1, <2>3, <2>4 DEF Opened, Works
  <2> QED
    BY <1>1, <2>1, <2>3, <2>5 DEF PageOK, Unlocking, Registering, Keeps
<1>15. CASE VerifyRecoveryRegistration(q)
  <2>1. /\ page[q].flow = "recoveryRegister"
        /\ page'[q] = [page[q] EXCEPT !.stage = "done", !.cred = None]
    BY <1>15 DEF VerifyRecoveryRegistration, At, Goes
  <2>2. page'[q].flow = "recoveryRegister" /\ page'[q].stage = "done"
    BY <1>1, <2>1 DEF PageRecord
  <2> QED
    BY <2>2 DEF PageOK, Unlocking, Registering
<1> QED
  BY <1>4, <1>5, <1>6, <1>8, <1>9, <1>10, <1>11, <1>12, <1>13, <1>14, <1>15
     DEF Acts, PasskeySetup, FinishKeySetup, PasskeySignIn, PasskeyUnlock, PasskeyRecoverySetup

(* A page comes to hold a passkey to register only by creating it.         *)
LEMMA OnlyCreationRegisters ==
    ASSUME PInv, NEW q \in Pages, Acts(q), Registering(q)'
    PROVE  CreatePasskey(q)
<1> USE Facts DEF PInv, PasskeysTypeOK
<1>1. /\ Rest \in PageRecord /\ page[q] \in PageRecord
      /\ Rest.flow = "idle" /\ Rest.stage = "done"
  BY RestIsPage DEF Rest
<1>2. ASSUME NEW memory \in PageRecord, NEW flow, NEW c, NEW s,
             Challenged(q, flow, c, s, memory)
      PROVE  page'[q].stage = "asked"
  BY <1>2 DEF Challenged, Goes, PageRecord
<1>3. ASSUME NEW r \in PageRecord, Goes(q, r) PROVE page'[q] = r
  BY <1>3, PageType
<1>4. CASE \/ VerifyRegistration(q) \/ FinishEnvelope(q) \/ FinishLogin(q)
           \/ FinishRecoveryEnvelope(q) \/ Abandon(q)
  BY <1>1, <1>3, <1>4 DEF VerifyRegistration, FinishEnvelope, FinishLogin,
     FinishRecoveryEnvelope, Abandon, Registering
<1>5. CASE RegisterOptions(q)
  <2>1. page'[q].stage = "asked"
    BY <1>5 DEF RegisterOptions, Goes, Rest
  <2> QED
    BY <2>1 DEF Registering
<1>6. CASE \/ LoginOptions(q) \/ EnvelopeOptions(q) \/ RecoveryEnvelopeOptions(q)
           \/ RecoveryRegisterOptions(q) \/ UnlockOptions(q) \/ AuthorizeOptions(q)
  <2>1. page'[q].stage = "asked"
    BY <1>1, <1>2, <1>6 DEF LoginOptions, EnvelopeOptions, RecoveryEnvelopeOptions,
       RecoveryRegisterOptions, UnlockOptions, AuthorizeOptions, UnlockChallenge
  <2> QED
    BY <2>1 DEF Registering
<1>7. ASSUME NEW flow \in {"envelope", "login", "unlock", "authorize", "recoveryEnvelope"},
             AssertPasskey(q, flow)
      PROVE  FALSE
  <2>1. PICK c \in created :
           page'[q] = [page[q] EXCEPT
                  !.stage = "answered", !.cred = c, !.prf = page[q].salt,
                  !.answer = IF c \in Counting THEN count[c] + 1 ELSE 0,
                  !.secret = IF flow = "envelope" THEN page[q].salt ELSE @]
    BY <1>7 DEF AssertPasskey, Goes
  <2>2. page[q].flow = flow
    BY <1>7 DEF AssertPasskey, At
  <2>3. page'[q].flow = flow
    BY <1>1, <2>1, <2>2 DEF PageRecord
  <2> QED
    BY <1>7, <2>3 DEF Registering
<1>8. ASSUME NEW flow, Verify(q, flow) PROVE FALSE
  <2>1. page'[q].stage = "verified"
    BY <1>1, <1>8 DEF Verify, Goes, PageRecord
  <2> QED
    BY <2>1 DEF Registering
<1>9. CASE FinishUnlock(q) \/ FinishAuthorize(q)
  <2> DEFINE secret == Opened(page[q].cred, page[q].prf)
  <2>1. \/ page'[q] = [Rest EXCEPT !.flow = "unlock", !.secret = secret]
        \/ \E e \in Enrolments :
              page'[q] = [Rest EXCEPT !.flow = "authorize", !.enrol = e, !.secret = secret]
    BY <1>9 DEF FinishUnlock, FinishAuthorize, Goes
  <2> HIDE DEF secret
  <2>2. page'[q].stage = "done"
    BY <2>1 DEF Rest
  <2> QED
    BY <2>2 DEF Registering
<1>10. CASE VerifyRecoveryRegistration(q)
  <2>1. page'[q] = [page[q] EXCEPT !.stage = "done", !.cred = None]
    BY <1>10 DEF VerifyRecoveryRegistration, Goes
  <2>2. page'[q].stage = "done"
    BY <1>1, <2>1 DEF PageRecord
  <2> QED
    BY <2>2 DEF Registering
<1> QED
  BY <1>4, <1>5, <1>6, <1>7, <1>8, <1>9, <1>10
     DEF Acts, PasskeySetup, FinishKeySetup, PasskeySignIn, PasskeyUnlock, PasskeyRecoverySetup

(* No two pages register the same passkey.                                 *)
LEMMA PagesStep ==
    ASSUME PInv, [Next]_vars
    PROVE  PagesOK'
<1> USE DEF PInv
<1>1. ASSUME UNCHANGED page PROVE PagesOK'
  BY <1>1, WaitingPage DEF PagesOK, Registering
<1>2. ASSUME NEW x \in Pages, Acts(x) PROVE PagesOK'
  <2>1. \A q \in Pages : q # x => page'[q] = page[q]
    BY <1>2, PageActs, PageType
  <2>2. \A q \in Pages : PageOK(q)'
    BY <1>2, <2>1, WaitingPage, ActingPage
  <2>3. ASSUME NEW q \in Pages, q # x, Registering(q)', Registering(x)'
        PROVE  page'[q].cred # page'[x].cred
    <3>1. Registering(q) /\ page'[q].cred \in created
      BY <2>1, <2>3 DEF Registering, PagesOK, PageOK
    <3>2. PICK c \in Credentials \ created :
             page'[x] = [page[x] EXCEPT !.stage = "answered", !.cred = c]
      BY <1>2, <2>3, OnlyCreationRegisters DEF CreatePasskey, Goes, PasskeysTypeOK
    <3>3. page[x] \in PageRecord
      BY DEF PasskeysTypeOK
    <3>4. page'[x].cred = c
      BY <3>2, <3>3 DEF PageRecord
    <3> QED
      BY <3>1, <3>2, <3>4
  <2>4. ASSUME NEW p \in Pages, NEW q \in Pages, p # q, Registering(p)', Registering(q)'
        PROVE  page'[p].cred # page'[q].cred
    <3>1. CASE p # x /\ q # x
      BY <2>1, <2>4, <3>1 DEF PagesOK, Registering
    <3>2. CASE p = x \/ q = x
      BY <2>3, <2>4, <3>2
    <3> QED
      BY <3>1, <3>2
  <2> QED
    BY <2>2, <2>4 DEF PagesOK
<1> QED
  BY <1>1, <1>2 DEF Next, Acts, ExpireInvite, ExpireEnrolment, vars

(* No account, and no page under way.                                      *)
LEMMA InitOK == Init => PInv
<1> SUFFICES ASSUME Init PROVE PInv
  OBVIOUS
<1> USE Facts DEF Init
<1>1. PasskeysTypeOK
  BY RestIsPage DEF PasskeysTypeOK, NoEnvelope, NoEnrolment
<1>2. RowsOK
  BY DEF RowsOK
<1>3. \A q \in Pages : page[q].flow = "idle" /\ page[q].stage = "done"
  BY DEF Rest
<1>4. PagesOK
  BY <1>3 DEF PagesOK, PageOK, Unlocking, Registering
<1> QED
  BY <1>1, <1>2, <1>4 DEF PInv

(* All three hold of every step.                                           *)
LEMMA PasskeysInvariant == PasskeysSpec => []PInv
<1>1. PInv /\ [Next]_vars => PInv'
  BY TypeStep, RowsStep, PagesStep DEF PInv
<1> QED
  BY <1>1, InitOK, PTL DEF PasskeysSpec

-----------------------------------------------------------------------------
(* What follows.                                                           *)

(* The rows and the pages keep their types.                                *)
THEOREM TypesCorrect == PasskeysSpec => []PasskeysTypeOK
<1>1. PInv => PasskeysTypeOK
  BY DEF PInv
<1> QED
  BY <1>1, PasskeysInvariant, PTL

(* Every envelope on record opens to the one identity of its participant,  *)
(* and every page that was handed one got that identity's secret.          *)
THEOREM EnvelopesAlwaysOpen == PasskeysSpec => []EnvelopesOpen
<1>1. PInv => EnvelopesOpen
  <2> SUFFICES ASSUME PInv PROVE EnvelopesOpen
    OBVIOUS
  <2> USE DEF PInv
  <2>1. \A c \in Credentials : (c \in enabled \/ envelope[c] # NoEnvelope) => Works(c)
    BY DEF RowsOK
  <2>2. identity # None => \E c \in rows : Works(c)
    BY DEF RowsOK, PasskeysTypeOK
  <2>3. ASSUME NEW q \in Pages, Unlocking(q), page[q].stage = "done"
        PROVE  page[q].secret = identity
    BY <2>3 DEF PagesOK, PageOK
  <2> QED
    BY <2>1, <2>2, <2>3 DEF EnvelopesOpen, Unlocking
<1> QED
  BY <1>1, PasskeysInvariant, PTL

(* A setup that stopped half way can always be taken up again.             *)
THEOREM SetupResumes == PasskeysSpec => []SetupCanResume
<1>1. PInv => SetupCanResume
  <2> SUFFICES ASSUME PInv, member, identity = None
               PROVE  /\ Cardinality(rows) = 1
                      /\ \A c \in rows : /\ c \notin enabled /\ envelope[c] = NoEnvelope
                                         /\ ~Unfinished(c)
    BY DEF SetupCanResume
  <2> USE DEF PInv
  <2>1. PICK c \in Credentials : rows = {c}
    BY DEF RowsOK
  <2>2. Cardinality(rows) = 1
    BY <2>1, FS_Singleton
  <2>3. \A e \in Enrolments : enrolment[e].status = "none"
    BY DEF RowsOK, NoEnrolment
  <2> QED
    BY <2>1, <2>2, <2>3 DEF RowsOK, Unfinished
<1> QED
  BY <1>1, PasskeysInvariant, PTL

(* Once recovery is set up, any one authenticator may be lost.             *)
THEOREM LossSurvived == PasskeysSpec => []RecoverySurvivesLoss
<1>1. PInv => RecoverySurvivesLoss
  <2> SUFFICES ASSUME PInv, RecoveryComplete, NEW c \in created
               PROVE  \E d \in created \ {c} : Works(d)
    BY DEF RecoverySurvivesLoss
  <2> USE DEF PInv, PasskeysTypeOK
  <2> DEFINE W == {d \in rows : d \in enabled /\ envelope[d] # NoEnvelope}
  <2>1. \A d \in W : d \in created /\ Works(d)
    BY DEF RowsOK
  <2>2. ~(W \subseteq {c})
    <3>1. Cardinality(W) >= 2
      BY DEF RecoveryComplete
    <3> HIDE DEF W
    <3>2. Cardinality({c}) = 1 /\ IsFiniteSet({c})
      BY FS_Singleton
    <3>3. W \subseteq {c} => Cardinality(W) <= 1 /\ Cardinality(W) \in Nat
      BY <3>2, FS_Subset, FS_CardinalityType
    <3> QED
      BY <3>1, <3>3
  <2> QED
    BY <2>1, <2>2
<1> QED
  BY <1>1, PasskeysInvariant, PTL

(* A passkey that works keeps working, and its accepted counter never goes *)
(* back: not by racing requests, nor by a later enrolment.                 *)
THEOREM WorkingForever == PasskeysSpec => WorkingStaysWorking
<1> DEFINE Stays == \A c \in Credentials : Works(c) => Works(c)' /\ stored'[c] >= stored[c]
<1>1. PInv /\ [Next]_vars => [Stays]_vars
  <2> SUFFICES ASSUME PInv, [Next]_vars, NEW c \in Credentials, Works(c)
               PROVE  Works(c)' /\ stored'[c] >= stored[c]
    OBVIOUS
  <2> USE DEF PInv
  <2>1. Works(c)'
    BY RowsStep, KeepsStep DEF Works, Keeps, RowsOK
  <2>2. stored[c] \in Nat
    BY DEF PasskeysTypeOK
  <2>3. ASSUME NEW q \in Pages, page[q].stage = "verified", CompareAndSetCounter(q)
        PROVE  stored'[c] >= stored[c]
    <3>1. /\ page[q].cred \in Credentials /\ page[q].answer \in Nat /\ page[q].observed \in Nat
          /\ CounterAdvances(page[q].answer, page[q].observed)
      BY <2>3 DEF PasskeysTypeOK, PageRecord, PagesOK, PageOK, CompareAndSetCounter
    <3>2. page[q].answer >= page[q].observed
      BY <3>1 DEF CounterAdvances
    <3> QED
      BY <2>2, <2>3, <3>1, <3>2 DEF CompareAndSetCounter, PasskeysTypeOK
  <2>4. ASSUME NEW q \in Pages, VerifyRegistration(q) \/ VerifyRecoveryRegistration(q)
        PROVE  stored'[c] >= stored[c]
    <3>1. page[q].cred \notin rows /\ stored' = [stored EXCEPT ![page[q].cred] = 0]
      BY <2>4 DEF VerifyRegistration, VerifyRecoveryRegistration, TakeSeat, EnrolPasskey, At,
         PagesOK, PageOK, Registering
    <3> QED
      BY <2>2, <3>1 DEF Works, PasskeysTypeOK
  <2>5. ASSUME NEW q \in Pages, Transaction(q) PROVE stored'[c] >= stored[c]
    <3>1. CASE VerifyRegistration(q) \/ VerifyRecoveryRegistration(q)
      BY <2>4, <3>1
    <3>2. CASE FinishEnvelope(q) \/ FinishRecoveryEnvelope(q)
      BY <2>3, <3>2 DEF FinishEnvelope, StoreEnvelope, FinishRecoveryEnvelope,
         CompleteEnrolment, At
    <3>3. CASE FinishLogin(q) \/ FinishUnlock(q) \/ FinishAuthorize(q)
      BY <2>3, <3>3 DEF FinishLogin, FinishUnlock, HandOut, FinishAuthorize, At
    <3> QED
      BY <2>5, <3>1, <3>2, <3>3 DEF Transaction
  <2>6. ASSUME UNCHANGED stored PROVE stored'[c] >= stored[c]
    BY <2>2, <2>6
  <2>7. ASSUME ExpireInvite \/ (\E e \in Enrolments : ExpireEnrolment(e)) \/ UNCHANGED vars
        PROVE  stored'[c] >= stored[c]
    BY <2>6, <2>7 DEF ExpireInvite, ExpireEnrolment, vars, database
  <2> QED
    BY <2>1, <2>5, <2>6, <2>7, OnlyTransactionsWrite DEF Next, Acts, database
<1> QED
  BY <1>1, PasskeysInvariant, PTL DEF PasskeysSpec, WorkingStaysWorking

=============================================================================
