------------------------- MODULE CooperativeSigning -------------------------
(***************************************************************************)
(* The two MuSig2 rounds of a cooperative exit: every signer publishes a   *)
(* public nonce, then a partial signature over the complete set of them.   *)
(* The secret half of a nonce lives encrypted in one tab's sessionStorage  *)
(* and is removed before it is used; a partial waits there until the       *)
(* coordinator has acknowledged it.                                        *)
(*                                                                         *)
(* Requests get lost, arrive after their tab gave up on them, or are       *)
(* answered to a tab that is gone; pages are reloaded, closed, duplicated  *)
(* (a duplicate starts with a copy of the storage), and act on the runtime *)
(* status they last fetched.  All proposals spend one coin, which stays    *)
(* current and which every signer has observed: they share their message.  *)
(***************************************************************************)
EXTENDS Naturals, Sequences, FiniteSets

CONSTANTS
    Signers,   \* the participants of the coin's round
    Tabs,      \* browser tabs
    OwnerOf,   \* the participant signed in there
    Proposals, \* cooperative proposals of the coin
    Shaky,     \* bound: tabs that get closed, reloaded or give up on a request
    MaxNonces, \* bound: nonces each participant generates
    MaxOnTheWay, \* bound: requests on their way at once
    None

ASSUME SigningAssumption ==
    /\ IsFiniteSet(Signers) /\ Signers # {}
    /\ OwnerOf \in [Tabs -> Signers]
    /\ MaxNonces \in [Signers -> Nat] /\ MaxOnTheWay \in Nat
    /\ None \notin Proposals

VARIABLES
    status,   \* vault_transaction_proposals.status
    expired,  \* expires_at has passed
    nonces,   \* contributions of kind musig_pubnonce
    partials, \* contributions of kind musig_partial
    made,     \* per signer, the proposal each nonce was generated for
    stored,   \* sessionStorage: the encrypted nonce
    pending,  \* sessionStorage: the partial not acknowledged yet
    page,     \* what the tab's panel is doing, and for which request
    view,     \* the proposal its button acts on, the nonce set it would sign
    inflight, \* requests on their way to the coordinator
    signed    \* every use of a secret nonce so far

serverVars == <<status, expired, nonces, partials>>
tabVars == <<stored, pending, page, view>>
signingVars == <<serverVars, made, tabVars, inflight, signed>>

(* The n-th nonce of a signer is n.  A contribution is a nonce and, if it is *)
(* a partial signature, the nonce set that it is over.                     *)
NoNonce == 0
NoNonces == [s \in Signers |-> NoNonce]
NonceSets == [Signers -> Nat]
Complete(set) == \A s \in Signers : set[s] # NoNonce
Values == [nonce : Nat, over : NonceSets]
NoPartial == [nonce |-> NoNonce, over |-> NoNonces]
Pubnonce(n) == [nonce |-> n, over |-> NoNonces]
Requests == [tab : Tabs, kind : {"nonce", "partial"}, proposal : Proposals, value : Values]
Request(t, k, p, v) == [tab |-> t, kind |-> k, proposal |-> p, value |-> v]
NoView == [proposal |-> None, nonces |-> NoNonces]
Doing(what, request) == [does |-> what, request |-> request]
Closed == Doing("closed", None)
Idle == Doing("idle", None)
Uses == [signer : Signers, proposal : Proposals, value : Values]
Use(t, p, v) == [signer |-> OwnerOf[t], proposal |-> p, value |-> v]

SigningTypeOK ==
    /\ status \in [Proposals -> {"none", "collecting", "finalized", "stale"}]
    /\ expired \in [Proposals -> BOOLEAN]
    /\ nonces \in [Proposals -> NonceSets]
    /\ partials \in [Proposals -> [Signers -> Values]]
    /\ made \in [Signers -> Seq(Proposals)]
    /\ stored \in [Tabs -> [Proposals -> Nat]]
    /\ pending \in [Tabs -> [Proposals -> Values]]
    /\ page \in [Tabs -> {Closed, Idle}
                  \cup [does : {"signing", "waiting"}, request : Requests]]
    /\ view \in [Tabs -> [proposal : Proposals \cup {None}, nonces : NonceSets]]
    /\ inflight \subseteq Requests
    /\ signed \subseteq Uses

SigningInit ==
    /\ status = [p \in Proposals |-> "none"]
    /\ expired = [p \in Proposals |-> FALSE]
    /\ nonces = [p \in Proposals |-> NoNonces]
    /\ partials = [p \in Proposals |-> [s \in Signers |-> NoPartial]]
    /\ made = [s \in Signers |-> << >>]
    /\ stored = [t \in Tabs |-> [p \in Proposals |-> NoNonce]]
    /\ pending = [t \in Tabs |-> [p \in Proposals |-> NoPartial]]
    /\ page = [t \in Tabs |-> Closed]
    /\ view = [t \in Tabs |-> NoView]
    /\ inflight = {}
    /\ signed = {}

-----------------------------------------------------------------------------
(* The coordinator                                                         *)

Live(p) == status[p] \in {"collecting", "finalized"}

(* createStoredVaultProposal: expired proposals without an approval go     *)
(* stale; one live proposal of the kind at a time.                         *)
CreateCooperative(p) ==
    /\ status[p] = "none"
    /\ \A q \in Proposals : Live(q) => expired[q]
    /\ status' = [q \in Proposals |->
                    IF q = p THEN "collecting" ELSE IF Live(q) THEN "stale" ELSE status[q]]
    /\ UNCHANGED <<expired, nonces, partials, made, tabVars, inflight, signed>>

CooperativeExpires(p) ==
    /\ Live(p) /\ ~expired[p]
    /\ expired' = [expired EXCEPT ![p] = TRUE]
    /\ UNCHANGED <<status, nonces, partials, made, tabVars, inflight, signed>>

(* getVaultRuntimeStatus, and the buttons the panel derives from it: round *)
(* 1 until this participant's nonce is there, round 2 over the complete    *)
(* set until its partial is there.                                         *)
Open(p) == status[p] = "collecting" /\ ~expired[p]
Buttons(s) ==
    {[proposal |-> p, nonces |-> NoNonces] : p \in {q \in Proposals :
        Open(q) /\ nonces[q][s] = NoNonce}}
    \cup {[proposal |-> p, nonces |-> nonces[p]] : p \in {q \in Proposals :
        Open(q) /\ Complete(nonces[q]) /\ partials[q][s] = NoPartial}}
RuntimeStatus(s) == IF Buttons(s) = {} THEN {NoView} ELSE Buttons(s)

(* The rows of one participant: ON CONFLICT DO NOTHING, then the stored    *)
(* value must be the submitted one.                                        *)
Prior(m) == IF m.kind = "nonce" THEN Pubnonce(nonces[m.proposal][OwnerOf[m.tab]])
                                ELSE partials[m.proposal][OwnerOf[m.tab]]
Recorded(m) == Prior(m) # NoPartial

(* validateCooperativePartial: all public nonces are there, and the        *)
(* signature verifies for this signer over exactly them.                   *)
ValidPartial(m) ==
    /\ Complete(nonces[m.proposal])
    /\ m.value = [nonce |-> nonces[m.proposal][OwnerOf[m.tab]], over |-> nonces[m.proposal]]

AcceptsAnew(m) ==
    /\ Live(m.proposal) /\ ~expired[m.proposal]
    /\ status[m.proposal] = "finalized" => Recorded(m)
    /\ m.kind = "partial" /\ status[m.proposal] = "collecting" => ValidPartial(m)

Accepts(m) ==
    /\ Live(m.proposal) /\ ~expired[m.proposal]
    /\ status[m.proposal] = "finalized" => Recorded(m)
    /\ m.kind = "partial" /\ status[m.proposal] = "collecting" => ValidPartial(m)
    /\ Recorded(m) => Prior(m) = m.value

(* The last partial finalizes.                                             *)
FinishedOneShort(row) ==
    Cardinality({s \in Signers : row[s] # NoPartial}) >= Cardinality(Signers) - 1
Finished(row) == \A s \in Signers : row[s] # NoPartial

(* The tab that waits for this answer stops waiting.                       *)
Answered(m) ==
    IF page[m.tab] = Doing("waiting", m) THEN [page EXCEPT ![m.tab] = Idle] ELSE page

(* recordCooperativeContribution.  A tab that waits for the answer forgets *)
(* its pending partial and refreshes, which may fail.                      *)
Accept(m) ==
    LET p == m.proposal
        s == OwnerOf[m.tab] IN
    /\ m \in inflight /\ Accepts(m)
    /\ UNCHANGED <<expired, made, stored, signed>>
    /\ inflight' = inflight \ {m}
    /\ nonces' = IF m.kind = "nonce" THEN [nonces EXCEPT ![p][s] = m.value.nonce] ELSE nonces
    /\ partials' = IF m.kind = "partial" THEN [partials EXCEPT ![p][s] = m.value] ELSE partials
    /\ status' = IF Finished(partials'[p])
                 THEN [status EXCEPT ![p] = "finalized"] ELSE status
    /\ page' = Answered(m)
    /\ IF page[m.tab] = Doing("waiting", m)
       THEN /\ pending' = IF m.kind = "partial"
                          THEN [pending EXCEPT ![m.tab][p] = NoPartial] ELSE pending
            /\ \/ UNCHANGED view
               \/ \E v \in RuntimeStatus(s)' : view' = [view EXCEPT ![m.tab] = v]
       ELSE UNCHANGED <<pending, view>>

Refuse(m) ==
    /\ m \in inflight /\ ~Accepts(m)
    /\ inflight' = inflight \ {m}
    /\ page' = Answered(m)
    /\ UNCHANGED <<serverVars, made, stored, pending, view, signed>>

-----------------------------------------------------------------------------
(* The panel                                                               *)

Shows(t) == \E v \in RuntimeStatus(OwnerOf[t]) : view' = [view EXCEPT ![t] = v]

(* Pressing "verify", selecting a proposal: refresh()                      *)
Refresh(t) ==
    /\ page[t] = Idle /\ Shows(t)
    /\ UNCHANGED <<serverVars, made, stored, pending, page, inflight, signed>>

(* A request made again while it is on its way is the same request.        *)
Post(t, request) ==
    /\ page' = [page EXCEPT ![t] = Doing("waiting", request)]
    /\ inflight' = inflight \cup {request}
    /\ Cardinality(inflight') <= MaxOnTheWay

(* The button shown, from the status fetched last                          *)
Round1(t) == page[t] = Idle /\ view[t].proposal # None /\ view[t].nonces = NoNonces
Round2(t) == page[t] = Idle /\ view[t].proposal # None /\ Complete(view[t].nonces)

(* publishCooperativeNonce: a nonce this tab already holds for the         *)
(* proposal is published again, otherwise one is generated and stored      *)
(* before anything is sent.                                                *)
PublishStoredNonce(t) ==
    LET p == view[t].proposal IN
    /\ Round1(t) /\ stored[t][p] # NoNonce
    /\ Post(t, Request(t, "nonce", p, Pubnonce(stored[t][p])))
    /\ UNCHANGED <<serverVars, made, stored, pending, view, signed>>

PublishNewNonce(t) ==
    LET p == view[t].proposal
        n == Len(made[OwnerOf[t]]) + 1 IN
    /\ Round1(t) /\ stored[t][p] = NoNonce
    /\ n <= MaxNonces[OwnerOf[t]]
    /\ made' = [made EXCEPT ![OwnerOf[t]] = Append(@, p)]
    /\ stored' = [stored EXCEPT ![t][p] = n]
    /\ Post(t, Request(t, "nonce", p, Pubnonce(n)))
    /\ UNCHANGED <<serverVars, pending, view, signed>>

(* publishCooperativePartial: a partial not acknowledged yet is sent       *)
(* again; otherwise consumeCooperativeSecnonce removes the nonce, fails if *)
(* another one was published, and the panel goes on to sign with it.       *)
PublishPendingPartial(t) ==
    LET p == view[t].proposal IN
    /\ Round2(t) /\ pending[t][p] # NoPartial
    /\ Post(t, Request(t, "partial", p, pending[t][p]))
    /\ UNCHANGED <<serverVars, made, stored, pending, view, signed>>

ConsumeNonce(t) ==
    LET p == view[t].proposal
        own == view[t].nonces[OwnerOf[t]] IN
    /\ Round2(t) /\ pending[t][p] = NoPartial /\ stored[t][p] # NoNonce
    /\ stored' = [stored EXCEPT ![t][p] = NoNonce]
    /\ IF stored[t][p] = own
       THEN page' = [page EXCEPT ![t] = Doing("signing",
              Request(t, "partial", p, [nonce |-> own, over |-> view[t].nonces]))]
       ELSE UNCHANGED page
    /\ UNCHANGED <<serverVars, made, pending, view, inflight, signed>>

(* ceremonyPartial, then the partial is kept before it is sent             *)
SignAndPost(t) ==
    LET m == page[t].request IN
    /\ page[t].does = "signing"
    /\ signed' = signed \cup {Use(t, m.proposal, m.value)}
    /\ Post(t, m)
    /\ UNCHANGED <<serverVars, made, stored, pending, view>>

SignPartial(t) ==
    LET m == page[t].request IN
    /\ page[t].does = "signing"
    /\ signed' = signed \cup {Use(t, m.proposal, m.value)}
    /\ pending' = [pending EXCEPT ![t][m.proposal] = m.value]
    /\ Post(t, m)
    /\ UNCHANGED <<serverVars, made, stored, view>>

(* The request or its answer is lost, as far as the tab can tell.          *)
GiveUp(t) ==
    /\ t \in Shaky
    /\ page[t].does = "waiting"
    /\ page' = [page EXCEPT ![t] = Idle]
    /\ UNCHANGED <<serverVars, made, stored, pending, view, inflight, signed>>

-----------------------------------------------------------------------------
(* Tabs: a reload keeps the storage, a duplicate copies it, closing ends it *)

OpenTab(t) ==
    /\ page[t] = Closed
    /\ page' = [page EXCEPT ![t] = Idle]
    /\ Shows(t)
    /\ UNCHANGED <<serverVars, made, stored, pending, inflight, signed>>

ReloadTab(t) ==
    /\ t \in Shaky
    /\ page[t] # Closed
    /\ page' = [page EXCEPT ![t] = Idle]
    /\ Shows(t)
    /\ UNCHANGED <<serverVars, made, stored, pending, inflight, signed>>

DuplicateTab(t, u) ==
    /\ OwnerOf[u] = OwnerOf[t] /\ page[t] # Closed /\ page[u] = Closed
    /\ page' = [page EXCEPT ![u] = Idle]
    /\ stored' = [stored EXCEPT ![u] = stored[t]]
    /\ pending' = [pending EXCEPT ![u] = pending[t]]
    /\ Shows(u)
    /\ UNCHANGED <<serverVars, made, inflight, signed>>

CloseTab(t) ==
    /\ t \in Shaky
    /\ page[t] # Closed
    /\ page' = [page EXCEPT ![t] = Closed]
    /\ stored' = [stored EXCEPT ![t] = [p \in Proposals |-> NoNonce]]
    /\ pending' = [pending EXCEPT ![t] = [p \in Proposals |-> NoPartial]]
    /\ view' = [view EXCEPT ![t] = NoView]
    /\ UNCHANGED <<serverVars, made, inflight, signed>>

-----------------------------------------------------------------------------
Coordinator ==
    \/ \E p \in Proposals : CreateCooperative(p) \/ CooperativeExpires(p)
    \/ \E m \in inflight : Accept(m)
    \/ \E m \in inflight : Refuse(m)

Panel ==
    \E t \in Tabs :
        \/ Refresh(t)
        \/ PublishStoredNonce(t)
        \/ PublishNewNonce(t)
        \/ PublishPendingPartial(t)
        \/ ConsumeNonce(t)
        \/ SignPartial(t)
        \/ GiveUp(t)

Browser ==
    \E t \in Tabs :
        \/ OpenTab(t)
        \/ ReloadTab(t)
        \/ CloseTab(t)
        \/ \E u \in Tabs : DuplicateTab(t, u)

SigningNext == Coordinator \/ Panel \/ Browser

SigningSpec == SigningInit /\ [][SigningNext]_signingVars

-----------------------------------------------------------------------------
(* Properties                                                              *)

(* A secret nonce signs one thing.  Whatever is retried, reloaded,         *)
(* duplicated or restarted after expiry, every use of one nonce            *)
(* (ceremonyPartial) is over the same nonce set.                           *)
NonceSignsOnce ==
    \A u, w \in signed :
        u.signer = w.signer /\ u.value.nonce = w.value.nonce => u.value.over = w.value.over

(* A finalized exit (recordCooperativeContribution's aggregate) was signed *)
(* by every participant, for this proposal, over exactly the nonces        *)
(* recorded for it.                                                        *)
ExitSignedByAll ==
    \A p \in Proposals : status[p] = "finalized" =>
        \A s \in Signers :
            /\ [signer |-> s, proposal |-> p, value |-> partials[p][s]] \in signed
            /\ partials[p][s].over = nonces[p]

(* A partial kept for a retry is never refused as a different one: the     *)
(* coordinator has recorded either nothing for this signer or just this.   *)
RetryIsTheSame ==
    \A t \in Tabs : \A p \in Proposals :
        LET recorded == partials[p][OwnerOf[t]] IN
        pending[t][p] # NoPartial /\ recorded # NoPartial => pending[t][p] = recorded

(* Who has published a nonce can finish until the tab that holds its       *)
(* secret is closed, or reloaded between removing the nonce and keeping    *)
(* the partial: no lost request, late answer or stale view takes that away.*)
CanFinish(p, s) ==
    /\ nonces[p][s] # NoNonce
    /\ \/ partials[p][s] # NoPartial
       \/ \E t \in Tabs :
            /\ OwnerOf[t] = s
            /\ \/ stored[t][p] = nonces[p][s]
               \/ pending[t][p] # NoPartial
               \/ page[t].does = "signing" /\ page[t].request.proposal = p
GivenUp(s) ==
    \E t \in Tabs :
        /\ OwnerOf[t] = s
        /\ \/ page[t] # Closed /\ page'[t] = Closed
           \/ page[t].does = "signing" /\ page'[t] = Idle
SecretsSurvive ==
    [][\A p \in Proposals : \A s \in Signers :
         CanFinish(p, s) /\ ~GivenUp(s) => CanFinish(p, s)']_signingVars
=============================================================================
