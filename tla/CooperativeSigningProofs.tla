---------------------- MODULE CooperativeSigningProofs ----------------------
(***************************************************************************)
(* Proofs about module CooperativeSigning, for any signers, tabs and       *)
(* proposals, and whatever the bounds are.                                 *)
(***************************************************************************)
EXTENDS CooperativeSigning, TLAPS

USE SigningAssumption DEF serverVars, tabVars, signingVars

(* Nonce n of signer s was generated for proposal p.                       *)
GeneratedFor(s, n, p) == n \in 1 .. Len(made[s]) /\ made[s][n] = p

(* Nonces are kept, sent and recorded under the proposal they are for.     *)
NoncesAreBound ==
    /\ \A t \in Tabs : \A p \in Proposals :
           stored[t][p] # NoNonce => GeneratedFor(OwnerOf[t], stored[t][p], p)
    /\ \A m \in inflight : m.kind = "nonce" =>
           GeneratedFor(OwnerOf[m.tab], m.value.nonce, m.proposal)
    /\ \A p \in Proposals : \A s \in Signers :
           nonces[p][s] # NoNonce => GeneratedFor(s, nonces[p][s], p)

(* What signer s signs for p: the complete set on record, with its own     *)
(* nonce in it.                                                            *)
Session(s, p, v) ==
    /\ Complete(nonces[p])
    /\ v = [nonce |-> nonces[p][s], over |-> nonces[p]]

(* The signature a tab is making is over the set on record.                *)
Signing(t, m) ==
    m.tab = t /\ m.kind = "partial" /\ Session(OwnerOf[t], m.proposal, m.value)

(* A complete set that a panel shows is the one on record, and it signs    *)
(* over nothing else.                                                      *)
ViewsAreExact ==
    \A t \in Tabs :
        /\ view[t].proposal # None /\ Complete(view[t].nonces) =>
               view[t].nonces = nonces[view[t].proposal]
        /\ page[t].does = "signing" => Signing(t, page[t].request)

(* Every signature kept, sent or recorded was made, in its session.        *)
PartialsAreSigned ==
    /\ \A u \in signed : Session(u.signer, u.proposal, u.value)
    /\ \A t \in Tabs : \A p \in Proposals :
           pending[t][p] # NoPartial => Use(t, p, pending[t][p]) \in signed
    /\ \A m \in inflight : m.kind = "partial" => Use(m.tab, m.proposal, m.value) \in signed
    /\ \A p \in Proposals : \A s \in Signers : partials[p][s] # NoPartial =>
           [signer |-> s, proposal |-> p, value |-> partials[p][s]] \in signed

(* A proposal is final once all its signatures are recorded.               *)
FinalizedIsFinished == \A p \in Proposals : status[p] = "finalized" => Finished(partials[p])

(* A closed tab keeps nothing.                                             *)
ClosedIsEmpty ==
    \A t \in Tabs : page[t] = Closed =>
        \A p \in Proposals : stored[t][p] = NoNonce /\ pending[t][p] = NoPartial

(* The inductive invariant.                                                *)
SigningInv ==
    /\ SigningTypeOK
    /\ NoncesAreBound /\ ViewsAreExact /\ PartialsAreSigned
    /\ FinalizedIsFinished /\ ClosedIsEmpty

-----------------------------------------------------------------------------
(* What an update of one entry of a table changes.                         *)
LEMMA EntryUpdate ==
    ASSUME NEW A, NEW B, NEW V, NEW f \in [A -> [B -> V]], NEW a \in A, NEW b \in B, NEW v \in V,
           NEW g, g = [f EXCEPT ![a][b] = v]
    PROVE  /\ g \in [A -> [B -> V]]
           /\ \A x \in A : \A y \in B : g[x][y] = IF x = a /\ y = b THEN v ELSE f[x][y]
           /\ \A x \in A : x # a => g[x] = f[x]
OBVIOUS

(* No nonces, no signatures, nothing on the way.                           *)
LEMMA SigningInitInv == SigningInit => SigningInv
<1> SUFFICES ASSUME SigningInit PROVE SigningInv
  OBVIOUS
<1> USE DEF SigningInit
<1>1. NoPartial \in Values /\ NoNonces \in NonceSets
  BY DEF NoPartial, NoNonces, NoNonce, Values, NonceSets
<1>2. SigningTypeOK
  BY <1>1 DEF SigningTypeOK, NoView, NoNonce, Closed
<1>3. NoncesAreBound
  BY DEF NoncesAreBound, NoNonces
<1>4. ViewsAreExact
  BY DEF ViewsAreExact, NoView, Closed, Doing
<1>5. PartialsAreSigned /\ FinalizedIsFinished /\ ClosedIsEmpty
  BY DEF PartialsAreSigned, FinalizedIsFinished, ClosedIsEmpty
<1> QED
  BY <1>2, <1>3, <1>4, <1>5 DEF SigningInv

(* What a panel is shown.                                                  *)
LEMMA ShownIsExact ==
    ASSUME SigningTypeOK, NEW s \in Signers, NEW v \in RuntimeStatus(s)
    PROVE  /\ v \in [proposal : Proposals \cup {None}, nonces : NonceSets]
           /\ v.proposal # None /\ Complete(v.nonces) => v.nonces = nonces[v.proposal]
<1>1. NoNonces \in NonceSets /\ ~Complete(NoNonces)
  BY DEF NoNonces, NonceSets, NoNonce, Complete
<1>2. CASE v = NoView
  BY <1>1, <1>2 DEF NoView
<1>3. CASE v \in Buttons(s)
  BY <1>1, <1>3 DEF Buttons, SigningTypeOK
<1> QED
  BY <1>2, <1>3 DEF RuntimeStatus

(* A tab that is busy with a request is not idle, not closed.              *)
LEMMA DoingIsWhat ==
    ASSUME NEW m, NEW w \in {"signing", "waiting"}
    PROVE  /\ Doing(w, m).does = w /\ Doing(w, m).request = m
           /\ Doing(w, m) # Closed /\ Doing(w, m) # Idle
           /\ Idle.does = "idle" /\ Closed.does = "closed" /\ Idle # Closed
BY DEF Doing, Idle, Closed

-----------------------------------------------------------------------------
(* The life of a proposal leaves its nonces and partials alone.            *)
LEMMA ProposalInv ==
    ASSUME SigningInv, NEW p \in Proposals, CreateCooperative(p) \/ CooperativeExpires(p)
    PROVE  SigningInv'
<1> USE DEF SigningInv
<1>1. UNCHANGED <<nonces, partials, made, tabVars, inflight, signed>>
  BY DEF CreateCooperative, CooperativeExpires
<1>2. SigningTypeOK'
  <2>1. CASE CreateCooperative(p)
    <3>1. status' \in [Proposals -> {"none", "collecting", "finalized", "stale"}]
      BY <2>1 DEF CreateCooperative, SigningTypeOK
    <3> QED
      BY <1>1, <2>1, <3>1 DEF SigningTypeOK, CreateCooperative
  <2>2. CASE CooperativeExpires(p)
    BY <1>1, <2>2 DEF CooperativeExpires, SigningTypeOK
  <2> QED
    BY <2>1, <2>2
<1>3. NoncesAreBound' /\ ViewsAreExact' /\ PartialsAreSigned' /\ ClosedIsEmpty'
  BY <1>1 DEF NoncesAreBound, ViewsAreExact, PartialsAreSigned, ClosedIsEmpty,
     GeneratedFor, Session, Signing
<1>4. \A q \in Proposals : status'[q] = "finalized" => status[q] = "finalized"
  BY DEF CreateCooperative, CooperativeExpires, SigningTypeOK
<1>5. FinalizedIsFinished'
  BY <1>1, <1>4 DEF FinalizedIsFinished
<1> QED
  BY <1>2, <1>3, <1>5

(* The answer to a waiting tab makes it idle; other tabs go on.            *)
LEMMA AnswerInv ==
    ASSUME SigningTypeOK, NEW m \in inflight, page' = Answered(m), NEW t \in Tabs
    PROVE  /\ page'[t] = page[t] \/ (page'[t] = Idle /\ page[t].does = "waiting")
           /\ page[t].does = "signing" => page'[t] = page[t]
           /\ page'[t].does = "signing" => page'[t] = page[t]
           /\ page'[t] = Closed => page[t] = Closed
           /\ page' \in [Tabs -> {Closed, Idle}
                  \cup [does : {"signing", "waiting"}, request : Requests]]
<1>1. m.tab \in Tabs
  BY DEF SigningTypeOK, Requests
<1>2. Doing("waiting", m).does = "waiting" /\ Doing("waiting", m) # Closed
      /\ Idle.does = "idle" /\ Idle # Closed
  BY DoingIsWhat
<1>3. CASE page[m.tab] = Doing("waiting", m)
  <2>1. page' = [page EXCEPT ![m.tab] = Idle]
    BY <1>3 DEF Answered
  <2> HIDE DEF Idle, Closed
  <2>2. page' \in [Tabs -> {Closed, Idle}
                  \cup [does : {"signing", "waiting"}, request : Requests]]
    BY <2>1 DEF SigningTypeOK
  <2>3. CASE t = m.tab
    <3>1. page'[t] = Idle
      BY <1>1, <2>1, <2>3 DEF SigningTypeOK
    <3> QED
      BY <1>2, <1>3, <2>2, <2>3, <3>1
  <2>4. CASE t # m.tab
    <3>1. page'[t] = page[t]
      BY <2>1, <2>4 DEF SigningTypeOK
    <3> QED
      BY <2>2, <3>1
  <2> QED
    BY <2>3, <2>4
<1>4. CASE page[m.tab] # Doing("waiting", m)
  <2>1. page' = page
    BY <1>4 DEF Answered
  <2> QED
    BY <2>1 DEF SigningTypeOK
<1> QED
  BY <1>3, <1>4

(* A complete set of nonces, and whatever was recorded, stays.             *)
LEMMA AcceptKeeps ==
    ASSUME SigningTypeOK, NEW m \in inflight, Accept(m)
    PROVE  /\ \A p \in Proposals : \A s \in Signers :
                /\ nonces[p][s] # NoNonce => nonces'[p][s] = nonces[p][s]
                /\ partials[p][s] # NoPartial => partials'[p][s] = partials[p][s]
           /\ \A p \in Proposals : Complete(nonces[p]) => nonces'[p] = nonces[p]
           /\ \A p \in Proposals : \A s \in Signers : \A v :
                Session(s, p, v) => Session(s, p, v)'
<1> DEFINE p == m.proposal
           s == OwnerOf[m.tab]
<1>0. p \in Proposals /\ s \in Signers /\ m.value \in Values /\ m.kind \in {"nonce", "partial"}
  BY DEF SigningTypeOK, Requests
<1>1. CASE m.kind = "nonce"
  <2>1. nonces' = [nonces EXCEPT ![p][s] = m.value.nonce] /\ partials' = partials
    BY <1>1 DEF Accept
  <2>2. nonces[p][s] # NoNonce => m.value.nonce = nonces[p][s]
    BY <1>1 DEF Accept, Accepts, Recorded, Prior, Pubnonce, NoPartial
  <2>3. \A q \in Proposals : \A r \in Signers :
          nonces[q][r] # NoNonce => nonces'[q][r] = nonces[q][r]
    BY <1>0, <2>1, <2>2 DEF SigningTypeOK, NonceSets
  <2>4. \A q \in Proposals : Complete(nonces[q]) => nonces'[q] = nonces[q]
    BY <1>0, <2>1, <2>3 DEF SigningTypeOK, NonceSets, Complete
  <2> QED
    BY <2>1, <2>3, <2>4 DEF Session
<1>2. CASE m.kind = "partial"
  <2>1. nonces' = nonces /\ partials' = [partials EXCEPT ![p][s] = m.value]
    BY <1>2 DEF Accept
  <2>2. partials[p][s] # NoPartial => m.value = partials[p][s]
    BY <1>2 DEF Accept, Accepts, Recorded, Prior
  <2>3. \A q \in Proposals : \A r \in Signers :
          partials[q][r] # NoPartial => partials'[q][r] = partials[q][r]
    BY <1>0, <2>1, <2>2 DEF SigningTypeOK
  <2> QED
    BY <2>1, <2>3 DEF Session
<1> QED
  BY <1>0, <1>1, <1>2

(* What a panel is shown after the answer.                                 *)
LEMMA ShownNextIsExact ==
    ASSUME SigningTypeOK, nonces' \in [Proposals -> NonceSets],
           NEW s \in Signers, NEW v, v \in RuntimeStatus(s)'
    PROVE  /\ v \in [proposal : Proposals \cup {None}, nonces : NonceSets]
           /\ v.proposal # None /\ Complete(v.nonces) => v.nonces = nonces'[v.proposal]
<1>1. NoNonces \in NonceSets /\ ~Complete(NoNonces)
  BY DEF NoNonces, NonceSets, NoNonce, Complete
<1>2. CASE v = NoView
  BY <1>1, <1>2 DEF NoView
<1>3. CASE v # NoView
  <2>1. v \in Buttons(s)'
    BY <1>3 DEF RuntimeStatus, NoView
  <2> QED
    BY <1>1, <2>1 DEF Buttons
<1> QED
  BY <1>2, <1>3

(* What the server records was generated or signed for that proposal.      *)
LEMMA AcceptInv ==
    ASSUME SigningInv, NEW m \in inflight, Accept(m)
    PROVE  SigningInv'
<1> DEFINE p == m.proposal
           s == OwnerOf[m.tab]
<1> USE DEF SigningInv
<1>0. /\ p \in Proposals /\ s \in Signers /\ m.value \in Values /\ m.tab \in Tabs
      /\ m.kind \in {"nonce", "partial"} /\ m.value.nonce \in Nat
  BY DEF SigningTypeOK, Requests, Values
<1>1. /\ UNCHANGED <<expired, made, stored, signed>>
      /\ inflight' = inflight \ {m} /\ page' = Answered(m)
  BY DEF Accept
<1>2. nonces' \in [Proposals -> NonceSets] /\ partials' \in [Proposals -> [Signers -> Values]]
  <2>1. nonces' = nonces \/ nonces' = [nonces EXCEPT ![p][s] = m.value.nonce]
    BY DEF Accept
  <2>2. partials' = partials \/ partials' = [partials EXCEPT ![p][s] = m.value]
    BY DEF Accept
  <2>3. ASSUME nonces' = [nonces EXCEPT ![p][s] = m.value.nonce]
        PROVE  nonces' \in [Proposals -> [Signers -> Nat]]
    <3>1. nonces \in [Proposals -> [Signers -> Nat]]
      BY DEF SigningTypeOK, NonceSets
    <3> QED
      BY <1>0, <2>3, <3>1, EntryUpdate
  <2>4. ASSUME partials' = [partials EXCEPT ![p][s] = m.value]
        PROVE  partials' \in [Proposals -> [Signers -> Values]]
    <3>1. partials \in [Proposals -> [Signers -> Values]]
      BY DEF SigningTypeOK
    <3> QED
      BY <1>0, <2>4, <3>1, EntryUpdate
  <2> QED
    BY <2>1, <2>2, <2>3, <2>4 DEF SigningTypeOK, NonceSets
<1>3. /\ pending' \in [Tabs -> [Proposals -> Values]]
      /\ \A t \in Tabs : \A q \in Proposals :
           pending'[t][q] = pending[t][q] \/ pending'[t][q] = NoPartial
  <2>1. NoPartial \in Values
    BY DEF NoPartial, NoNonces, NoNonce, Values, NonceSets
  <2>2. pending' = pending \/ pending' = [pending EXCEPT ![m.tab][p] = NoPartial]
    BY DEF Accept
  <2>3. CASE pending' = pending
    BY <2>3 DEF SigningTypeOK
  <2>4. CASE pending' = [pending EXCEPT ![m.tab][p] = NoPartial]
    <3>1. pending \in [Tabs -> [Proposals -> Values]]
      BY DEF SigningTypeOK
    <3> QED
      BY <1>0, <2>1, <2>4, <3>1, EntryUpdate
  <2> QED
    BY <2>2, <2>3, <2>4
<1>5. view' = view \/ \E v : v \in RuntimeStatus(s)' /\ view' = [view EXCEPT ![m.tab] = v]
  BY DEF Accept
<1>6. view' \in [Tabs -> [proposal : Proposals \cup {None}, nonces : NonceSets]]
  <2>1. CASE view' = view
    BY <2>1 DEF SigningTypeOK
  <2>2. CASE view' # view
    <3>1. PICK v : v \in RuntimeStatus(s)' /\ view' = [view EXCEPT ![m.tab] = v]
      BY <1>5, <2>2
    <3>2. v \in [proposal : Proposals \cup {None}, nonces : NonceSets]
      BY <1>0, <1>2, <3>1, ShownNextIsExact
    <3> QED
      BY <3>1, <3>2 DEF SigningTypeOK
  <2> QED
    BY <2>1, <2>2
<1>7. SigningTypeOK'
  <2>1. status' \in [Proposals -> {"none", "collecting", "finalized", "stale"}]
    BY DEF Accept, SigningTypeOK
  <2>2. page' \in [Tabs -> {Closed, Idle}
                  \cup [does : {"signing", "waiting"}, request : Requests]]
    BY <1>0, <1>1, AnswerInv
  <2> QED
    BY <1>1, <1>2, <1>3, <1>6, <2>1, <2>2 DEF SigningTypeOK
<1>8. NoncesAreBound'
  <2>1. \A q \in Proposals : \A r \in Signers :
          nonces'[q][r] # NoNonce => nonces'[q][r] = nonces[q][r]
             \/ (m.kind = "nonce" /\ q = p /\ r = s /\ nonces'[q][r] = m.value.nonce)
    BY <1>0 DEF Accept, SigningTypeOK, NonceSets
  <2> QED
    BY <1>1, <2>1 DEF NoncesAreBound, GeneratedFor
<1>9. ViewsAreExact'
  <2> SUFFICES ASSUME NEW t \in Tabs
               PROVE  /\ view'[t].proposal # None /\ Complete(view'[t].nonces) =>
                           view'[t].nonces = nonces'[view'[t].proposal]
                      /\ page'[t].does = "signing" => Signing(t, page[t].request)'
    BY DEF ViewsAreExact, Complete
  <2>1. view'[t].proposal # None /\ Complete(view'[t].nonces) =>
          view'[t].nonces = nonces'[view'[t].proposal]
    <3>1. CASE view'[t] = view[t]
      <4>1. view[t].proposal \in Proposals \cup {None}
        BY DEF SigningTypeOK
      <4> QED
        BY <3>1, <4>1, AcceptKeeps DEF ViewsAreExact
    <3>2. CASE view'[t] # view[t]
      <4>1. PICK v : v \in RuntimeStatus(s)' /\ view' = [view EXCEPT ![m.tab] = v]
        BY <1>5, <3>2
      <4>2. view'[t] = v
        BY <1>0, <3>2, <4>1 DEF SigningTypeOK
      <4> QED
        BY <1>0, <1>2, <4>1, <4>2, ShownNextIsExact
    <3> QED
      BY <3>1, <3>2
  <2>2. ASSUME page'[t].does = "signing"
        PROVE  Signing(t, page[t].request)'
    <3>1. page'[t] = page[t]
      BY <1>1, <2>2, AnswerInv
    <3>2. page[t].request.proposal \in Proposals /\ OwnerOf[t] \in Signers
      <4>1. page[t] \in [does : {"signing", "waiting"}, request : Requests]
        BY <2>2, <3>1 DEF SigningTypeOK, Closed, Idle, Doing
      <4> QED
        BY <4>1 DEF Requests
    <3> QED
      BY <2>2, <3>1, <3>2, AcceptKeeps DEF ViewsAreExact, Signing
  <2> QED
    BY <2>1, <2>2
<1>10. PartialsAreSigned'
  <2>1. \A u \in signed' : Session(u.signer, u.proposal, u.value)'
    <3>1. \A u \in signed : u.signer \in Signers /\ u.proposal \in Proposals
      BY DEF SigningTypeOK, Uses
    <3> QED
      BY <1>1, <3>1, AcceptKeeps DEF PartialsAreSigned
  <2>2. \A t \in Tabs : \A q \in Proposals :
          pending'[t][q] # NoPartial => Use(t, q, pending'[t][q]) \in signed'
    BY <1>1, <1>3 DEF PartialsAreSigned
  <2>3. \A k \in inflight' : k.kind = "partial" => Use(k.tab, k.proposal, k.value) \in signed'
    BY <1>1 DEF PartialsAreSigned
  <2>4. \A q \in Proposals : \A r \in Signers : partials'[q][r] # NoPartial =>
          [signer |-> r, proposal |-> q, value |-> partials'[q][r]] \in signed'
    <3>1. \A q \in Proposals : \A r \in Signers : partials'[q][r] = partials[q][r]
             \/ (m.kind = "partial" /\ q = p /\ r = s /\ partials'[q][r] = m.value)
      BY <1>0 DEF Accept, SigningTypeOK
    <3> QED
      BY <1>1, <3>1 DEF PartialsAreSigned, Use
  <2> QED
    BY <2>1, <2>2, <2>3, <2>4 DEF PartialsAreSigned
<1>11. FinalizedIsFinished'
  <2> SUFFICES ASSUME NEW q \in Proposals, status'[q] = "finalized"
               PROVE  Finished(partials'[q])
    BY DEF FinalizedIsFinished, Finished
  <2>1. CASE q = p /\ Finished(partials'[p])
    BY <2>1
  <2>2. CASE ~(q = p /\ Finished(partials'[p]))
    <3>1. status[q] = "finalized"
      BY <2>2 DEF Accept, SigningTypeOK
    <3> QED
      BY <3>1, AcceptKeeps DEF FinalizedIsFinished, Finished
  <2> QED
    BY <2>1, <2>2
<1>12. ClosedIsEmpty'
  <2> SUFFICES ASSUME NEW t \in Tabs, page'[t] = Closed, NEW q \in Proposals
               PROVE  stored'[t][q] = NoNonce /\ pending'[t][q] = NoPartial
    BY DEF ClosedIsEmpty
  <2>1. page[t] = Closed
    BY <1>1, AnswerInv
  <2> QED
    BY <1>1, <1>3, <2>1 DEF ClosedIsEmpty
<1> QED
  BY <1>7, <1>8, <1>9, <1>10, <1>11, <1>12

-----------------------------------------------------------------------------
(* The tabs                                                                *)

(* What the tabs do.                                                       *)
PageType == [Tabs -> {Closed, Idle} \cup [does : {"signing", "waiting"}, request : Requests]]
(* What the panels show.                                                   *)
ViewType == [Tabs -> [proposal : Proposals \cup {None}, nonces : NonceSets]]

(* One tab's part of ViewsAreExact.                                        *)
ExactView(t) ==
    view[t].proposal # None /\ Complete(view[t].nonces) =>
        view[t].nonces = nonces[view[t].proposal]

(* What a request must be to be sent.                                      *)
Sendable(m) ==
    /\ m \in Requests
    /\ m.kind = "nonce" => GeneratedFor(OwnerOf[m.tab], m.value.nonce, m.proposal)
    /\ m.kind = "partial" => Use(m.tab, m.proposal, m.value) \in signed

(* A step that leaves the storage alone, and no tab starts to sign.        *)
LEMMA QuietInv ==
    ASSUME SigningInv, UNCHANGED <<serverVars, made, stored, pending, signed>>,
           \A m \in inflight' : m \in inflight \/ Sendable(m),
           view' \in ViewType, \A t \in Tabs : view'[t] = view[t] \/ ExactView(t)',
           page' \in PageType,
           \A t \in Tabs : page'[t].does = "signing" => page'[t] = page[t],
           \A t \in Tabs : page'[t] = Closed => page[t] = Closed
    PROVE  SigningInv'
<1> USE DEF SigningInv
<1>1. SigningTypeOK'
  BY DEF SigningTypeOK, ViewType, PageType, Sendable
<1>2. NoncesAreBound'
  BY DEF NoncesAreBound, GeneratedFor, Sendable
<1>3. ViewsAreExact'
  <2> SUFFICES ASSUME NEW t \in Tabs
               PROVE  ExactView(t)' /\ (page'[t].does = "signing" => Signing(t, page[t].request)')
    BY DEF ViewsAreExact, ExactView, Complete
  <2>1. ExactView(t)'
    BY DEF ViewsAreExact, ExactView, Complete
  <2>2. page'[t].does = "signing" => Signing(t, page[t].request)'
    BY DEF ViewsAreExact, Signing, Session
  <2> QED
    BY <2>1, <2>2
<1>4. PartialsAreSigned'
  BY DEF PartialsAreSigned, Session, Sendable
<1>5. FinalizedIsFinished' /\ ClosedIsEmpty'
  BY DEF FinalizedIsFinished, ClosedIsEmpty
<1> QED
  BY <1>1, <1>2, <1>3, <1>4, <1>5

(* A refusal changes nothing on record.                                    *)
LEMMA RefuseInv ==
    ASSUME SigningInv, NEW m \in inflight, Refuse(m)
    PROVE  SigningInv'
<1>1. SigningTypeOK
  BY DEF SigningInv
<1>2. /\ UNCHANGED <<serverVars, made, stored, pending, signed>> /\ view' = view
      /\ page' = Answered(m) /\ \A k \in inflight' : k \in inflight
  BY DEF Refuse
<1>3. \A t \in Tabs : (page'[t].does = "signing" => page'[t] = page[t])
                      /\ (page'[t] = Closed => page[t] = Closed)
  BY <1>1, <1>2, AnswerInv
<1>4. page' \in PageType
  <2>1. m.tab \in Tabs
    BY <1>1 DEF SigningTypeOK, Requests
  <2> QED
    BY <1>1, <1>2, <2>1, AnswerInv DEF PageType
<1>5. view' \in ViewType /\ \A t \in Tabs : view'[t] = view[t]
  BY <1>1, <1>2 DEF SigningTypeOK, ViewType
<1> QED
  BY <1>2, <1>3, <1>4, <1>5, QuietInv

(* The panel of a tab shows a runtime status.                              *)
LEMMA ShowsInv ==
    ASSUME SigningTypeOK, NEW t \in Tabs, Shows(t), UNCHANGED nonces
    PROVE  /\ view' \in ViewType
           /\ \A u \in Tabs : view'[u] = view[u] \/ ExactView(u)'
           /\ \A u \in Tabs \ {t} : view'[u] = view[u]
<1>1. PICK v \in RuntimeStatus(OwnerOf[t]) : view' = [view EXCEPT ![t] = v]
  BY DEF Shows
<1>2. OwnerOf[t] \in Signers
  OBVIOUS
<1>3. /\ v \in [proposal : Proposals \cup {None}, nonces : NonceSets]
      /\ v.proposal # None /\ Complete(v.nonces) => v.nonces = nonces[v.proposal]
  BY <1>2, ShownIsExact
<1>4. view \in ViewType
  BY DEF SigningTypeOK, ViewType
<1>5. view' \in ViewType /\ view'[t] = v /\ \A u \in Tabs \ {t} : view'[u] = view[u]
  BY <1>1, <1>3, <1>4 DEF ViewType
<1>6. ExactView(t)'
  BY <1>3, <1>5 DEF ExactView, Complete
<1> QED
  BY <1>5, <1>6

(* A page that becomes idle or sends a request.                            *)
LEMMA PageUpdate ==
    ASSUME SigningTypeOK, NEW t \in Tabs, NEW w, page' = [page EXCEPT ![t] = w],
           w = Idle \/ (\E m \in Requests : w = Doing("waiting", m))
    PROVE  /\ page' \in PageType /\ page'[t] = w
           /\ \A u \in Tabs \ {t} : page'[u] = page[u]
           /\ \A u \in Tabs : page'[u].does = "signing" => page'[u] = page[u]
           /\ \A u \in Tabs : page'[u] = Closed => page[u] = Closed
<1>1. /\ w.does # "signing" /\ w # Closed
      /\ w \in {Closed, Idle} \cup [does : {"signing", "waiting"}, request : Requests]
  BY DEF Doing, Closed, Idle
<1>2. page \in PageType
  BY DEF SigningTypeOK, PageType
<1>3. page' \in PageType /\ page'[t] = w /\ \A u \in Tabs \ {t} : page'[u] = page[u]
  BY <1>1, <1>2 DEF PageType
<1> QED
  BY <1>1, <1>3

(* Looking, giving up, opening, reloading: the page goes idle.             *)
LEMMA LookInv ==
    ASSUME SigningInv, NEW t \in Tabs, Refresh(t) \/ GiveUp(t) \/ OpenTab(t) \/ ReloadTab(t)
    PROVE  SigningInv'
<1>1. SigningTypeOK
  BY DEF SigningInv
<1>2. UNCHANGED <<serverVars, made, stored, pending, signed>> /\ inflight' = inflight
  BY DEF Refresh, GiveUp, OpenTab, ReloadTab
<1>3. view' \in ViewType /\ \A u \in Tabs : view'[u] = view[u] \/ ExactView(u)'
  <2>1. CASE GiveUp(t)
    BY <1>1, <2>1 DEF GiveUp, SigningTypeOK, ViewType
  <2>2. CASE Shows(t)
    BY <1>1, <1>2, <2>2, ShowsInv
  <2> QED
    BY <2>1, <2>2 DEF Refresh, OpenTab, ReloadTab
<1>4. /\ page' \in PageType
      /\ \A u \in Tabs : page'[u].does = "signing" => page'[u] = page[u]
      /\ \A u \in Tabs : page'[u] = Closed => page[u] = Closed
  <2>1. CASE page' = page
    BY <1>1, <2>1 DEF SigningTypeOK, PageType
  <2>2. CASE page' = [page EXCEPT ![t] = Idle]
    BY <1>1, <2>2, PageUpdate
  <2> QED
    BY <2>1, <2>2 DEF Refresh, GiveUp, OpenTab, ReloadTab
<1> QED
  BY <1>2, <1>3, <1>4, QuietInv

(* A kept nonce or partial is sent again.                                  *)
LEMMA RepeatInv ==
    ASSUME SigningInv, NEW t \in Tabs, PublishStoredNonce(t) \/ PublishPendingPartial(t)
    PROVE  SigningInv'
<1> DEFINE p == view[t].proposal
<1> USE DEF SigningInv
<1>0. p \in Proposals /\ NoNonces \in NonceSets /\ OwnerOf[t] \in Signers
  BY DEF PublishStoredNonce, PublishPendingPartial, Round1, Round2, SigningTypeOK,
     NoNonces, NonceSets, NoNonce
<1>1. UNCHANGED <<serverVars, made, stored, pending, signed>> /\ view' = view
  BY DEF PublishStoredNonce, PublishPendingPartial
<1>2. PICK m : Sendable(m) /\ Post(t, m)
  <2>1. CASE PublishStoredNonce(t)
    <3> DEFINE m == Request(t, "nonce", p, Pubnonce(stored[t][p]))
    <3>1. Post(t, m) /\ stored[t][p] # NoNonce /\ stored[t][p] \in Nat
      BY <1>0, <2>1 DEF PublishStoredNonce, SigningTypeOK
    <3>2. Sendable(m)
      BY <1>0, <3>1 DEF Sendable, Requests, Values, Request, Pubnonce, NoncesAreBound
    <3> QED
      BY <3>1, <3>2
  <2>2. CASE PublishPendingPartial(t)
    <3> DEFINE m == Request(t, "partial", p, pending[t][p])
    <3>1. Post(t, m) /\ pending[t][p] # NoPartial /\ pending[t][p] \in Values
      BY <1>0, <2>2 DEF PublishPendingPartial, SigningTypeOK
    <3>2. Sendable(m)
      BY <1>0, <3>1 DEF Sendable, Requests, Request, PartialsAreSigned
    <3> QED
      BY <3>1, <3>2
  <2> QED
    BY <2>1, <2>2
<1>3. /\ page' \in PageType
      /\ \A u \in Tabs : page'[u].does = "signing" => page'[u] = page[u]
      /\ \A u \in Tabs : page'[u] = Closed => page[u] = Closed
  BY <1>2, PageUpdate DEF Post, Sendable
<1>4. \A k \in inflight' : k \in inflight \/ Sendable(k)
  BY <1>2 DEF Post
<1>5. view' \in ViewType /\ \A u \in Tabs : view'[u] = view[u]
  BY <1>1 DEF SigningTypeOK, ViewType
<1> QED
  BY <1>1, <1>3, <1>4, <1>5, QuietInv

(* A new nonce is nobody's signature yet.                                  *)
LEMMA NewNonceInv ==
    ASSUME SigningInv, NEW t \in Tabs, PublishNewNonce(t)
    PROVE  SigningInv'
<1> DEFINE o == OwnerOf[t]
<1> PICK p : p = view[t].proposal
  OBVIOUS
<1> PICK n : n = Len(made[o]) + 1
  OBVIOUS
<1> PICK m : m = Request(t, "nonce", p, Pubnonce(n))
  OBVIOUS
<1> USE DEF SigningInv
<1>0. p \in Proposals /\ NoNonces \in NonceSets /\ o \in Signers /\ n \in Nat /\ n # NoNonce
      /\ made \in [Signers -> Seq(Proposals)]
  BY DEF PublishNewNonce, Round1, SigningTypeOK, NoNonces, NonceSets, NoNonce
<1>1. /\ UNCHANGED <<serverVars, pending, signed, view>>
      /\ made' = [made EXCEPT ![o] = Append(@, p)]
      /\ stored' = [stored EXCEPT ![t][p] = n]
      /\ Post(t, m) /\ inflight' = inflight \cup {m}
  BY DEF PublishNewNonce, Post
<1>2. m \in Requests /\ m.kind = "nonce" /\ m.tab = t /\ m.proposal = p /\ m.value.nonce = n
  BY <1>0 DEF Requests, Request, Pubnonce, Values
<1>3. /\ page' \in PageType
      /\ \A u \in Tabs : page'[u].does = "signing" => page'[u] = page[u]
      /\ \A u \in Tabs : page'[u] = Closed => page[u] = Closed
      /\ page'[t] # Closed
  <2>1. page' = [page EXCEPT ![t] = Doing("waiting", m)]
    BY <1>1 DEF Post
  <2>2. Doing("waiting", m) # Closed
    BY DoingIsWhat
  <2> QED
    BY <1>2, <2>1, <2>2, PageUpdate
<1>4. /\ stored' \in [Tabs -> [Proposals -> Nat]]
      /\ \A u \in Tabs : \A q \in Proposals :
           stored'[u][q] = IF u = t /\ q = p THEN n ELSE stored[u][q]
  <2>1. stored \in [Tabs -> [Proposals -> Nat]]
    BY DEF SigningTypeOK
  <2> QED
    BY <1>0, <1>1, <2>1, EntryUpdate
<1>5. /\ made' \in [Signers -> Seq(Proposals)] /\ GeneratedFor(o, n, p)'
      /\ \A s \in Signers : \A k : \A q : GeneratedFor(s, k, q) => GeneratedFor(s, k, q)'
  <2>1. made'[o] = Append(made[o], p) /\ \A s \in Signers \ {o} : made'[s] = made[s]
    BY <1>0, <1>1
  <2>2. Append(made[o], p) \in Seq(Proposals) /\ Len(Append(made[o], p)) = n
        /\ Append(made[o], p)[n] = p
        /\ \A i \in 1 .. Len(made[o]) : i \in 1 .. n /\ Append(made[o], p)[i] = made[o][i]
    BY <1>0
  <2>3. made' \in [Signers -> Seq(Proposals)] /\ GeneratedFor(o, n, p)'
    BY <1>0, <1>1, <2>1, <2>2 DEF GeneratedFor
  <2>4. ASSUME NEW s \in Signers, NEW k, NEW q, GeneratedFor(s, k, q)
        PROVE  GeneratedFor(s, k, q)'
    BY <1>0, <2>1, <2>2, <2>4 DEF GeneratedFor
  <2> QED
    BY <2>3, <2>4
<1>6. SigningTypeOK'
  BY <1>1, <1>2, <1>3, <1>4, <1>5 DEF SigningTypeOK, PageType
<1>7. NoncesAreBound'
  <2>1. \A u \in Tabs : \A q \in Proposals :
          stored'[u][q] # NoNonce => GeneratedFor(OwnerOf[u], stored[u][q], q)'
    <3> SUFFICES ASSUME NEW u \in Tabs, NEW q \in Proposals, stored'[u][q] # NoNonce
                 PROVE  GeneratedFor(OwnerOf[u], stored[u][q], q)'
      OBVIOUS
    <3>1. CASE u = t /\ q = p
      BY <1>4, <1>5, <3>1
    <3>2. CASE ~(u = t /\ q = p)
      <4>1. stored'[u][q] = stored[u][q] /\ OwnerOf[u] \in Signers
        BY <1>4, <3>2
      <4>2. GeneratedFor(OwnerOf[u], stored'[u][q], q)
        BY <4>1 DEF NoncesAreBound
      <4> QED
        BY <1>5, <4>1, <4>2 DEF GeneratedFor
    <3> QED
      BY <3>1, <3>2
  <2>2. \A k \in inflight' : k.kind = "nonce" =>
          GeneratedFor(OwnerOf[k.tab], k.value.nonce, k.proposal)'
    <3>1. ASSUME NEW k \in inflight, k.kind = "nonce"
          PROVE  GeneratedFor(OwnerOf[k.tab], k.value.nonce, k.proposal)'
      <4>1. OwnerOf[k.tab] \in Signers
        BY DEF SigningTypeOK, Requests
      <4> QED
        BY <1>5, <3>1, <4>1 DEF NoncesAreBound
    <3>2. GeneratedFor(OwnerOf[m.tab], m.value.nonce, m.proposal)'
      BY <1>2, <1>5
    <3> QED
      BY <1>1, <3>1, <3>2
  <2>3. \A q \in Proposals : \A s \in Signers :
          nonces[q][s] # NoNonce => GeneratedFor(s, nonces[q][s], q)'
    BY <1>1, <1>5 DEF NoncesAreBound
  <2> QED
    BY <1>1, <2>1, <2>2, <2>3 DEF NoncesAreBound
<1>8. ViewsAreExact'
  <2>1. \A u \in Tabs : page'[u].does = "signing" => Signing(u, page[u].request)'
    BY <1>1, <1>3 DEF ViewsAreExact, Signing, Session
  <2> QED
    BY <1>1, <2>1 DEF ViewsAreExact, Complete
<1>9. PartialsAreSigned' /\ FinalizedIsFinished'
  BY <1>1, <1>2 DEF PartialsAreSigned, Session, FinalizedIsFinished
<1>10. ClosedIsEmpty'
  BY <1>1, <1>3, <1>4 DEF ClosedIsEmpty
<1> QED
  BY <1>6, <1>7, <1>8, <1>9, <1>10

(* The nonce leaves the storage; a panel that goes on to sign does so over *)
(* the complete set it was shown.                                          *)
LEMMA ConsumeInv ==
    ASSUME SigningInv, NEW t \in Tabs, ConsumeNonce(t)
    PROVE  SigningInv'
<1> DEFINE p == view[t].proposal
           o == OwnerOf[t]
           own == view[t].nonces[o]
           m == Request(t, "partial", p, [nonce |-> own, over |-> view[t].nonces])
<1> USE DEF SigningInv
<1>0. p \in Proposals /\ o \in Signers /\ own \in Nat /\ view[t].nonces \in NonceSets
      /\ p # None /\ Complete(view[t].nonces) /\ page[t] = Idle
  BY DEF ConsumeNonce, Round2, SigningTypeOK, NonceSets
<1>1. /\ UNCHANGED <<serverVars, made, pending, view, inflight, signed>>
      /\ stored' = [stored EXCEPT ![t][p] = NoNonce]
      /\ page' = page \/ page' = [page EXCEPT ![t] = Doing("signing", m)]
  BY DEF ConsumeNonce
<1>2. m \in Requests /\ Doing("signing", m).does = "signing" /\ Doing("signing", m).request = m
      /\ Doing("signing", m) \in [does : {"signing", "waiting"}, request : Requests]
      /\ Doing("signing", m) # Closed
  BY <1>0 DEF Requests, Request, Values, Doing, Closed
<1>3. Signing(t, m)
  <2>1. view[t].nonces = nonces[p]
    BY <1>0 DEF ViewsAreExact
  <2>2. m.tab = t /\ m.kind = "partial" /\ m.proposal = p
        /\ m.value = [nonce |-> nonces[p][o], over |-> nonces[p]]
    BY <2>1 DEF Request
  <2> QED
    BY <1>0, <2>1, <2>2 DEF Signing, Session
<1>4. /\ page' \in PageType
      /\ \A u \in Tabs : page'[u] = page[u] \/ (u = t /\ page'[u] = Doing("signing", m))
  <2>1. page \in PageType
    BY DEF SigningTypeOK, PageType
  <2>2. ASSUME NEW w, page' = [page EXCEPT ![t] = w],
               w \in [does : {"signing", "waiting"}, request : Requests]
        PROVE  page' \in PageType /\ \A u \in Tabs : page'[u] = page[u] \/ (u = t /\ page'[u] = w)
    BY <2>1, <2>2 DEF PageType
  <2> QED
    BY <1>1, <1>2, <2>1, <2>2
<1>5. /\ stored' \in [Tabs -> [Proposals -> Nat]]
      /\ \A u \in Tabs : \A q \in Proposals :
           stored'[u][q] = IF u = t /\ q = p THEN NoNonce ELSE stored[u][q]
  <2>1. stored \in [Tabs -> [Proposals -> Nat]] /\ NoNonce \in Nat
    BY DEF SigningTypeOK, NoNonce
  <2> QED
    BY <1>0, <1>1, <2>1, EntryUpdate
<1>6. SigningTypeOK'
  BY <1>1, <1>4, <1>5 DEF SigningTypeOK, PageType
<1>7. NoncesAreBound'
  BY <1>1, <1>5 DEF NoncesAreBound, GeneratedFor
<1>8. ViewsAreExact'
  <2>1. \A u \in Tabs : page'[u].does = "signing" => Signing(u, page'[u].request)
    BY <1>2, <1>3, <1>4 DEF ViewsAreExact
  <2> QED
    BY <1>1, <2>1 DEF ViewsAreExact, Signing, Session
<1>9. PartialsAreSigned' /\ FinalizedIsFinished'
  BY <1>1 DEF PartialsAreSigned, Session, FinalizedIsFinished
<1>10. ClosedIsEmpty'
  BY <1>1, <1>2, <1>4, <1>5 DEF ClosedIsEmpty
<1> QED
  BY <1>6, <1>7, <1>8, <1>9, <1>10

(* A signature is made over the complete set, once per nonce.              *)
LEMMA SignInv ==
    ASSUME SigningInv, NEW t \in Tabs, SignPartial(t)
    PROVE  SigningInv'
<1> DEFINE m == page[t].request
           p == m.proposal
           u0 == Use(t, p, m.value)
<1> USE DEF SigningInv
<1>0. /\ page[t].does = "signing" /\ Signing(t, m) /\ m \in Requests
      /\ p \in Proposals /\ m.value \in Values /\ OwnerOf[t] \in Signers
  <2>1. page[t].does = "signing"
    BY DEF SignPartial
  <2>2. page[t] \in [does : {"signing", "waiting"}, request : Requests]
    BY <2>1 DEF SigningTypeOK, Closed, Idle, Doing
  <2>3. m \in Requests
    BY <2>2
  <2> QED
    BY <2>1, <2>3 DEF ViewsAreExact, Requests
<1>1. /\ UNCHANGED <<serverVars, made, stored, view>>
      /\ signed' = signed \cup {u0}
      /\ pending' = [pending EXCEPT ![t][p] = m.value]
      /\ Post(t, m) /\ inflight' = inflight \cup {m}
  BY DEF SignPartial, Post
<1>2. /\ page' \in PageType
      /\ \A u \in Tabs : page'[u].does = "signing" => page'[u] = page[u]
      /\ \A u \in Tabs : page'[u] = Closed => page[u] = Closed
      /\ page'[t] # Closed
  BY <1>0, <1>1, PageUpdate, DoingIsWhat DEF Post
<1>3. /\ pending' \in [Tabs -> [Proposals -> Values]]
      /\ \A u \in Tabs : \A q \in Proposals :
           pending'[u][q] = IF u = t /\ q = p THEN m.value ELSE pending[u][q]
  <2>1. pending \in [Tabs -> [Proposals -> Values]]
    BY DEF SigningTypeOK
  <2> QED
    BY <1>0, <1>1, <2>1, EntryUpdate
<1>4. u0 \in Uses /\ Session(u0.signer, u0.proposal, u0.value) /\ m.tab = t
  BY <1>0 DEF Uses, Use, Signing
<1>5. SigningTypeOK'
  BY <1>0, <1>1, <1>2, <1>3, <1>4 DEF SigningTypeOK, PageType
<1>6. NoncesAreBound'
  <2>1. m.kind = "partial"
    BY <1>0 DEF Signing
  <2> QED
    BY <1>1, <2>1 DEF NoncesAreBound, GeneratedFor
<1>7. ViewsAreExact'
  <2>1. \A u \in Tabs : page'[u].does = "signing" => Signing(u, page[u].request)'
    BY <1>1, <1>2 DEF ViewsAreExact, Signing, Session
  <2> QED
    BY <1>1, <2>1 DEF ViewsAreExact, Complete
<1>8. PartialsAreSigned'
  <2>1. \A u \in signed' : Session(u.signer, u.proposal, u.value)
    BY <1>1, <1>4 DEF PartialsAreSigned
  <2>2. \A u \in Tabs : \A q \in Proposals :
          pending'[u][q] # NoPartial => Use(u, q, pending'[u][q]) \in signed'
    BY <1>1, <1>3 DEF PartialsAreSigned
  <2>3. \A k \in inflight' : k.kind = "partial" => Use(k.tab, k.proposal, k.value) \in signed'
    BY <1>1, <1>4 DEF PartialsAreSigned
  <2> QED
    BY <1>1, <2>1, <2>2, <2>3 DEF PartialsAreSigned, Session
<1>9. FinalizedIsFinished'
  BY <1>1 DEF FinalizedIsFinished
<1>10. ClosedIsEmpty'
  BY <1>1, <1>2, <1>3 DEF ClosedIsEmpty
<1> QED
  BY <1>5, <1>6, <1>7, <1>8, <1>9, <1>10

(* A duplicate holds what its original holds.                              *)
LEMMA DuplicateInv ==
    ASSUME SigningInv, NEW t \in Tabs, NEW u \in Tabs, DuplicateTab(t, u)
    PROVE  SigningInv'
<1> USE DEF SigningInv
<1>1. /\ UNCHANGED <<serverVars, made, inflight, signed>> /\ Shows(u)
      /\ page' = [page EXCEPT ![u] = Idle] /\ OwnerOf[u] = OwnerOf[t]
      /\ stored' = [stored EXCEPT ![u] = stored[t]]
      /\ pending' = [pending EXCEPT ![u] = pending[t]]
  BY DEF DuplicateTab
<1>2. /\ view' \in ViewType
      /\ \A w \in Tabs : view'[w] = view[w] \/ ExactView(w)'
  BY <1>1, ShowsInv
<1>3. /\ page' \in PageType /\ page'[u] = Idle
      /\ \A w \in Tabs : page'[w].does = "signing" => page'[w] = page[w]
      /\ \A w \in Tabs : page'[w] = Closed => w # u /\ page[w] = Closed
  <2>1. Idle # Closed
    BY DoingIsWhat
  <2> QED
    BY <1>1, <2>1, PageUpdate
<1>4. /\ stored' \in [Tabs -> [Proposals -> Nat]]
      /\ \A w \in Tabs : stored'[w] = IF w = u THEN stored[t] ELSE stored[w]
  BY <1>1 DEF SigningTypeOK
<1>5. /\ pending' \in [Tabs -> [Proposals -> Values]]
      /\ \A w \in Tabs : pending'[w] = IF w = u THEN pending[t] ELSE pending[w]
  BY <1>1 DEF SigningTypeOK
<1>6. SigningTypeOK'
  BY <1>1, <1>2, <1>3, <1>4, <1>5 DEF SigningTypeOK, PageType, ViewType
<1>7. NoncesAreBound'
  BY <1>1, <1>4 DEF NoncesAreBound, GeneratedFor
<1>8. ViewsAreExact'
  <2>1. \A w \in Tabs : page'[w].does = "signing" => Signing(w, page[w].request)'
    BY <1>1, <1>3 DEF ViewsAreExact, Signing, Session
  <2>2. \A w \in Tabs : ExactView(w)'
    BY <1>1, <1>2 DEF ViewsAreExact, ExactView, Complete
  <2> QED
    BY <2>1, <2>2 DEF ViewsAreExact, ExactView, Complete
<1>9. PartialsAreSigned' /\ FinalizedIsFinished'
  BY <1>1, <1>5 DEF PartialsAreSigned, Session, Use, FinalizedIsFinished
<1>10. ClosedIsEmpty'
  BY <1>3, <1>4, <1>5 DEF ClosedIsEmpty
<1> QED
  BY <1>6, <1>7, <1>8, <1>9, <1>10

(* A closing tab forgets, and what it sent still arrives.                  *)
LEMMA CloseInv ==
    ASSUME SigningInv, NEW t \in Tabs, CloseTab(t)
    PROVE  SigningInv'
<1> USE DEF SigningInv
<1>1. /\ UNCHANGED <<serverVars, made, inflight, signed>>
      /\ page' = [page EXCEPT ![t] = Closed]
      /\ stored' = [stored EXCEPT ![t] = [p \in Proposals |-> NoNonce]]
      /\ pending' = [pending EXCEPT ![t] = [p \in Proposals |-> NoPartial]]
      /\ view' = [view EXCEPT ![t] = NoView]
  BY DEF CloseTab
<1>2. /\ NoView \in [proposal : Proposals \cup {None}, nonces : NonceSets]
      /\ NoPartial \in Values /\ NoNonce \in Nat /\ NoView.proposal = None
      /\ Closed.does # "signing"
  BY DEF NoView, NoPartial, Values, NoNonces, NonceSets, NoNonce, Closed, Doing
<1>3. /\ page' \in PageType
      /\ \A u \in Tabs : page'[u] = IF u = t THEN Closed ELSE page[u]
  <2> HIDE DEF SigningInv
  <2>1. page \in PageType
    BY DEF SigningTypeOK, PageType, SigningInv
  <2> QED
    BY <1>1, <2>1 DEF PageType
<1>4. /\ stored' \in [Tabs -> [Proposals -> Nat]]
      /\ \A u \in Tabs : \A p \in Proposals :
           stored'[u][p] = IF u = t THEN NoNonce ELSE stored[u][p]
  BY <1>1, <1>2 DEF SigningTypeOK
<1>5. /\ pending' \in [Tabs -> [Proposals -> Values]]
      /\ \A u \in Tabs : \A p \in Proposals :
           pending'[u][p] = IF u = t THEN NoPartial ELSE pending[u][p]
  BY <1>1, <1>2 DEF SigningTypeOK
<1>6. /\ view' \in ViewType
      /\ \A u \in Tabs : view'[u] = IF u = t THEN NoView ELSE view[u]
  BY <1>1, <1>2 DEF SigningTypeOK, ViewType
<1>7. SigningTypeOK'
  BY <1>1, <1>3, <1>4, <1>5, <1>6 DEF SigningTypeOK, PageType, ViewType
<1>8. NoncesAreBound'
  BY <1>1, <1>4 DEF NoncesAreBound, GeneratedFor
<1>9. ViewsAreExact'
  <2>1. \A u \in Tabs : page'[u].does = "signing" => Signing(u, page[u].request)'
    BY <1>1, <1>2, <1>3 DEF ViewsAreExact, Signing, Session
  <2>2. \A u \in Tabs : ExactView(u)'
    BY <1>1, <1>2, <1>6 DEF ViewsAreExact, ExactView, Complete
  <2> QED
    BY <2>1, <2>2 DEF ViewsAreExact, ExactView, Complete
<1>10. PartialsAreSigned' /\ FinalizedIsFinished'
  BY <1>1, <1>5 DEF PartialsAreSigned, Session, FinalizedIsFinished
<1>11. ClosedIsEmpty'
  <2> SUFFICES ASSUME NEW u \in Tabs, page'[u] = Closed, NEW p \in Proposals
               PROVE  stored'[u][p] = NoNonce /\ pending'[u][p] = NoPartial
    BY DEF ClosedIsEmpty
  <2>1. CASE u = t
    BY <1>4, <1>5, <2>1
  <2>2. CASE u # t
    <3>1. page[u] = Closed
      BY <1>3, <2>2
    <3> QED
      BY <1>4, <1>5, <2>2, <3>1 DEF ClosedIsEmpty
  <2> QED
    BY <2>1, <2>2
<1> QED
  BY <1>7, <1>8, <1>9, <1>10, <1>11

(* Every step keeps it.                                                    *)
LEMMA SigningStepInv == SigningInv /\ [SigningNext]_signingVars => SigningInv'
<1> SUFFICES ASSUME SigningInv, [SigningNext]_signingVars PROVE SigningInv'
  OBVIOUS
<1>1. CASE Coordinator
  BY <1>1, ProposalInv, AcceptInv, RefuseInv DEF Coordinator
<1>2. CASE Panel
  BY <1>2, LookInv, RepeatInv, NewNonceInv, ConsumeInv, SignInv DEF Panel
<1>3. CASE Browser
  BY <1>3, LookInv, DuplicateInv, CloseInv DEF Browser
<1>4. CASE UNCHANGED signingVars
  <2>1. UNCHANGED <<status, expired, nonces, partials, made, stored, pending, page, view,
                    inflight, signed>>
    BY <1>4
  <2>2. SigningTypeOK' /\ FinalizedIsFinished' /\ ClosedIsEmpty'
    BY <2>1 DEF SigningInv, SigningTypeOK, FinalizedIsFinished, ClosedIsEmpty
  <2>3. NoncesAreBound' /\ ViewsAreExact' /\ PartialsAreSigned'
    BY <2>1 DEF SigningInv, NoncesAreBound, GeneratedFor, ViewsAreExact, Signing, Session,
       PartialsAreSigned
  <2> QED
    BY <2>2, <2>3 DEF SigningInv
<1> QED
  BY <1>1, <1>2, <1>3, <1>4 DEF SigningNext

(* So it always holds.                                                     *)
LEMMA SigningInvariant == SigningSpec => []SigningInv
BY SigningInitInv, SigningStepInv, PTL DEF SigningSpec

-----------------------------------------------------------------------------
(* Every request, row, storage slot and panel has its declared type in     *)
(* every behaviour.                                                        *)
THEOREM SigningTypeCorrect == SigningSpec => []SigningTypeOK
<1>1. SigningInv => SigningTypeOK
  BY DEF SigningInv
<1> QED
  BY <1>1, SigningInvariant, PTL

(* No secret nonce is ever used over two nonce sets (ceremonyPartial): a   *)
(* nonce is for one proposal, and a signature is over what is recorded     *)
(* for that proposal, which is never replaced.                             *)
THEOREM NonceNeverReused == SigningSpec => []NonceSignsOnce
<1>1. SigningInv => NonceSignsOnce
  <2> SUFFICES ASSUME SigningInv, NEW u \in signed, NEW w \in signed,
                      u.signer = w.signer, u.value.nonce = w.value.nonce
               PROVE  u.value.over = w.value.over
    BY DEF NonceSignsOnce
  <2>1. /\ Session(u.signer, u.proposal, u.value) /\ Session(w.signer, w.proposal, w.value)
        /\ u.signer \in Signers /\ u.proposal \in Proposals /\ w.proposal \in Proposals
    BY DEF SigningInv, PartialsAreSigned, SigningTypeOK, Uses
  <2>2. /\ GeneratedFor(u.signer, u.value.nonce, u.proposal)
        /\ GeneratedFor(w.signer, w.value.nonce, w.proposal)
    BY <2>1 DEF SigningInv, NoncesAreBound, Session, Complete
  <2>3. u.proposal = w.proposal
    BY <2>2 DEF GeneratedFor
  <2> QED
    BY <2>1, <2>3 DEF Session
<1> QED
  BY <1>1, SigningInvariant, PTL

(* Every signature ever made belongs to a session on record.               *)
LEMMA SignedInSession ==
    ASSUME SigningInv, NEW s, NEW p, NEW v,
           [signer |-> s, proposal |-> p, value |-> v] \in signed
    PROVE  Session(s, p, v)
<1> DEFINE u == [signer |-> s, proposal |-> p, value |-> v]
<1>1. Session(u.signer, u.proposal, u.value)
  BY DEF SigningInv, PartialsAreSigned
<1>2. u.signer = s /\ u.proposal = p /\ u.value = v
  OBVIOUS
<1> HIDE DEF u
<1> QED
  BY <1>1, <1>2

(* What recordCooperativeContribution aggregates was signed by everyone,   *)
(* over one set of nonces.                                                 *)
THEOREM ExitIsUnanimous == SigningSpec => []ExitSignedByAll
<1>1. SigningInv => ExitSignedByAll
  <2> SUFFICES ASSUME SigningInv, NEW p \in Proposals, status[p] = "finalized", NEW s \in Signers
               PROVE  /\ [signer |-> s, proposal |-> p, value |-> partials[p][s]] \in signed
                      /\ partials[p][s].over = nonces[p]
    BY DEF ExitSignedByAll
  <2>1. [signer |-> s, proposal |-> p, value |-> partials[p][s]] \in signed
    BY DEF SigningInv, FinalizedIsFinished, Finished, PartialsAreSigned
  <2>2. Session(s, p, partials[p][s])
    BY <2>1, SignedInSession
  <2> QED
    BY <2>1, <2>2 DEF Session
<1> QED
  BY <1>1, SigningInvariant, PTL

(* A partial that publishCooperativePartial sends again is the recorded    *)
(* one, if any is recorded.                                                *)
THEOREM RetriesAgree == SigningSpec => []RetryIsTheSame
<1>1. SigningInv => RetryIsTheSame
  <2> SUFFICES ASSUME SigningInv, NEW t \in Tabs, NEW p \in Proposals,
                      pending[t][p] # NoPartial, partials[p][OwnerOf[t]] # NoPartial
               PROVE  pending[t][p] = partials[p][OwnerOf[t]]
    BY DEF RetryIsTheSame
  <2>1. Session(OwnerOf[t], p, pending[t][p])
    BY SignedInSession DEF SigningInv, PartialsAreSigned, Use
  <2>2. Session(OwnerOf[t], p, partials[p][OwnerOf[t]])
    BY SignedInSession DEF SigningInv, PartialsAreSigned
  <2> QED
    BY <2>1, <2>2 DEF Session
<1> QED
  BY <1>1, SigningInvariant, PTL

-----------------------------------------------------------------------------
(* What a signer holds to finish with, in one of its tabs.                 *)
Holds(t, p, s) ==
    /\ OwnerOf[t] = s
    /\ \/ stored[t][p] = nonces[p][s]
       \/ pending[t][p] # NoPartial
       \/ page[t].does = "signing" /\ page[t].request.proposal = p

(* An answer takes the pending partial of a tab only once it is recorded.  *)
LEMMA AnswerKeeps ==
    ASSUME SigningInv, NEW m \in inflight, Accept(m) \/ Refuse(m),
           NEW t \in Tabs, NEW p \in Proposals, NEW s \in Signers,
           nonces[p][s] # NoNonce, Holds(t, p, s)
    PROVE  partials'[p][s] # NoPartial \/ Holds(t, p, s)'
<1>1. stored' = stored /\ page' = Answered(m) /\ SigningTypeOK /\ m.tab \in Tabs
  BY DEF Accept, Refuse, SigningInv, SigningTypeOK, Requests
<1>2. nonces'[p][s] = nonces[p][s]
  BY <1>1, AcceptKeeps DEF Refuse
<1>3. page[t].does = "signing" => page'[t] = page[t]
  BY <1>1, AnswerInv
<1>4. CASE pending'[t][p] = pending[t][p]
  BY <1>1, <1>2, <1>3, <1>4 DEF Holds
<1>5. CASE pending'[t][p] # pending[t][p]
  <2>1. Accept(m) /\ m.kind = "partial" /\ m.tab = t /\ m.proposal = p
    <3>1. pending' = [pending EXCEPT ![m.tab][m.proposal] = NoPartial]
          /\ Accept(m) /\ m.kind = "partial"
      BY <1>5 DEF Accept, Refuse
    <3>2. pending \in [Tabs -> [Proposals -> Values]] /\ m.proposal \in Proposals
          /\ NoPartial \in Values
      BY <1>1 DEF SigningTypeOK, Requests, NoPartial, NoNonces, NoNonce, Values, NonceSets
    <3> QED
      BY <1>1, <1>5, <3>1, <3>2, EntryUpdate
  <2>2. partials'[p][s] = m.value
    <3>1. partials \in [Proposals -> [Signers -> Values]] /\ m.value \in Values
      BY <1>1 DEF SigningTypeOK, Requests
    <3>2. partials' = [partials EXCEPT ![p][s] = m.value]
      BY <2>1 DEF Accept, Holds
    <3> QED
      BY <3>1, <3>2, EntryUpdate
  <2>3. Session(s, p, m.value)
    BY <2>1, SignedInSession DEF SigningInv, PartialsAreSigned, Use, Holds
  <2>4. m.value.nonce # NoNonce
    BY <2>3 DEF Session, Complete
  <2> QED
    BY <2>2, <2>4 DEF NoPartial
<1> QED
  BY <1>4, <1>5

(* Publishing a nonce again, or anew, loses nothing.                       *)
LEMMA PublishKeeps ==
    ASSUME SigningInv, NEW a \in Tabs,
           \/ Refresh(a) \/ PublishStoredNonce(a) \/ PublishNewNonce(a)
           \/ PublishPendingPartial(a) \/ GiveUp(a) \/ OpenTab(a) \/ ReloadTab(a),
           NEW t \in Tabs, NEW p \in Proposals, NEW s \in Signers,
           nonces[p][s] # NoNonce, Holds(t, p, s), ~GivenUp(s)
    PROVE  Holds(t, p, s)'
<1>1. /\ UNCHANGED <<serverVars, pending>> /\ SigningTypeOK
      /\ \A q \in Proposals : stored[t][q] # NoNonce => stored'[t][q] = stored[t][q]
  <2>1. UNCHANGED <<serverVars, pending>> /\ SigningTypeOK
    BY DEF Refresh, PublishStoredNonce, PublishNewNonce, PublishPendingPartial, GiveUp, OpenTab,
       ReloadTab, SigningInv
  <2>2. CASE stored' = stored
    BY <2>1, <2>2
  <2>3. CASE PublishNewNonce(a)
    <3>1. PICK n : stored' = [stored EXCEPT ![a][view[a].proposal] = n]
      BY <2>3 DEF PublishNewNonce
    <3>2. stored[a][view[a].proposal] = NoNonce /\ stored \in [Tabs -> [Proposals -> Nat]]
      BY <2>1, <2>3 DEF PublishNewNonce, SigningTypeOK
    <3>3. \A q \in Proposals : stored[t][q] # NoNonce => stored'[t][q] = stored[t][q]
      BY <3>1, <3>2
    <3> QED
      BY <2>1, <3>3
  <2> QED
    BY <2>2, <2>3 DEF Refresh, PublishStoredNonce, PublishPendingPartial, GiveUp, OpenTab,
       ReloadTab
<1>2. ASSUME page[t].does = "signing" PROVE page'[t] = page[t]
  <2>1. page[t] # Idle /\ page[t] # Closed /\ page[t].does # "waiting"
    BY <1>2 DEF Idle, Closed, Doing
  <2>2. CASE ReloadTab(a) /\ a = t
    <3>1. page'[t] = Idle
      BY <1>1, <2>2 DEF ReloadTab, SigningTypeOK
    <3> QED
      BY <1>2, <3>1 DEF GivenUp, Holds
  <2>3. CASE a # t
    BY <1>1, <2>3 DEF Refresh, PublishStoredNonce, PublishNewNonce, PublishPendingPartial,
       GiveUp, OpenTab, ReloadTab, Post, SigningTypeOK
  <2>4. CASE a = t /\ ~ReloadTab(a)
    BY <1>2, <2>1, <2>4 DEF Refresh, PublishStoredNonce, PublishNewNonce,
       PublishPendingPartial, GiveUp, OpenTab, Round1, Round2
  <2> QED
    BY <2>2, <2>3, <2>4
<1> QED
  BY <1>1, <1>2 DEF Holds

(* A nonce is removed to sign with it; then the partial is kept.           *)
LEMMA SignKeeps ==
    ASSUME SigningInv, NEW a \in Tabs, ConsumeNonce(a) \/ SignPartial(a),
           NEW t \in Tabs, NEW p \in Proposals, NEW s \in Signers,
           nonces[p][s] # NoNonce, Holds(t, p, s)
    PROVE  Holds(t, p, s)'
<1>0. UNCHANGED serverVars /\ SigningTypeOK
  BY DEF ConsumeNonce, SignPartial, SigningInv
<1>1. CASE a # t
  <2>1. stored'[t] = stored[t] /\ pending'[t] = pending[t] /\ page'[t] = page[t]
    BY <1>0, <1>1 DEF ConsumeNonce, SignPartial, Post, SigningTypeOK
  <2> QED
    BY <1>0, <2>1 DEF Holds
<1>2. CASE a = t /\ ConsumeNonce(a)
  <2>1. page[t] = Idle /\ pending' = pending /\ view[t].proposal \in Proposals
        /\ Complete(view[t].nonces) /\ OwnerOf[t] = s
    BY <1>0, <1>2 DEF ConsumeNonce, Round2, SigningTypeOK, Holds
  <2>2. view[t].nonces = nonces[view[t].proposal]
    BY <2>1, SigningAssumption DEF SigningInv, ViewsAreExact
  <2>3. ASSUME stored[t][p] = nonces[p][s], stored'[t][p] # stored[t][p]
        PROVE  page'[t].does = "signing" /\ page'[t].request.proposal = p
    <3>1. view[t].proposal = p
      BY <1>0, <1>2, <2>3 DEF ConsumeNonce, SigningTypeOK
    <3>2. page' = [page EXCEPT ![t] = Doing("signing",
              Request(t, "partial", p, [nonce |-> nonces[p][s], over |-> nonces[p]]))]
      BY <1>2, <2>1, <2>2, <2>3, <3>1 DEF ConsumeNonce
    <3> QED
      BY <1>0, <3>2 DEF SigningTypeOK, Doing, Request
  <2>4. page[t].does # "signing"
    BY <2>1 DEF Idle, Doing
  <2> QED
    BY <1>0, <2>1, <2>3, <2>4 DEF Holds
<1>3. CASE a = t /\ SignPartial(a)
  <2> DEFINE m == page[t].request
  <2>1. page[t].does = "signing" /\ stored' = stored /\ m.value \in Values
        /\ m.proposal \in Proposals /\ m.value.nonce # NoNonce
    <3>1. page[t].does = "signing" /\ stored' = stored
      BY <1>3 DEF SignPartial
    <3>2. page[t] \in [does : {"signing", "waiting"}, request : Requests]
      BY <1>0, <3>1 DEF SigningTypeOK, Closed, Idle, Doing
    <3>3. m.value \in Values /\ m.proposal \in Proposals
      BY <3>2 DEF Requests
    <3>4. m.value.nonce # NoNonce
      <4>1. Session(OwnerOf[t], m.proposal, m.value)
        BY <3>1 DEF SigningInv, ViewsAreExact, Signing
      <4> QED
        BY <4>1 DEF Session, Complete
    <3> QED
      BY <3>1, <3>3, <3>4
  <2>2. \A q \in Proposals :
          pending'[t][q] = IF q = m.proposal THEN m.value ELSE pending[t][q]
    <3>1. pending \in [Tabs -> [Proposals -> Values]]
          /\ pending' = [pending EXCEPT ![t][m.proposal] = m.value]
      BY <1>0, <1>3 DEF SignPartial, SigningTypeOK
    <3> QED
      BY <2>1, <3>1, EntryUpdate
  <2> QED
    BY <1>0, <2>1, <2>2 DEF Holds, NoPartial
<1> QED
  BY <1>1, <1>2, <1>3

(* A duplicate overwrites a closed tab, which holds nothing.               *)
LEMMA BrowserKeeps ==
    ASSUME SigningInv, NEW a \in Tabs, NEW b \in Tabs, DuplicateTab(b, a) \/ CloseTab(a),
           NEW t \in Tabs, NEW p \in Proposals, NEW s \in Signers,
           nonces[p][s] # NoNonce, Holds(t, p, s), ~GivenUp(s)
    PROVE  Holds(t, p, s)'
<1>0. UNCHANGED serverVars /\ SigningTypeOK
  BY DEF DuplicateTab, CloseTab, SigningInv
<1>1. CASE a # t
  <2>1. stored'[t] = stored[t] /\ pending'[t] = pending[t] /\ page'[t] = page[t]
    BY <1>0, <1>1 DEF DuplicateTab, CloseTab, SigningTypeOK
  <2> QED
    BY <1>0, <2>1 DEF Holds
<1>2. CASE a = t
  <2>1. page[t] # Closed
    <3>1. page[t] = Closed => page[t].does # "signing"
      BY DEF Closed, Doing
    <3> QED
      BY <3>1 DEF Holds, SigningInv, ClosedIsEmpty
  <2>2. CloseTab(t)
    BY <1>2, <2>1 DEF DuplicateTab
  <2>3. page'[t] = Closed
    BY <1>0, <2>2 DEF CloseTab, SigningTypeOK
  <2> QED
    BY <2>1, <2>3 DEF GivenUp, Holds
<1> QED
  BY <1>1, <1>2

(* Whoever has published a nonce can finish: only closing a tab, or        *)
(* reloading it while it signs, takes that away (SecretsSurvive).          *)
THEOREM NobodyIsStranded == SigningSpec => SecretsSurvive
<1>1. SigningInv /\ [SigningNext]_signingVars =>
        [\A p \in Proposals : \A s \in Signers :
           CanFinish(p, s) /\ ~GivenUp(s) => CanFinish(p, s)']_signingVars
  <2> SUFFICES ASSUME SigningInv, SigningNext, NEW p \in Proposals, NEW s \in Signers,
                      CanFinish(p, s), ~GivenUp(s)
               PROVE  CanFinish(p, s)'
    OBVIOUS
  <2>1. /\ nonces'[p][s] = nonces[p][s] /\ nonces[p][s] # NoNonce
        /\ partials[p][s] # NoPartial => partials'[p][s] # NoPartial
    <3>1. SigningTypeOK /\ nonces[p][s] # NoNonce
      BY DEF SigningInv, CanFinish
    <3>2. CASE UNCHANGED <<nonces, partials>>
      BY <3>1, <3>2
    <3>3. CASE \E m \in inflight : Accept(m)
      BY <3>1, <3>3, AcceptKeeps
    <3> QED
      BY <3>2, <3>3 DEF SigningNext, Coordinator, Panel, Browser, CreateCooperative,
         CooperativeExpires, Refuse, Refresh, PublishStoredNonce, PublishNewNonce,
         PublishPendingPartial, ConsumeNonce, SignPartial, GiveUp, OpenTab, ReloadTab,
         CloseTab, DuplicateTab
  <2>2. CASE partials[p][s] # NoPartial
    BY <2>1, <2>2 DEF CanFinish
  <2>3. CASE partials[p][s] = NoPartial
    <3>1. PICK t \in Tabs : Holds(t, p, s)
      BY <2>3 DEF CanFinish, Holds
    <3>2. partials'[p][s] # NoPartial \/ Holds(t, p, s)'
      <4>1. CASE Coordinator
        <5>1. CASE \E q \in Proposals : CreateCooperative(q) \/ CooperativeExpires(q)
          BY <3>1, <5>1 DEF CreateCooperative, CooperativeExpires, Holds
        <5>2. CASE \E m \in inflight : Accept(m) \/ Refuse(m)
          BY <2>1, <3>1, <5>2, AnswerKeeps
        <5> QED
          BY <4>1, <5>1, <5>2 DEF Coordinator
      <4>2. CASE Panel
        BY <2>1, <3>1, <4>2, PublishKeeps, SignKeeps DEF Panel
      <4>3. CASE Browser
        BY <2>1, <3>1, <4>3, PublishKeeps, BrowserKeeps DEF Browser
      <4> QED
        BY <4>1, <4>2, <4>3 DEF SigningNext
    <3>3. Holds(t, p, s)' => CanFinish(p, s)'
      BY <2>1 DEF CanFinish, Holds
    <3> QED
      BY <2>1, <3>2, <3>3 DEF CanFinish
  <2> QED
    BY <2>2, <2>3
<1> QED
  BY <1>1, SigningInvariant, PTL DEF SigningSpec, SecretsSurvive
=============================================================================
