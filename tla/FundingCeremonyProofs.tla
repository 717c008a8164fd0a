------------------------ MODULE FundingCeremonyProofs ------------------------
(***************************************************************************)
(* Proofs about module FundingCeremony, for any number of participants,    *)
(* outputs, fees, operators' runs and restarts.                            *)
(***************************************************************************)
EXTENDS FundingCeremony, TLAPS

USE DEF inputRows, signatureRows, finalRow, approvalRows, restartRows,
        ceremonyVars, operatorVars, fundingVars, Nobody, NoAttempt, Ends, Goes

(* Type correctness, an action at a time.                                  *)
LEMMA CeremonyTypes ==
    ASSUME FundingTypeOK, NEW p \in Participants,
           Committing(p) \/ Approving(p) \/ Restarting(p) \/ ChallengeExpires(p)
    PROVE  FundingTypeOK'
<1> USE DEF FundingTypeOK, Statuses, Restartable, Submitted
<1>1. ASSUME NEW u \in Utxos, ReadCeremonyFee(p, u) PROVE FundingTypeOK'
  <2>1. PICK f \in CeremonyFee : draft' = [draft EXCEPT ![p] = [utxo |-> u, fee |-> f]]
    BY <1>1 DEF ReadCeremonyFee
  <2>2. f \in Fees
    BY DEF CeremonyFee, Present, Package, Commitment
  <2>3. draft' \in Package
    BY <2>1, <2>2 DEF Package, Commitment
  <2> QED
    BY <1>1, <2>3 DEF ReadCeremonyFee
<1>2. ASSUME CreateFundingInputChallenge(p) PROVE FundingTypeOK'
  BY <1>2 DEF CreateFundingInputChallenge, Package
<1>3. ASSUME CompleteFundingInputChallenge(p) PROVE FundingTypeOK'
  BY <1>3 DEF CompleteFundingInputChallenge, Package
<1>4. ASSUME NEW w \in Witnesses, CreateFundingSignatureChallenge(p, w)
      PROVE  FundingTypeOK'
  <2>1. [proposal |-> inputs, witness |-> w] \in Signature
    BY DEF Signature
  <2>2. sigChallenge' \in Signatures
    BY <1>4, <2>1 DEF CreateFundingSignatureChallenge, Signatures
  <2> QED
    BY <1>4, <2>2 DEF CreateFundingSignatureChallenge
<1>5. ASSUME CompleteFundingSignatureChallenge(p) PROVE FundingTypeOK'
  <2>1. signed' \in Signatures /\ sigChallenge' \in Signatures
    BY <1>5 DEF CompleteFundingSignatureChallenge, Signatures
  <2>2. [inputs |-> inputs, signatures |-> signed'] \in Bytes
    BY <2>1 DEF Bytes
  <2>3. final' \in Bytes \cup {None} /\ status' \in Statuses
    BY <1>5, <2>2 DEF CompleteFundingSignatureChallenge
  <2> QED
    BY <1>5, <2>1, <2>3 DEF CompleteFundingSignatureChallenge
<1>6. ASSUME CreateFundingFinalApprovalChallenge(p) PROVE FundingTypeOK'
  BY <1>6 DEF CreateFundingFinalApprovalChallenge
<1>7. ASSUME CompleteFundingFinalApprovalChallenge(p) PROVE FundingTypeOK'
  BY <1>7 DEF CompleteFundingFinalApprovalChallenge
<1>8. ASSUME NEW r \in Reasons, CreateFundingRestartChallenge(p, r)
      PROVE  FundingTypeOK'
  <2>1. Snapshot \in State
    BY <1>8 DEF CreateFundingRestartChallenge, Snapshot, State
  <2>2. restartChallenge' \in [Participants -> [state : State, reason : Reasons] \cup {None}]
    BY <1>8, <2>1 DEF CreateFundingRestartChallenge
  <2> QED
    BY <1>8, <2>2 DEF CreateFundingRestartChallenge
<1>9. ASSUME CompleteFundingRestartChallenge(p) PROVE FundingTypeOK'
  <2> DEFINE request == restartChallenge[p]
             approval == [by |-> p, state |-> request.state, reason |-> request.reason]
  <2>1. request \in [state : State, reason : Reasons]
    BY <1>9 DEF CompleteFundingRestartChallenge
  <2>2. approval \in [by : Participants, state : State, reason : Reasons]
    BY <2>1
  <2>3. restartApprovals' \subseteq [by : Participants, state : State, reason : Reasons]
    BY <1>9, <2>2 DEF CompleteFundingRestartChallenge
  <2>4. restartEvents' \subseteq [state : State, reason : Reasons]
    BY <1>9, <2>1 DEF CompleteFundingRestartChallenge
  <2>5. restartChallenge' \in [Participants -> [state : State, reason : Reasons] \cup {None}]
    BY <1>9 DEF CompleteFundingRestartChallenge
  <2>6. /\ {inputChallenge, inputs}' \subseteq Package
        /\ {sigChallenge, signed}' \subseteq Signatures
        /\ {finalChallenge, approvals}' \subseteq [Participants -> Bytes \cup {None}]
    BY <1>9 DEF CompleteFundingRestartChallenge, Package, Signatures
  <2>7. /\ final' \in Bytes \cup {None} /\ status' \in Statuses
        /\ started' \in 0 .. claims'
    BY <1>9, BoundAssumption DEF CompleteFundingRestartChallenge
  <2> QED
    BY <1>9, <2>3, <2>4, <2>5, <2>6, <2>7 DEF CompleteFundingRestartChallenge
<1>10. ASSUME ChallengeExpires(p) PROVE FundingTypeOK'
  BY <1>10 DEF ChallengeExpires, Package, Signatures
<1> QED
  BY <1>1, <1>2, <1>3, <1>4, <1>5, <1>6, <1>7, <1>8, <1>9, <1>10
     DEF Committing, Approving, Restarting

(* A run's steps keep the types.                                           *)
LEMMA OperatorTypes ==
    ASSUME FundingTypeOK, NEW o \in Operators, Submitting(o)
    PROVE  FundingTypeOK'
<1> USE BoundAssumption
    DEF FundingTypeOK, Statuses, Restartable, Submitted, Claiming, Running
<1>1. ASSUME OperatorReads(o) PROVE FundingTypeOK'
  <2>1. final \in Bytes
    BY <1>1 DEF OperatorReads, Bytes
  <2> QED
    BY <1>1, <2>1 DEF OperatorReads
<1>2. ASSUME OperatorClaims(o) PROVE FundingTypeOK'
  <2> DEFINE bytes == attempt[o].bytes
  <2>1. bytes \in Bytes /\ claims \in Nat /\ started \in 0 .. MaxClaims
    BY <1>2 DEF OperatorClaims
  <2>2. CASE /\ claims < MaxClaims /\ claims' = claims + 1
             /\ status' = "submitting" /\ started' = claims'
             /\ attempt' = [attempt EXCEPT ![o] = [at |-> "preflight",
                   bytes |-> bytes, mine |-> claims', maySend |-> FALSE]]
    <3>1. [at |-> "preflight", bytes |-> bytes, mine |-> claims', maySend |-> FALSE]
             \in Running
      BY <2>1, <2>2
    <3>2. attempt' \in [Operators -> {NoAttempt} \cup Claiming \cup Running]
      BY <2>2, <3>1
    <3>3. started' \in 0 .. claims' /\ claims' \in 0 .. MaxClaims
      BY <2>1, <2>2
    <3> QED
      BY <1>2, <2>2, <3>2, <3>3 DEF OperatorClaims
  <2>3. CASE /\ attempt' = [attempt EXCEPT ![o] = [at |-> "look",
                   bytes |-> bytes, mine |-> started, maySend |-> TRUE]]
             /\ UNCHANGED <<status, started, claims>>
    <3>1. [at |-> "look", bytes |-> bytes, mine |-> started, maySend |-> TRUE]
             \in Running
      BY <2>1
    <3>2. attempt' \in [Operators -> {NoAttempt} \cup Claiming \cup Running]
      BY <2>3, <3>1
    <3> QED
      BY <1>2, <2>3, <3>2 DEF OperatorClaims
  <2>4. CASE Ends(o) /\ UNCHANGED <<status, started, claims>>
    BY <1>2, <2>4 DEF OperatorClaims
  <2> QED
    BY <1>2, <2>2, <2>3, <2>4 DEF OperatorClaims
<1>3. ASSUME OperatorLooks(o) PROVE FundingTypeOK'
  BY <1>3 DEF OperatorLooks
<1>4. ASSUME OperatorReclaims(o) PROVE FundingTypeOK'
  BY <1>4 DEF OperatorReclaims, Owns, OwnsClaim, Inherited
<1>5. ASSUME OperatorPreflights(o) PROVE FundingTypeOK'
  BY <1>5 DEF OperatorPreflights
<1>6. ASSUME OperatorSends(o) PROVE FundingTypeOK'
  BY <1>6 DEF OperatorSends
<1>7. ASSUME OperatorMarks(o) PROVE FundingTypeOK'
  BY <1>7 DEF OperatorMarks
<1>8. ASSUME OperatorFails(o) PROVE FundingTypeOK'
  BY <1>8 DEF OperatorFails
<1>9. ASSUME OperatorDies(o) PROVE FundingTypeOK'
  BY <1>9 DEF OperatorDies
<1> QED
  BY <1>1, <1>2, <1>3, <1>4, <1>5, <1>6, <1>7, <1>8, <1>9 DEF Submitting

(* The chain and the deployment keep the types.                            *)
LEMMA OtherTypes ==
    ASSUME FundingTypeOK,
           \/ ConfirmFunding \/ RollbackFunding
           \/ \E f \in Fees : ConfigureFee(f)
           \/ UNCHANGED fundingVars
    PROVE  FundingTypeOK'
BY DEF FundingTypeOK, ConfirmFunding, RollbackFunding, ConfigureFee, Statuses, Submitted

(* Every step keeps every variable within its domain.                      *)
THEOREM FundingTypeCorrect == FundingSpec => []FundingTypeOK
<1>1. Init => FundingTypeOK
  BY BoundAssumption DEF Init, FundingTypeOK, Package, Signatures, Statuses, Restartable
<1>2. FundingTypeOK /\ [Next]_fundingVars => FundingTypeOK'
  BY CeremonyTypes, OperatorTypes, OtherTypes DEF Next
<1> QED
  BY <1>1, <1>2, PTL DEF FundingSpec

-----------------------------------------------------------------------------
(* What was submitted stays.  SentIsPinned alone is not inductive: a run   *)
(* that passed its look at the row may send later, so its bytes must be    *)
(* pinned from that moment on, and the one step that unpins them, a fresh  *)
(* run freeing its claim, must find nobody else on the way.                *)

(* The row holds these bytes and no restart can take them away.            *)
Pinned(bytes) == final = bytes /\ status \in Submitted

(* The run is about to send its bytes.                                     *)
OnTheWay(o) == attempt[o].at \in {"preflight", "send"}

(* Of all runs only these may free the row, were they to fail now.         *)
MayFree(o) ==
    /\ attempt[o].at \in {"preflight", "fail"}
    /\ ~attempt[o].maySend
    /\ OwnsClaim(attempt[o])

(* What runs believe of the row and of each other.                         *)
ClaimsAreKept ==
    /\ SentIsPinned
    /\ \A o \in Operators : OnTheWay(o) => Pinned(attempt[o].bytes)
    /\ \A o \in Operators :
          attempt[o].at \in {"look", "reclaim", "send"} => attempt[o].maySend
    /\ \A o \in Operators : attempt[o] \in Running => attempt[o].mine <= claims
    /\ \A o \in Operators : MayFree(o) =>
          released = {} /\ \A q \in Operators \ {o} : ~OnTheWay(q)

(* The inductive invariant.                                                *)
SubmissionInv == FundingTypeOK /\ ClaimsAreKept

(* A run's places and the kind of record it then is.                       *)
LEMMA Places ==
    ASSUME FundingTypeOK, NEW o \in Operators
    PROVE  /\ attempt[o].at \in {"idle", "claim"} => ~OnTheWay(o) /\ ~MayFree(o)
           /\ attempt[o].at \notin {"idle", "claim"} => attempt[o] \in Running
BY DEF FundingTypeOK, Claiming, Running, OnTheWay, MayFree

(* No step of the participants or of the watcher unpins a submission.      *)
LEMMA CeremonyKeepsClaims ==
    ASSUME SubmissionInv, UNCHANGED operatorVars,
           \/ UNCHANGED finalRow
           \/ status \notin Submitted /\ status' \notin Submitted
           \/ /\ UNCHANGED <<final, started>>
              /\ status \in Submitted /\ status' \in Submitted \ {"submitting"}
    PROVE  ClaimsAreKept'
<1> USE DEF SubmissionInv, ClaimsAreKept, SentIsPinned, Pinned, OnTheWay, MayFree,
            OwnsClaim, Submitted
<1>1. CASE UNCHANGED finalRow
  BY <1>1
<1>2. CASE status \notin Submitted /\ status' \notin Submitted
  BY <1>2
<1>3. CASE /\ UNCHANGED <<final, started>>
           /\ status \in Submitted /\ status' \in Submitted \ {"submitting"}
  BY <1>3
<1> QED
  BY <1>1, <1>2, <1>3

(* Restarting needs a snapshot no submission has.                          *)
LEMMA RestartedStatus ==
    ASSUME FundingTypeOK, NEW p \in Participants, CompleteFundingRestartChallenge(p)
    PROVE  status \in Restartable
<1>1. restartChallenge[p].state \in State
  BY DEF FundingTypeOK, CompleteFundingRestartChallenge
<1>2. restartChallenge[p].state.status = status
  BY DEF CompleteFundingRestartChallenge, Snapshot
<1> QED
  BY <1>1, <1>2 DEF State

(* The participants cannot touch a row that is being submitted.            *)
LEMMA ParticipantsKeepClaims ==
    ASSUME SubmissionInv,
           \/ \E p \in Participants :
                 Committing(p) \/ Approving(p) \/ Restarting(p) \/ ChallengeExpires(p)
           \/ ConfirmFunding \/ RollbackFunding
           \/ \E f \in Fees : ConfigureFee(f)
           \/ UNCHANGED fundingVars
    PROVE  ClaimsAreKept'
<1> USE DEF Submitted, Restartable
<1>1. ASSUME NEW p \in Participants, Committing(p) PROVE ClaimsAreKept'
  BY <1>1, CeremonyKeepsClaims DEF Committing, ReadCeremonyFee,
     CreateFundingInputChallenge, CompleteFundingInputChallenge
<1>2. ASSUME NEW p \in Participants, Approving(p) PROVE ClaimsAreKept'
  <2>1. CASE \E w \in Witnesses : CreateFundingSignatureChallenge(p, w)
    BY <2>1, CeremonyKeepsClaims DEF CreateFundingSignatureChallenge
  <2>2. CASE CompleteFundingSignatureChallenge(p)
    <3>1. CASE UNCHANGED <<final, status>>
      BY <2>2, <3>1, CeremonyKeepsClaims DEF CompleteFundingSignatureChallenge
    <3>2. CASE status = "none" /\ status' = "awaiting_approvals"
      BY <2>2, <3>2, CeremonyKeepsClaims DEF CompleteFundingSignatureChallenge
    <3> QED
      BY <2>2, <3>1, <3>2 DEF CompleteFundingSignatureChallenge
  <2>3. CASE CreateFundingFinalApprovalChallenge(p)
    BY <2>3, CeremonyKeepsClaims DEF CreateFundingFinalApprovalChallenge
  <2>4. CASE CompleteFundingFinalApprovalChallenge(p)
    BY <2>4, CeremonyKeepsClaims DEF CompleteFundingFinalApprovalChallenge
  <2> QED
    BY <1>2, <2>1, <2>2, <2>3, <2>4 DEF Approving
<1>3. ASSUME NEW p \in Participants, Restarting(p) PROVE ClaimsAreKept'
  <2>1. CASE \E r \in Reasons : CreateFundingRestartChallenge(p, r)
    BY <2>1, CeremonyKeepsClaims DEF CreateFundingRestartChallenge
  <2>2. CASE CompleteFundingRestartChallenge(p)
    <3>1. status \in Restartable
      BY <2>2, RestartedStatus DEF SubmissionInv
    <3> QED
      BY <2>2, <3>1, CeremonyKeepsClaims DEF CompleteFundingRestartChallenge
  <2> QED
    BY <1>3, <2>1, <2>2 DEF Restarting
<1>4. ASSUME NEW p \in Participants, ChallengeExpires(p) PROVE ClaimsAreKept'
  BY <1>4, CeremonyKeepsClaims DEF ChallengeExpires
<1>5. CASE ConfirmFunding \/ RollbackFunding
  BY <1>5, CeremonyKeepsClaims DEF ConfirmFunding, RollbackFunding
<1>6. CASE UNCHANGED fundingVars \/ \E f \in Fees : ConfigureFee(f)
  BY <1>6, CeremonyKeepsClaims DEF ConfigureFee
<1> QED
  BY <1>1, <1>2, <1>3, <1>4, <1>5, <1>6

(* A run that goes on keeps what it holds.                                 *)
LEMMA Moved ==
    ASSUME NEW r \in Running, NEW place
    PROVE  [r EXCEPT !.at = place] =
              [at |-> place, bytes |-> r.bytes, mine |-> r.mine, maySend |-> r.maySend]
<1>1. r = [at |-> r.at, bytes |-> r.bytes, mine |-> r.mine, maySend |-> r.maySend]
  BY DEF Running
<1>2. \A at, bytes, mine, maySend :
         [[at |-> at, bytes |-> bytes, mine |-> mine, maySend |-> maySend]
             EXCEPT !.at = place] =
         [at |-> place, bytes |-> bytes, mine |-> mine, maySend |-> maySend]
  OBVIOUS
<1> QED
  BY <1>1, <1>2

(* The same for a run that is about to send.                               *)
LEMMA MovedAndSent ==
    ASSUME NEW r \in Running, NEW place, NEW may
    PROVE  [[r EXCEPT !.at = place] EXCEPT !.maySend = may] =
              [at |-> place, bytes |-> r.bytes, mine |-> r.mine, maySend |-> may]
<1>1. \A at, bytes, mine, maySend :
         [[at |-> at, bytes |-> bytes, mine |-> mine, maySend |-> maySend]
             EXCEPT !.maySend = may] =
         [at |-> at, bytes |-> bytes, mine |-> mine, maySend |-> may]
  OBVIOUS
<1>2. [r EXCEPT !.at = place] =
         [at |-> place, bytes |-> r.bytes, mine |-> r.mine, maySend |-> r.maySend]
  BY Moved
<1>3. [[at |-> place, bytes |-> r.bytes, mine |-> r.mine, maySend |-> r.maySend]
          EXCEPT !.maySend = may] =
         [at |-> place, bytes |-> r.bytes, mine |-> r.mine, maySend |-> may]
  BY <1>1
<1> QED
  BY <1>2, <1>3, Zenon

-----------------------------------------------------------------------------
(* The steps of a run, by what they do to the row.                         *)

(* Steps that leave the row and the network alone and bring nobody nearer  *)
(* to the send.                                                            *)
LEMMA AsideKeepsClaims ==
    ASSUME SubmissionInv, NEW o \in Operators,
           UNCHANGED <<finalRow, claims, released>>,
           NEW a, attempt' = [attempt EXCEPT ![o] = a],
           \/ a.at \in {"idle", "claim", "mark"} /\ a \notin Running
           \/ /\ a.at \in {"look", "reclaim", "mark"} /\ a \in Running
              /\ a.maySend \/ a.at = "mark"
              /\ a.mine <= claims
           \/ /\ a.at = "fail" /\ a \in Running /\ attempt[o] \in Running
              /\ a.mine = attempt[o].mine /\ a.bytes = attempt[o].bytes
              /\ a.maySend = attempt[o].maySend
              /\ attempt[o].at \in {"preflight", "send"}
    PROVE  ClaimsAreKept'
<1> USE DEF SubmissionInv, ClaimsAreKept
<1>1. attempt \in [Operators -> {NoAttempt} \cup Claiming \cup Running]
  BY DEF FundingTypeOK
<1>2. attempt'[o] = a /\ \A q \in Operators \ {o} : attempt'[q] = attempt[q]
  BY <1>1
<1>3. SentIsPinned'
  BY DEF SentIsPinned
<1>4. \A q \in Operators : OnTheWay(q)' => q # o /\ OnTheWay(q)
  BY <1>2 DEF OnTheWay
<1>5. \A q \in Operators : OnTheWay(q)' => Pinned(attempt[q].bytes)'
  BY <1>2, <1>4 DEF Pinned
<1>6. \A q \in Operators : MayFree(q)' => MayFree(q)
  <2>1. ASSUME NEW q \in Operators \ {o}, MayFree(q)' PROVE MayFree(q)
    BY <1>2, <2>1 DEF MayFree, OwnsClaim
  <2>2. ASSUME MayFree(o)' PROVE MayFree(o)
    <3>1. a.at = "fail" /\ ~a.maySend /\ OwnsClaim(a)
      BY <1>2, <2>2 DEF MayFree, OwnsClaim
    <3>2. attempt[o].at = "preflight"
      BY <3>1
    <3> QED
      BY <3>1, <3>2 DEF MayFree, OwnsClaim
  <2> QED
    BY <2>1, <2>2
<1>7. \A q \in Operators : MayFree(q)' =>
         released' = {} /\ \A r \in Operators \ {q} : ~OnTheWay(r)'
  BY <1>4, <1>6
<1>8. \A q \in Operators :
         attempt'[q].at \in {"look", "reclaim", "send"} => attempt'[q].maySend
  BY <1>2
<1>9. \A q \in Operators : attempt'[q] \in Running => attempt'[q].mine <= claims'
  BY <1>2
<1> QED
  BY <1>3, <1>5, <1>7, <1>8, <1>9

(* Reading, looking and dying claim nothing.                               *)
LEMMA RunsAside ==
    ASSUME SubmissionInv, NEW o \in Operators,
           OperatorReads(o) \/ OperatorLooks(o) \/ OperatorDies(o)
    PROVE  ClaimsAreKept'
<1> USE DEF SubmissionInv
<1>1. ASSUME OperatorReads(o) PROVE ClaimsAreKept'
  BY <1>1, AsideKeepsClaims DEF OperatorReads, Running
<1>2. ASSUME OperatorDies(o) PROVE ClaimsAreKept'
  BY <1>2, AsideKeepsClaims DEF OperatorDies, Running
<1>3. ASSUME OperatorLooks(o) PROVE ClaimsAreKept'
  <2>1. /\ attempt[o] \in Running /\ attempt[o].maySend /\ attempt[o].mine <= claims
        /\ attempt \in [Operators -> {NoAttempt} \cup Claiming \cup Running]
    BY <1>3, Places DEF OperatorLooks, ClaimsAreKept, FundingTypeOK
  <2>2. CASE Ends(o)
    BY <1>3, <2>2, AsideKeepsClaims DEF OperatorLooks, Running
  <2>3. ASSUME NEW place \in {"mark", "reclaim"}, Goes(o, place) PROVE ClaimsAreKept'
    <3> DEFINE a == [at |-> place, bytes |-> attempt[o].bytes,
                     mine |-> attempt[o].mine, maySend |-> attempt[o].maySend]
    <3>1. attempt' = [attempt EXCEPT ![o] = [attempt[o] EXCEPT !.at = place]]
      BY <2>3
    <3>2. attempt' = [attempt EXCEPT ![o] = a]
      BY <2>1, <3>1, Moved
    <3>3. a \in Running
      BY <2>1 DEF Running
    <3> HIDE DEF a
    <3>4. a.at = place /\ a.maySend /\ a.mine <= claims
      BY <2>1 DEF a
    <3> QED
      BY <1>3, <3>2, <3>3, <3>4, AsideKeepsClaims DEF OperatorLooks
  <2> QED
    BY <1>3, <2>2, <2>3 DEF OperatorLooks
<1> QED
  BY <1>1, <1>2, <1>3

(* A claim, fresh or taken over, gets a number no other run has.           *)
LEMMA ClaimKeepsClaims ==
    ASSUME SubmissionInv, NEW o \in Operators, NEW bytes \in Bytes, NEW may \in BOOLEAN,
           final = bytes, UNCHANGED <<final, released>>, status' = "submitting",
           claims' = claims + 1, started' = claims',
           attempt' = [attempt EXCEPT ![o] = [at |-> "preflight", bytes |-> bytes,
                                              mine |-> claims', maySend |-> may]],
           status = "approved" \/ (status = "submitting" /\ may)
    PROVE  ClaimsAreKept'
<1> USE DEF SubmissionInv, ClaimsAreKept
<1>1. /\ attempt \in [Operators -> {NoAttempt} \cup Claiming \cup Running]
      /\ claims \in Nat
  BY DEF FundingTypeOK
<1>2. /\ attempt'[o] = [at |-> "preflight", bytes |-> bytes,
                        mine |-> claims', maySend |-> may]
      /\ \A q \in Operators \ {o} : attempt'[q] = attempt[q]
  BY <1>1
<1>3. SentIsPinned'
  BY DEF SentIsPinned, Submitted
<1>4. Pinned(bytes)'
  BY DEF Pinned, Submitted
<1>5. \A q \in Operators : OnTheWay(q)' => Pinned(attempt[q].bytes)'
  BY <1>2, <1>4 DEF OnTheWay, Pinned, Submitted
<1>6. \A q \in Operators \ {o} : ~MayFree(q)'
  <2> SUFFICES ASSUME NEW q \in Operators \ {o}, MayFree(q)' PROVE FALSE
    OBVIOUS
  <2>1. attempt[q] \in Running
    BY <1>1, <1>2 DEF MayFree, Claiming
  <2>2. attempt[q].mine <= claims /\ attempt[q].mine \in Nat
    BY <2>1, BoundAssumption DEF Running
  <2> QED
    BY <1>1, <1>2, <2>2 DEF MayFree, OwnsClaim
<1>7. MayFree(o)' => released' = {} /\ \A q \in Operators \ {o} : ~OnTheWay(q)'
  <2> SUFFICES ASSUME MayFree(o)'
               PROVE  released = {} /\ \A q \in Operators \ {o} : ~OnTheWay(q)
    BY <1>2 DEF OnTheWay
  <2>1. status = "approved"
    BY <1>2 DEF MayFree
  <2> QED
    BY <2>1 DEF SentIsPinned, Pinned, Submitted
<1>8. \A q \in Operators :
         attempt'[q].at \in {"look", "reclaim", "send"} => attempt'[q].maySend
  BY <1>2
<1>9. \A q \in Operators : attempt'[q] \in Running => attempt'[q].mine <= claims'
  <2>1. ASSUME NEW q \in Operators \ {o}, attempt'[q] \in Running
        PROVE  attempt'[q].mine <= claims'
    <3>1. attempt[q].mine <= claims /\ attempt[q].mine \in Nat
      BY <1>2, <2>1, BoundAssumption DEF Running
    <3> QED
      BY <1>1, <1>2, <3>1
  <2>2. attempt'[o].mine <= claims'
    BY <1>1, <1>2
  <2> QED
    BY <2>1, <2>2
<1> QED
  BY <1>3, <1>5, <1>6, <1>7, <1>8, <1>9

(* Of two runs only one claims the row.                                    *)
LEMMA RunClaims ==
    ASSUME SubmissionInv, NEW o \in Operators,
           OperatorClaims(o) \/ OperatorReclaims(o)
    PROVE  ClaimsAreKept'
<1> USE DEF SubmissionInv
<1>1. attempt \in [Operators -> {NoAttempt} \cup Claiming \cup Running]
  BY DEF FundingTypeOK
<1>2. CASE Ends(o) /\ UNCHANGED <<finalRow, claims, released>>
  BY <1>2, AsideKeepsClaims DEF Running
<1>3. ASSUME OperatorClaims(o) PROVE ClaimsAreKept'
  <2> DEFINE bytes == attempt[o].bytes
  <2>1. bytes \in Bytes
    BY <1>1, <1>3 DEF OperatorClaims, Claiming, Running
  <2>2. CASE status = "approved" /\ claims' = claims + 1
    <3>1. claims \in Nat
      BY DEF FundingTypeOK
    <3>2. /\ final = bytes /\ UNCHANGED <<final, released>>
          /\ status' = "submitting" /\ started' = claims'
          /\ attempt' = [attempt EXCEPT ![o] = [at |-> "preflight",
                bytes |-> bytes, mine |-> claims', maySend |-> FALSE]]
      BY <1>3, <2>2, <3>1 DEF OperatorClaims
    <3> HIDE DEF bytes
    <3> QED
      BY <2>1, <2>2, <3>2, ClaimKeepsClaims
  <2>3. CASE /\ attempt' = [attempt EXCEPT ![o] = [at |-> "look",
                   bytes |-> bytes, mine |-> started, maySend |-> TRUE]]
             /\ UNCHANGED <<status, started, claims>>
    <3> DEFINE a == [at |-> "look", bytes |-> bytes, mine |-> started, maySend |-> TRUE]
    <3>1. started \in 0 .. MaxClaims /\ started <= claims
      BY BoundAssumption DEF FundingTypeOK
    <3>2. a \in Running
      BY <2>1, <3>1 DEF Running
    <3> QED
      BY <1>3, <2>3, <3>1, <3>2, AsideKeepsClaims DEF OperatorClaims
  <2> QED
    BY <1>2, <1>3, <2>2, <2>3 DEF OperatorClaims
<1>4. ASSUME OperatorReclaims(o) PROVE ClaimsAreKept'
  <2>1. attempt[o] \in Running /\ attempt[o].maySend
    BY <1>4, Places DEF OperatorReclaims, ClaimsAreKept
  <2>2. CASE Owns(attempt[o])
    <3> DEFINE a == [at |-> "preflight", bytes |-> attempt[o].bytes,
                     mine |-> claims', maySend |-> TRUE]
    <3>1. claims' = claims + 1
      BY <1>4, <2>2 DEF OperatorReclaims
    <3>2. attempt' = [attempt EXCEPT ![o] = a]
      BY <1>1, <1>4, <2>1, <2>2 DEF OperatorReclaims, Inherited, Running
    <3>3. attempt[o].bytes \in Bytes
      BY <2>1 DEF Running
    <3> QED
      BY <1>4, <2>2, <3>1, <3>2, <3>3, ClaimKeepsClaims
         DEF OperatorReclaims, Owns, OwnsClaim
  <2> QED
    BY <1>2, <1>4, <2>2 DEF OperatorReclaims
<1> QED
  BY <1>3, <1>4

(* A run sends the bytes that are pinned.                                  *)
LEMMA RunSends ==
    ASSUME SubmissionInv, NEW o \in Operators,
           OperatorPreflights(o) \/ OperatorSends(o)
    PROVE  ClaimsAreKept'
<1> USE DEF SubmissionInv, ClaimsAreKept
<1>1. /\ attempt \in [Operators -> {NoAttempt} \cup Claiming \cup Running]
      /\ attempt[o] \in Running /\ OnTheWay(o)
      /\ attempt[o].mine <= claims
  BY Places DEF OperatorPreflights, OperatorSends, FundingTypeOK, OnTheWay
<1>2. Pinned(attempt[o].bytes)
  BY <1>1
<1>3. ASSUME NEW place \in {"mark", "fail"}, Goes(o, place),
             released' \in {released, released \cup {attempt[o].bytes}},
             attempt[o].at = "send" \/ released' = released,
             UNCHANGED <<finalRow, claims>>
      PROVE  ClaimsAreKept'
  <2> DEFINE a == [at |-> place, bytes |-> attempt[o].bytes,
                   mine |-> attempt[o].mine, maySend |-> attempt[o].maySend]
  <2>1. attempt' = [attempt EXCEPT ![o] = a]
    BY <1>1, <1>3, Moved
  <2>2. attempt'[o] = a /\ \A q \in Operators \ {o} : attempt'[q] = attempt[q]
    BY <1>1, <2>1
  <2>3. SentIsPinned'
    BY <1>2, <1>3 DEF SentIsPinned, Pinned
  <2>4. \A q \in Operators : OnTheWay(q)' => q # o /\ OnTheWay(q)
    BY <2>2 DEF OnTheWay
  <2>5. \A q \in Operators : OnTheWay(q)' => Pinned(attempt[q].bytes)'
    BY <1>3, <2>2, <2>4 DEF Pinned
  <2>6. \A q \in Operators : MayFree(q)' => MayFree(q)
    <3>1. ASSUME NEW q \in Operators \ {o}, MayFree(q)' PROVE MayFree(q)
      BY <1>3, <2>2, <3>1 DEF MayFree, OwnsClaim
    <3>2. ASSUME MayFree(o)' PROVE MayFree(o)
      <4>1. ~attempt[o].maySend /\ OwnsClaim(attempt[o])
        BY <1>3, <2>2, <3>2 DEF MayFree, OwnsClaim
      <4> QED
        BY <1>1, <4>1 DEF MayFree, OnTheWay
    <3> QED
      BY <3>1, <3>2
  <2>7. \A q \in Operators : MayFree(q) => released' = released
    BY <1>1, <1>3 DEF MayFree, OnTheWay
  <2>8. \A q \in Operators : MayFree(q)' =>
           released' = {} /\ \A r \in Operators \ {q} : ~OnTheWay(r)'
    BY <2>4, <2>6, <2>7
  <2>9. \A q \in Operators :
           attempt'[q].at \in {"look", "reclaim", "send"} => attempt'[q].maySend
    BY <2>2
  <2>10. \A q \in Operators : attempt'[q] \in Running => attempt'[q].mine <= claims'
    BY <1>1, <1>3, <2>2
  <2> QED
    BY <2>3, <2>5, <2>8, <2>9, <2>10
<1>4. ASSUME OperatorPreflights(o),
             attempt' = [attempt EXCEPT ![o].at = "send", ![o].maySend = TRUE]
      PROVE  ClaimsAreKept'
  <2> DEFINE a == [at |-> "send", bytes |-> attempt[o].bytes,
                   mine |-> attempt[o].mine, maySend |-> TRUE]
  <2>1. attempt' = [attempt EXCEPT ![o] = a]
    <3>1. [[attempt[o] EXCEPT !.at = "send"] EXCEPT !.maySend = TRUE] = a
      BY <1>1, MovedAndSent
    <3> HIDE DEF a
    <3>2. attempt' = [[attempt EXCEPT ![o] = [attempt[o] EXCEPT !.at = "send"]]
             EXCEPT ![o] = [[attempt[o] EXCEPT !.at = "send"] EXCEPT !.maySend = TRUE]]
      BY <1>1, <1>4
    <3> QED
      BY <1>1, <3>1, <3>2
  <2>2. attempt'[o] = a /\ \A q \in Operators \ {o} : attempt'[q] = attempt[q]
    BY <1>1, <2>1
  <2>3. UNCHANGED <<finalRow, claims, released>>
    BY <1>4 DEF OperatorPreflights
  <2>4. SentIsPinned'
    BY <2>3 DEF SentIsPinned
  <2>5. \A q \in Operators : OnTheWay(q)' => OnTheWay(q)
    BY <1>1, <2>2 DEF OnTheWay
  <2>6. \A q \in Operators : OnTheWay(q)' => Pinned(attempt[q].bytes)'
    BY <1>2, <2>2, <2>3, <2>5 DEF Pinned
  <2>7. \A q \in Operators : MayFree(q)' => MayFree(q)
    BY <2>2, <2>3 DEF MayFree, OwnsClaim
  <2>8. \A q \in Operators : MayFree(q)' =>
           released' = {} /\ \A r \in Operators \ {q} : ~OnTheWay(r)'
    BY <2>3, <2>5, <2>7
  <2>9. \A q \in Operators :
           attempt'[q].at \in {"look", "reclaim", "send"} => attempt'[q].maySend
    BY <2>2
  <2>10. \A q \in Operators : attempt'[q] \in Running => attempt'[q].mine <= claims'
    BY <1>1, <2>2, <2>3
  <2> QED
    BY <2>4, <2>6, <2>8, <2>9, <2>10
<1>5. CASE OperatorPreflights(o)
  BY <1>3, <1>4, <1>5 DEF OperatorPreflights
<1>6. CASE OperatorSends(o)
  BY <1>3, <1>6 DEF OperatorSends
<1> QED
  BY <1>5, <1>6

(* A row that is marked as sent stays pinned.                              *)
LEMMA RunMarks ==
    ASSUME SubmissionInv, NEW o \in Operators, OperatorMarks(o)
    PROVE  ClaimsAreKept'
<1> USE DEF SubmissionInv, ClaimsAreKept
<1>1. attempt \in [Operators -> {NoAttempt} \cup Claiming \cup Running]
  BY DEF FundingTypeOK
<1>2. attempt'[o] = NoAttempt /\ \A q \in Operators \ {o} : attempt'[q] = attempt[q]
  BY <1>1 DEF OperatorMarks
<1>3. /\ UNCHANGED <<final, started, claims, released>>
      /\ status' = status \/ (status = "submitting" /\ status' = "broadcast")
  BY DEF OperatorMarks
<1>4. \A bytes : Pinned(bytes) => Pinned(bytes)'
  BY <1>3 DEF Pinned, Submitted
<1>5. SentIsPinned'
  BY <1>3, <1>4 DEF SentIsPinned, Pinned
<1>6. \A q \in Operators : OnTheWay(q)' => q # o /\ OnTheWay(q)
  BY <1>2 DEF OnTheWay
<1>7. \A q \in Operators : OnTheWay(q)' => Pinned(attempt[q].bytes)'
  BY <1>2, <1>3, <1>6 DEF Pinned, Submitted
<1>8. \A q \in Operators : MayFree(q)' => q # o /\ MayFree(q)
  BY <1>2, <1>3 DEF MayFree, OwnsClaim
<1>9. \A q \in Operators : MayFree(q)' =>
         released' = {} /\ \A r \in Operators \ {q} : ~OnTheWay(r)'
  BY <1>3, <1>6, <1>8
<1>10. \A q \in Operators :
          attempt'[q].at \in {"look", "reclaim", "send"} => attempt'[q].maySend
  BY <1>2
<1>11. \A q \in Operators : attempt'[q] \in Running => attempt'[q].mine <= claims'
  BY <1>2, <1>3 DEF Running
<1> QED
  BY <1>5, <1>7, <1>9, <1>10, <1>11

(* The one step that gives a submission back finds nothing sent and nobody *)
(* on the way.                                                             *)
LEMMA Freeing ==
    ASSUME SubmissionInv, NEW o \in Operators, OperatorFails(o),
           ~UNCHANGED status
    PROVE  /\ released = {} /\ released' = {}
           /\ status = "submitting" /\ status' = "approved"
           /\ attempt'[o] = NoAttempt
           /\ \A q \in Operators \ {o} : attempt'[q] = attempt[q]
           /\ \A q \in Operators : attempt'[q].at \notin {"preflight", "send"}
<1> USE DEF SubmissionInv
<1>1. /\ attempt \in [Operators -> {NoAttempt} \cup Claiming \cup Running]
      /\ Ends(o) /\ released' = released
      /\ OwnsClaim(attempt[o]) /\ ~attempt[o].maySend /\ status' = "approved"
  BY DEF OperatorFails, FundingTypeOK, Owns
<1>2. MayFree(o)
  BY <1>1 DEF OperatorFails, MayFree
<1>3. released = {} /\ \A q \in Operators \ {o} : ~OnTheWay(q)
  BY <1>2 DEF ClaimsAreKept
<1>4. attempt'[o] = NoAttempt /\ \A q \in Operators \ {o} : attempt'[q] = attempt[q]
  BY <1>1
<1> QED
  BY <1>1, <1>3, <1>4 DEF OwnsClaim, OnTheWay

(* Who frees the row sent nothing, and nobody else is on the way.          *)
LEMMA RunFails ==
    ASSUME SubmissionInv, NEW o \in Operators, OperatorFails(o)
    PROVE  ClaimsAreKept'
<1> USE DEF SubmissionInv
<1>1. /\ attempt \in [Operators -> {NoAttempt} \cup Claiming \cup Running]
      /\ attempt[o] \in Running /\ attempt[o].mine <= claims
  BY Places DEF OperatorFails, FundingTypeOK, ClaimsAreKept
<1>2. CASE Ends(o) /\ UNCHANGED <<finalRow, claims, released>>
  BY <1>2, AsideKeepsClaims DEF Running
<1>3. CASE Goes(o, "mark") /\ UNCHANGED <<finalRow, claims, released>>
  <2> DEFINE a == [at |-> "mark", bytes |-> attempt[o].bytes,
                   mine |-> attempt[o].mine, maySend |-> attempt[o].maySend]
  <2>1. attempt' = [attempt EXCEPT ![o] = a]
    BY <1>1, <1>3, Moved
  <2>2. a \in Running
    BY <1>1 DEF Running
  <2>3. a.at = "mark" /\ a.mine <= claims
    BY <1>1
  <2> HIDE DEF a
  <2> QED
    BY <1>3, <2>1, <2>2, <2>3, AsideKeepsClaims
<1>4. CASE ~UNCHANGED status
  <2>1. /\ released' = {} /\ status' = "approved" /\ claims' = claims
        /\ attempt'[o] = NoAttempt
        /\ \A q \in Operators \ {o} : attempt'[q] = attempt[q]
        /\ \A q \in Operators : ~OnTheWay(q)'
    BY <1>4, Freeing DEF OperatorFails, OnTheWay
  <2>2. SentIsPinned'
    BY <2>1 DEF SentIsPinned
  <2>3. \A q \in Operators : ~MayFree(q)'
    BY <2>1 DEF MayFree, OwnsClaim
  <2>4. \A q \in Operators :
           attempt'[q].at \in {"look", "reclaim", "send"} => attempt'[q].maySend
    BY <2>1 DEF ClaimsAreKept
  <2>5. \A q \in Operators : attempt'[q] \in Running => attempt'[q].mine <= claims'
    BY <2>1 DEF ClaimsAreKept, Running
  <2> QED
    BY <2>1, <2>2, <2>3, <2>4, <2>5 DEF ClaimsAreKept
<1>5. CASE UNCHANGED status
  <2>1. CASE Owns(attempt[o]) /\ ~attempt[o].maySend /\ status' = "approved"
    BY <1>5, <2>1 DEF Owns, OwnsClaim
  <2> QED
    BY <1>2, <1>3, <1>5, <2>1 DEF OperatorFails
<1> QED
  BY <1>4, <1>5

(* Every step keeps it.                                                    *)
LEMMA SubmissionInductive == FundingSpec => []SubmissionInv
<1>1. Init => SubmissionInv
  <2>1. Init => FundingTypeOK
    BY BoundAssumption DEF Init, FundingTypeOK, Package, Signatures, Statuses, Restartable
  <2>2. Init => ClaimsAreKept
    BY DEF Init, ClaimsAreKept, SentIsPinned, OnTheWay, MayFree, Running
  <2> QED
    BY <2>1, <2>2 DEF SubmissionInv
<1>2. SubmissionInv /\ [Next]_fundingVars => SubmissionInv'
  <2> SUFFICES ASSUME SubmissionInv, [Next]_fundingVars PROVE SubmissionInv'
    OBVIOUS
  <2>1. FundingTypeOK'
    BY CeremonyTypes, OperatorTypes, OtherTypes DEF Next, SubmissionInv
  <2>2. ASSUME NEW o \in Operators, Submitting(o) PROVE ClaimsAreKept'
    BY <2>2, RunsAside, RunClaims, RunSends, RunMarks, RunFails DEF Submitting
  <2>3. ClaimsAreKept'
    BY <2>2, ParticipantsKeepClaims DEF Next
  <2> QED
    BY <2>1, <2>3 DEF SubmissionInv
<1> QED
  BY <1>1, <1>2, PTL DEF FundingSpec

(* Bytes the network may hold are never replaced: no restart and no other  *)
(* ceremony follows them, with any number of runs of the operator's        *)
(* command, lost answers, crashes and reorganizations.                     *)
THEOREM SubmissionIsPinned == FundingSpec => []SentIsPinned
<1>1. SubmissionInv => SentIsPinned
  BY DEF SubmissionInv, ClaimsAreKept
<1> QED
  BY <1>1, SubmissionInductive, PTL

(* A submission goes back to the participants only if its bytes were never *)
(* sent and nobody is about to send them.                                  *)
THEOREM FreedOnlyUnsent == FundingSpec => SubmissionFreedOnlyUnsent
<1> DEFINE Freed ==
       (status \in Submitted /\ status' \notin Submitted) =>
          /\ released = {}
          /\ \A o \in Operators : attempt'[o].at \notin {"preflight", "send"}
<1>1. SubmissionInv /\ [Next]_fundingVars => [Freed]_fundingVars
  <2> SUFFICES ASSUME SubmissionInv, Next, status \in Submitted, status' \notin Submitted
               PROVE  Freed
    OBVIOUS
  <2> USE DEF Submitted, Restartable
  <2>1. ASSUME NEW p \in Participants, Committing(p) \/ ChallengeExpires(p) PROVE FALSE
    BY <2>1 DEF Committing, ReadCeremonyFee, CreateFundingInputChallenge,
       CompleteFundingInputChallenge, ChallengeExpires
  <2>2. ASSUME NEW p \in Participants, Approving(p) PROVE FALSE
    BY <2>2 DEF Approving, CreateFundingSignatureChallenge,
       CompleteFundingSignatureChallenge, CreateFundingFinalApprovalChallenge,
       CompleteFundingFinalApprovalChallenge
  <2>3. ASSUME NEW p \in Participants, Restarting(p) PROVE FALSE
    BY <2>3, RestartedStatus DEF Restarting, CreateFundingRestartChallenge, SubmissionInv
  <2>4. ASSUME NEW o \in Operators, Submitting(o) PROVE Freed
    <3>1. CASE OperatorFails(o)
      BY <3>1, Freeing
    <3>2. CASE OperatorReads(o) \/ OperatorClaims(o) \/ OperatorLooks(o) \/ OperatorReclaims(o)
      BY <3>2 DEF OperatorReads, OperatorClaims, OperatorLooks, OperatorReclaims
    <3>3. CASE OperatorPreflights(o) \/ OperatorSends(o) \/ OperatorMarks(o) \/ OperatorDies(o)
      BY <3>3 DEF OperatorPreflights, OperatorSends, OperatorMarks, OperatorDies
    <3> QED
      BY <2>4, <3>1, <3>2, <3>3 DEF Submitting
  <2>5. CASE ConfirmFunding \/ RollbackFunding \/ \E f \in Fees : ConfigureFee(f)
    BY <2>5 DEF ConfirmFunding, RollbackFunding, ConfigureFee
  <2> HIDE DEF Freed
  <2> QED
    BY <2>1, <2>2, <2>3, <2>4, <2>5 DEF Next
<1> QED
  BY <1>1, SubmissionInductive, PTL DEF FundingSpec, SubmissionFreedOnlyUnsent

-----------------------------------------------------------------------------
(* What is submitted is what everybody approved.  The strengthening says   *)
(* what the finalized row fixes before the approvals are complete.         *)

(* The final bytes are everybody's inputs and signatures.                  *)
Finalized ==
    /\ final = [inputs |-> inputs, signatures |-> signed]
    /\ \A p \in Participants :
          inputs[p] # None /\ signed[p] # None /\ signed[p].proposal = inputs

(* From finalization on.                                                   *)
FinalIsExact ==
    /\ status # "none" => Finalized
    /\ status \in {"approved"} \cup Submitted => EveryoneApproved(approvals)

(* The inductive invariant.                                                *)
ExactInv == FundingTypeOK /\ FinalIsExact

(* Nothing the finalized row is built from changes.                        *)
LEMMA SameRowsStayExact ==
    ASSUME ExactInv, UNCHANGED <<inputs, signed, final, approvals>>,
           \/ status' = status
           \/ status \in {"approved"} \cup Submitted /\ status' \in {"approved"} \cup Submitted
    PROVE  FinalIsExact'
BY DEF ExactInv, FinalIsExact, Finalized, EveryoneApproved, Submitted

(* Until the funding is final the participants may change anything.        *)
LEMMA ParticipantStepsStayExact ==
    ASSUME ExactInv, NEW p \in Participants,
           Committing(p) \/ Approving(p) \/ Restarting(p) \/ ChallengeExpires(p)
    PROVE  FinalIsExact'
<1> USE DEF ExactInv
<1>1. CASE \E u \in Utxos : ReadCeremonyFee(p, u)
  BY <1>1, SameRowsStayExact DEF ReadCeremonyFee
<1>2. CASE CreateFundingInputChallenge(p) \/ ChallengeExpires(p)
  BY <1>2, SameRowsStayExact DEF CreateFundingInputChallenge, ChallengeExpires
<1>3. CASE CompleteFundingInputChallenge(p)
  <2>1. status = "none"
    BY <1>3 DEF CompleteFundingInputChallenge, FinalIsExact, Finalized
  <2> QED
    BY <1>3, <2>1 DEF CompleteFundingInputChallenge, FinalIsExact, Submitted
<1>4. CASE \E w \in Witnesses : CreateFundingSignatureChallenge(p, w)
  BY <1>4, SameRowsStayExact DEF CreateFundingSignatureChallenge
<1>5. CASE CompleteFundingSignatureChallenge(p)
  <2>1. status = "none" /\ Present = Participants
    BY <1>5 DEF CompleteFundingSignatureChallenge, FinalIsExact, Finalized, PackageApproved
  <2>2. CASE UNCHANGED <<final, status>>
    BY <1>5, <2>1, <2>2 DEF CompleteFundingSignatureChallenge, FinalIsExact, Submitted
  <2>3. CASE /\ \A q \in Participants : signed'[q] # None /\ signed'[q].proposal = inputs
             /\ final' = [inputs |-> inputs, signatures |-> signed']
             /\ status' = "awaiting_approvals"
    <3>1. \A q \in Participants : inputs[q] # None
      BY <2>1 DEF Present
    <3>2. inputs' = inputs
      BY <1>5 DEF CompleteFundingSignatureChallenge
    <3> QED
      BY <2>3, <3>1, <3>2 DEF FinalIsExact, Finalized, Submitted
  <2> QED
    BY <1>5, <2>2, <2>3 DEF CompleteFundingSignatureChallenge
<1>6. CASE CreateFundingFinalApprovalChallenge(p)
  BY <1>6, SameRowsStayExact DEF CreateFundingFinalApprovalChallenge
<1>7. CASE CompleteFundingFinalApprovalChallenge(p)
  <2>1. Finalized'
    BY <1>7 DEF CompleteFundingFinalApprovalChallenge, FinalIsExact, Finalized
  <2>2. status' \in {"approved"} \cup Submitted => EveryoneApproved(approvals)'
    BY <1>7 DEF CompleteFundingFinalApprovalChallenge, EveryoneApproved, Submitted
  <2> QED
    BY <2>1, <2>2 DEF FinalIsExact
<1>8. CASE \E r \in Reasons : CreateFundingRestartChallenge(p, r)
  BY <1>8, SameRowsStayExact DEF CreateFundingRestartChallenge
<1>9. CASE CompleteFundingRestartChallenge(p)
  <2>1. CASE UNCHANGED <<inputRows, signatureRows, finalRow, approvalRows>>
    BY <2>1, SameRowsStayExact
  <2>2. CASE status' = "none"
    BY <2>2 DEF FinalIsExact, Submitted
  <2> QED
    BY <1>9, <2>1, <2>2 DEF CompleteFundingRestartChallenge
<1> QED
  BY <1>1, <1>2, <1>3, <1>4, <1>5, <1>6, <1>7, <1>8, <1>9
     DEF Committing, Approving, Restarting

(* A run writes none of it.                                                *)
LEMMA RunStepsStayExact ==
    ASSUME ExactInv, NEW o \in Operators, Submitting(o)
    PROVE  FinalIsExact'
<1>1. UNCHANGED <<inputs, signed, final, approvals>>
  BY DEF Submitting, OperatorReads, OperatorClaims, OperatorLooks, OperatorReclaims,
     OperatorPreflights, OperatorSends, OperatorMarks, OperatorFails, OperatorDies
<1>2. \/ status' = status
      \/ status \in {"approved"} \cup Submitted /\ status' \in {"approved"} \cup Submitted
  <2>1. CASE OperatorReads(o) \/ OperatorLooks(o) \/ OperatorReclaims(o)
             \/ OperatorPreflights(o) \/ OperatorSends(o) \/ OperatorDies(o)
    BY <2>1 DEF OperatorReads, OperatorLooks, OperatorReclaims, OperatorPreflights,
       OperatorSends, OperatorDies
  <2>2. CASE OperatorClaims(o)
    BY <2>2 DEF OperatorClaims, Submitted
  <2>3. CASE OperatorMarks(o)
    BY <2>3 DEF OperatorMarks, Submitted
  <2>4. CASE OperatorFails(o)
    BY <2>4 DEF OperatorFails, Owns, OwnsClaim, Submitted
  <2> QED
    BY <2>1, <2>2, <2>3, <2>4 DEF Submitting
<1> QED
  BY <1>1, <1>2, SameRowsStayExact

(* What the operator may submit is, byte for byte, what every participant  *)
(* signed and approved.                                                    *)
THEOREM SubmittedIsUnanimous == FundingSpec => []UnanimousExactBytes
<1>1. Init => ExactInv
  <2>1. Init => FundingTypeOK
    BY BoundAssumption DEF Init, FundingTypeOK, Package, Signatures, Statuses, Restartable
  <2> QED
    BY <2>1 DEF Init, ExactInv, FinalIsExact, Submitted
<1>2. ExactInv /\ [Next]_fundingVars => ExactInv'
  <2> SUFFICES ASSUME ExactInv, [Next]_fundingVars PROVE ExactInv'
    OBVIOUS
  <2>1. FundingTypeOK'
    BY CeremonyTypes, OperatorTypes, OtherTypes DEF Next, ExactInv
  <2>2. ASSUME ConfirmFunding \/ RollbackFunding PROVE FinalIsExact'
    BY <2>2, SameRowsStayExact DEF ConfirmFunding, RollbackFunding, Submitted
  <2>3. ASSUME UNCHANGED fundingVars \/ \E f \in Fees : ConfigureFee(f)
        PROVE  FinalIsExact'
    BY <2>3, SameRowsStayExact DEF ConfigureFee
  <2>4. FinalIsExact'
    BY <2>2, <2>3, ParticipantStepsStayExact, RunStepsStayExact DEF Next
  <2> QED
    BY <2>1, <2>4 DEF ExactInv
<1>3. ExactInv => UnanimousExactBytes
  BY DEF ExactInv, FinalIsExact, Finalized, EveryoneApproved, UnanimousExactBytes, Submitted
<1> QED
  BY <1>1, <1>2, <1>3, PTL DEF FundingSpec

-----------------------------------------------------------------------------
(* A committed input is forgotten only when everybody approved, of this    *)
(* very state and for one reason, to start over, before any submission.    *)
THEOREM OnlyUnanimousRestart == FundingSpec => RestartIsUnanimous
<1> DEFINE Unmade(p) == inputs[p] # None /\ inputs'[p] # inputs[p]
           Agreed ==
              /\ status \in Restartable
              /\ \E last \in Participants, r \in Reasons :
                    /\ restartChallenge[last] = [state |-> Snapshot, reason |-> r]
                    /\ \A q \in Participants \ {last} :
                          [by |-> q, state |-> Snapshot, reason |-> r] \in restartApprovals
<1>1. FundingTypeOK /\ [Next]_fundingVars =>
         [\A p \in Participants : Unmade(p) => Agreed]_fundingVars
  <2> SUFFICES ASSUME FundingTypeOK, Next, NEW p \in Participants, Unmade(p)
               PROVE  Agreed
    OBVIOUS
  <2>1. PICK last \in Participants : CompleteFundingRestartChallenge(last)
    <3>1. ASSUME NEW q \in Participants, CompleteFundingInputChallenge(q) PROVE FALSE
      BY <3>1 DEF CompleteFundingInputChallenge, FundingTypeOK, Package
    <3>2. ASSUME UNCHANGED inputs PROVE FALSE
      BY <3>2
    <3> HIDE DEF Unmade
    <3>3. ASSUME NEW q \in Participants, Committing(q) \/ Approving(q) \/ ChallengeExpires(q)
          PROVE  FALSE
      BY <3>1, <3>2, <3>3 DEF Committing, ReadCeremonyFee, CreateFundingInputChallenge,
         Approving, CreateFundingSignatureChallenge, CompleteFundingSignatureChallenge,
         CreateFundingFinalApprovalChallenge, CompleteFundingFinalApprovalChallenge,
         ChallengeExpires
    <3>4. ASSUME NEW o \in Operators, Submitting(o) PROVE FALSE
      BY <3>2, <3>4 DEF Submitting, OperatorReads, OperatorClaims, OperatorLooks,
         OperatorReclaims, OperatorPreflights, OperatorSends, OperatorMarks,
         OperatorFails, OperatorDies
    <3>5. ASSUME ConfirmFunding \/ RollbackFunding \/ \E f \in Fees : ConfigureFee(f)
          PROVE  FALSE
      BY <3>2, <3>5 DEF ConfirmFunding, RollbackFunding, ConfigureFee
    <3>6. ASSUME NEW q \in Participants, NEW r \in Reasons, CreateFundingRestartChallenge(q, r)
          PROVE  FALSE
      BY <3>2, <3>6 DEF CreateFundingRestartChallenge
    <3> QED
      BY <3>3, <3>4, <3>5, <3>6 DEF Next, Restarting
  <2> DEFINE request == restartChallenge[last]
             approval == [by |-> last, state |-> request.state, reason |-> request.reason]
  <2>2. /\ request \in [state : State, reason : Reasons]
        /\ request.state = Snapshot
    BY <2>1 DEF CompleteFundingRestartChallenge, FundingTypeOK
  <2>3. request = [state |-> Snapshot, reason |-> request.reason] /\ request.reason \in Reasons
    BY <2>2
  <2>4. Unanimous(restartApprovals \cup {approval}, request)
    BY <2>1 DEF CompleteFundingRestartChallenge
  <2>5. \A q \in Participants \ {last} :
           [by |-> q, state |-> Snapshot, reason |-> request.reason] \in restartApprovals
    <3> SUFFICES ASSUME NEW q \in Participants \ {last}
                 PROVE  [by |-> q, state |-> Snapshot, reason |-> request.reason]
                           \in restartApprovals
      OBVIOUS
    <3> DEFINE other == [by |-> q, state |-> Snapshot, reason |-> request.reason]
    <3>1. other \in restartApprovals \cup {approval}
      BY <2>2, <2>4 DEF Unanimous
    <3>2. other.by # approval.by
      OBVIOUS
    <3> HIDE DEF other, approval
    <3>3. other \in restartApprovals
      BY <3>1, <3>2
    <3> QED
      BY <3>3 DEF other
  <2>6. status \in Restartable
    BY <2>1, RestartedStatus
  <2> QED
    BY <2>3, <2>5, <2>6
<1> QED
  BY <1>1, FundingTypeCorrect, PTL DEF FundingSpec, RestartIsUnanimous

-----------------------------------------------------------------------------
(* Nobody can be locked out of a restart.  Whatever a participant drafted,  *)
(* was challenged with or committed charges one and the same fee, and it   *)
(* is the deployment's as long as nothing is committed.  Only the second   *)
(* part makes it inductive: the first input after a restart takes the fee  *)
(* of a draft, the ones after it the fee of that input.                    *)
Charging(f) ==
    \A p \in Participants : \A c \in {draft[p], inputChallenge[p], inputs[p]} :
        c # None => c.fee = f

(* The fee of every request under way is one and the same, and while       *)
(* nobody has committed it is the deployed one.                            *)
OneFee == \E f \in Fees : Charging(f) /\ (Present = {} => f = feeConfig)

(* The steps that a participant's request for an input consists of.        *)
LEMMA CommittingChargesOneFee ==
    ASSUME FundingTypeOK, OneFee, NEW p \in Participants, Committing(p)
    PROVE  OneFee'
<1>1. PICK f \in Fees : Charging(f) /\ (Present = {} => f = feeConfig)
  BY DEF OneFee
<1> USE DEF FundingTypeOK, Package
<1>2. ASSUME NEW u \in Utxos, ReadCeremonyFee(p, u) PROVE OneFee'
  <2>1. PICK g \in CeremonyFee : draft' = [draft EXCEPT ![p] = [utxo |-> u, fee |-> g]]
    BY <1>2 DEF ReadCeremonyFee
  <2>2. g = f
    BY <1>1, <2>1 DEF CeremonyFee, Charging, Present
  <2>3. Charging(f)' /\ Present' = Present /\ feeConfig' = feeConfig
    BY <1>1, <1>2, <2>1, <2>2 DEF ReadCeremonyFee, Charging, Present
  <2> QED
    BY <1>1, <2>3 DEF OneFee
<1>3. ASSUME CreateFundingInputChallenge(p) PROVE OneFee'
  <2>1. Charging(f)' /\ Present' = Present /\ feeConfig' = feeConfig
    BY <1>1, <1>3 DEF CreateFundingInputChallenge, Charging, Present
  <2> QED
    BY <1>1, <2>1 DEF OneFee
<1>4. ASSUME CompleteFundingInputChallenge(p) PROVE OneFee'
  <2>1. Charging(f)'
    BY <1>1, <1>4 DEF CompleteFundingInputChallenge, Charging
  <2>2. p \in Present'
    BY <1>4 DEF CompleteFundingInputChallenge, Present
  <2> QED
    BY <2>1, <2>2 DEF OneFee
<1> QED
  BY <1>2, <1>3, <1>4 DEF Committing

(* A step that at most drops pending fees.                                 *)
LEMMA OthersChargeOneFee ==
    ASSUME FundingTypeOK, OneFee, UNCHANGED <<draft, inputs, feeConfig>>,
           \A p \in Participants : inputChallenge'[p] \in {inputChallenge[p], None}
    PROVE  OneFee'
<1>1. PICK f \in Fees : Charging(f) /\ (Present = {} => f = feeConfig)
  BY DEF OneFee
<1>2. Charging(f)'
  BY <1>1 DEF Charging
<1>3. Present' = Present
  BY DEF Present
<1> QED
  BY <1>1, <1>2, <1>3 DEF OneFee

(* A restart ends with nothing pending, in a steady deployment.            *)
LEMMA RestartChargesOneFee ==
    ASSUME FundingTypeOK, OneFee, Steady, NEW p \in Participants,
           CompleteFundingRestartChallenge(p)
    PROVE  OneFee'
<1>1. ASSUME UNCHANGED <<inputRows, restartEvents>> PROVE OneFee'
  BY <1>1, OthersChargeOneFee DEF CompleteFundingRestartChallenge
<1>2. ASSUME restartEvents' = restartEvents \cup {restartChallenge[p]},
             restartChallenge[p] \notin restartEvents,
             inputChallenge' = Nobody, inputs' = Nobody
      PROVE  OneFee'
  <2>1. draft' = Nobody
    BY <1>2 DEF Steady, CompleteFundingRestartChallenge
  <2>2. Charging(feeConfig)' /\ feeConfig' \in Fees
    BY <1>2, <2>1 DEF Charging, CompleteFundingRestartChallenge, FundingTypeOK
  <2> QED
    BY <2>2 DEF OneFee
<1> QED
  BY <1>1, <1>2 DEF CompleteFundingRestartChallenge

(* A new fee is deployed when no fee is pending.                           *)
LEMMA DeployedFeeIsCharged ==
    ASSUME FundingTypeOK, OneFee, Steady, NEW g \in Fees, ConfigureFee(g)
    PROVE  OneFee'
<1>1. draft' = Nobody /\ inputChallenge' = Nobody /\ inputs' = inputs /\ feeConfig' = g
  BY DEF ConfigureFee, Steady
<1>2. CASE Present = {}
  <2>1. Charging(g)'
    BY <1>1, <1>2 DEF Charging, Present
  <2> QED
    BY <1>1, <2>1 DEF OneFee
<1>3. CASE Present # {}
  <2>1. PICK f \in Fees : Charging(f)
    BY DEF OneFee
  <2>2. Charging(f)' /\ Present' # {}
    BY <1>1, <1>3, <2>1 DEF Charging, Present
  <2> QED
    BY <2>2 DEF OneFee
<1> QED
  BY <1>2, <1>3

(* The participants can start over until their bytes are handed to the     *)
(* operator's submission, whichever of them commits, signs, restarts or    *)
(* lets a challenge expire and whenever a new fee is deployed, as long as  *)
(* no request for an input spans a restart or a deployment.                *)
THEOREM RestartOpen == FundingSpec /\ [][Steady]_fundingVars => []RestartStaysOpen
<1>1. Init => OneFee
  BY DEF Init, OneFee, Charging
<1>2. FundingTypeOK /\ OneFee /\ [Next]_fundingVars /\ [Steady]_fundingVars => OneFee'
  <2> SUFFICES ASSUME FundingTypeOK, OneFee, [Next]_fundingVars, [Steady]_fundingVars
               PROVE  OneFee'
    OBVIOUS
  <2>1. ASSUME UNCHANGED <<draft, inputRows, feeConfig>> PROVE OneFee'
    BY <2>1, OthersChargeOneFee
  <2>2. CASE UNCHANGED fundingVars
    BY <2>1, <2>2
  <2>3. ASSUME NEW p \in Participants, Approving(p), Steady PROVE OneFee'
    BY <2>1, <2>3 DEF Approving, CreateFundingSignatureChallenge,
       CompleteFundingSignatureChallenge, CreateFundingFinalApprovalChallenge,
       CompleteFundingFinalApprovalChallenge
  <2>4. ASSUME NEW p \in Participants, Restarting(p), Steady PROVE OneFee'
    BY <2>1, <2>4, RestartChargesOneFee DEF Restarting, CreateFundingRestartChallenge
  <2>5. ASSUME NEW p \in Participants, ChallengeExpires(p) PROVE OneFee'
    <3>1. \A q \in Participants : inputChallenge'[q] \in {inputChallenge[q], None}
      BY <2>5 DEF ChallengeExpires, FundingTypeOK, Package
    <3> QED
      BY <2>5, <3>1, OthersChargeOneFee DEF ChallengeExpires
  <2>6. ASSUME NEW o \in Operators, Submitting(o) PROVE OneFee'
    BY <2>1, <2>6 DEF Submitting, OperatorReads, OperatorClaims, OperatorLooks,
       OperatorReclaims, OperatorPreflights, OperatorSends, OperatorMarks,
       OperatorFails, OperatorDies
  <2>7. ASSUME ConfirmFunding \/ RollbackFunding PROVE OneFee'
    BY <2>1, <2>7 DEF ConfirmFunding, RollbackFunding
  <2>8. CASE Next /\ Steady
    BY <2>3, <2>4, <2>5, <2>6, <2>7, <2>8, CommittingChargesOneFee, DeployedFeeIsCharged
       DEF Next
  <2>9. CASE Next /\ ~Steady
    BY <2>2, <2>9
  <2> QED
    BY <2>2, <2>8, <2>9
<1>3. OneFee => RestartStaysOpen
  BY DEF OneFee, Charging, RestartStaysOpen, FeesAgree, Present
<1> QED
  BY <1>1, <1>2, <1>3, FundingTypeCorrect, PTL DEF FundingSpec
=============================================================================
