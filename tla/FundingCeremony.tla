--------------------------- MODULE FundingCeremony ---------------------------
(***************************************************************************)
(* How the first coin of a vault comes to be funded: the ceremony in which *)
(* every participant commits an input, signs it, approves the finalized    *)
(* bytes or agrees to start over (funding-ceremony-store.ts and            *)
(* funding-signature-store.ts), and the operator's command that submits    *)
(* the bytes (submitPasskeyApprovedFunding), by several concurrent         *)
(* attempts.                                                               *)
(*                                                                         *)
(* A commitment is [utxo, fee]; a wallet signature is [proposal, witness], *)
(* the proposal being the inputs it signs; the final bytes are all inputs  *)
(* with all signatures.  The digests of the code are these values: they    *)
(* are compared exactly where the code compares digests.  A challenge that *)
(* expired or was consumed is no challenge.                                *)
(***************************************************************************)
EXTENDS Naturals, FiniteSets

CONSTANTS
    Participants,
    Utxos,        \* outputs the participants' wallets own
    Fees,         \* values VAULT_FUNDING_FEE_SATS may be given
    Witnesses,    \* signatures a wallet can make of one input
    Reasons,      \* reasons given for a restart
    Operators,    \* concurrent runs of the operator's command
    None,         \* NULL, or no row
    AskedIn,      \* bound: statuses in which a restart is asked for
    MaxRestarts,  \* bound: restarts in a behaviour
    MaxClaims     \* bound: submission claims in a behaviour

ASSUME ParticipantAssumption == IsFiniteSet(Participants) /\ Participants # {}

ASSUME BoundAssumption == MaxClaims \in Nat

VARIABLES
    vault,             \* vaults.status
    feeConfig,         \* fundingFeeSats() of the running deployment
    draft,             \* the commitment a createFundingInputChallenge holds
    inputChallenge,    \* funding_input_challenges
    inputs,            \* participant_funding_inputs
    sigChallenge,      \* funding_signature_challenges
    signed,            \* participant_funding_signatures
    final,             \* funding_finalizations: the exact bytes
    status,            \* funding_finalizations.status, "none" without a row
    started,           \* submission_started_at as a claim number, 0 for NULL
    finalChallenge,    \* funding_final_approval_challenges
    approvals,         \* funding_final_approvals
    restartChallenge,  \* funding_restart_challenges
    restartApprovals,  \* funding_restart_approvals
    restartEvents,     \* funding_restart_events
    attempt,           \* the operators' runs
    claims,            \* claims so far
    released           \* bytes the network has accepted

inputRows == <<inputChallenge, inputs>>
signatureRows == <<sigChallenge, signed>>
finalRow == <<final, status, started>>
approvalRows == <<finalChallenge, approvals>>
restartRows == <<restartChallenge, restartApprovals, restartEvents>>
ceremonyVars == <<vault, feeConfig, draft, inputRows, signatureRows,
                  approvalRows, restartRows>>
operatorVars == <<attempt, claims, released>>
fundingVars == <<ceremonyVars, finalRow, operatorVars>>

Nobody == [p \in Participants |-> None]
NoAttempt == [at |-> "idle"]

Init ==
    /\ vault = "ready"
    /\ feeConfig \in Fees
    /\ draft = Nobody
    /\ inputChallenge = Nobody
    /\ inputs = Nobody
    /\ sigChallenge = Nobody
    /\ signed = Nobody
    /\ final = None
    /\ status = "none"
    /\ started = 0
    /\ finalChallenge = Nobody
    /\ approvals = Nobody
    /\ restartChallenge = Nobody
    /\ restartApprovals = {}
    /\ restartEvents = {}
    /\ attempt = [o \in Operators |-> NoAttempt]
    /\ claims = 0
    /\ released = {}

Submitted == {"submitting", "broadcast", "confirmed"}
Restartable == {"none", "awaiting_approvals", "approved"}

Present == {p \in Participants : inputs[p] # None}
FeesAgree == \A p, q \in Present : inputs[p].fee = inputs[q].fee

(* getApprovedFundingPackageForVault returns and does not throw.           *)
PackageApproved == Present = Participants /\ FeesAgree

-----------------------------------------------------------------------------
(* The inputs.                                                             *)

(* The service is deployed again with another fee.                         *)
ConfigureFee(f) ==
    /\ f # feeConfig
    /\ feeConfig' = f
    /\ UNCHANGED <<vault, draft, inputRows, signatureRows, finalRow,
                   approvalRows, restartRows, operatorVars>>

(* Mutant: every challenge takes the deployment's fee.                     *)
ConfiguredFee == {feeConfig}

(* The fee of the first approved input, or the deployment's.               *)
CeremonyFee ==
    IF Present = {} THEN {feeConfig} ELSE {inputs[p].fee : p \in Present}

(* createFundingInputChallenge reads the vault and the ceremony's fee, and *)
(* asks the Bitcoin node about the output; its transaction comes later and *)
(* looks only at the participant's own row.                                *)
ReadCeremonyFee(p, u) ==
    /\ draft[p] = None
    /\ vault = "ready"
    /\ \E f \in CeremonyFee : draft' = [draft EXCEPT ![p] = [utxo |-> u, fee |-> f]]
    /\ UNCHANGED <<vault, feeConfig, inputRows, signatureRows, finalRow,
                   approvalRows, restartRows, operatorVars>>

CreateFundingInputChallenge(p) ==
    /\ draft[p] # None
    /\ draft' = [draft EXCEPT ![p] = None]
    /\ \/ inputs[p] = None /\ inputChallenge' = [inputChallenge EXCEPT ![p] = draft[p]]
       \/ UNCHANGED inputChallenge
    /\ UNCHANGED <<vault, feeConfig, inputs, signatureRows, finalRow,
                   approvalRows, restartRows, operatorVars>>

CompleteFundingInputChallenge(p) ==
    /\ vault = "ready"
    /\ inputChallenge[p] # None
    /\ inputs[p] = None
    /\ \A q \in Present : inputs[q].utxo # inputChallenge[p].utxo
    /\ inputs' = [inputs EXCEPT ![p] = inputChallenge[p]]
    /\ inputChallenge' = [inputChallenge EXCEPT ![p] = None]
    /\ UNCHANGED <<vault, feeConfig, draft, signatureRows, finalRow,
                   approvalRows, restartRows, operatorVars>>

-----------------------------------------------------------------------------
(* The signatures and the approval of the finalized bytes.                 *)

CreateFundingSignatureChallenge(p, w) ==
    /\ vault = "ready"
    /\ PackageApproved
    /\ signed[p] = None
    /\ sigChallenge' = [sigChallenge EXCEPT ![p] = [proposal |-> inputs, witness |-> w]]
    /\ UNCHANGED <<vault, feeConfig, draft, inputRows, signed, finalRow,
                   approvalRows, restartRows, operatorVars>>

(* The last signature stores the finalized bytes in the same transaction.  *)
CompleteFundingSignatureChallenge(p) ==
    LET rows == [signed EXCEPT ![p] = sigChallenge[p]] IN
    /\ vault = "ready"
    /\ PackageApproved
    /\ sigChallenge[p] # None
    /\ signed[p] = None
    /\ sigChallenge[p].proposal = inputs
    /\ signed' = rows
    /\ sigChallenge' = [sigChallenge EXCEPT ![p] = None]
    /\ IF \A q \in Participants : rows[q] # None /\ rows[q].proposal = inputs
       THEN /\ status = "none"
            /\ final' = [inputs |-> inputs, signatures |-> rows]
            /\ status' = "awaiting_approvals"
       ELSE UNCHANGED <<final, status>>
    /\ UNCHANGED <<vault, feeConfig, draft, inputRows, started,
                   approvalRows, restartRows, operatorVars>>

CreateFundingFinalApprovalChallenge(p) ==
    /\ vault = "ready"
    /\ PackageApproved
    /\ status = "awaiting_approvals"
    /\ approvals[p] = None
    /\ finalChallenge' = [finalChallenge EXCEPT ![p] = final]
    /\ UNCHANGED <<vault, feeConfig, draft, inputRows, signatureRows, finalRow,
                   approvals, restartRows, operatorVars>>

(* Mutant: one approval short of everyone's is enough.                     *)
MostApproved(rows) ==
    Cardinality({p \in Participants : rows[p] = final}) + 1 >= Cardinality(Participants)

EveryoneApproved(rows) == \A p \in Participants : rows[p] = final

CompleteFundingFinalApprovalChallenge(p) ==
    LET rows == [approvals EXCEPT ![p] = final] IN
    /\ vault = "ready"
    /\ status = "awaiting_approvals"
    /\ finalChallenge[p] = final
    /\ approvals[p] = None
    /\ finalChallenge' = [finalChallenge EXCEPT ![p] = None]
    /\ approvals' = rows
    /\ status' = IF EveryoneApproved(rows) THEN "approved" ELSE status
    /\ UNCHANGED <<vault, feeConfig, draft, inputRows, signatureRows, final,
                   started, restartRows, operatorVars>>

-----------------------------------------------------------------------------
(* The restart.                                                            *)

Snapshot == [inputs |-> inputs, signatures |-> signed, status |-> status]

CreateFundingRestartChallenge(p, r) ==
    /\ Cardinality(restartEvents) < MaxRestarts /\ status \in AskedIn
    /\ vault = "ready"
    /\ Present # {}
    /\ FeesAgree
    /\ status \in Restartable
    /\ [by |-> p, state |-> Snapshot, reason |-> r] \notin restartApprovals
    /\ restartChallenge' =
           [restartChallenge EXCEPT ![p] = [state |-> Snapshot, reason |-> r]]
    /\ UNCHANGED <<vault, feeConfig, draft, inputRows, signatureRows, finalRow,
                   approvalRows, restartApprovals, restartEvents, operatorVars>>

(* Mutant: the approvals of one state are counted, whatever their reasons. *)
SomeReason(rows, request) ==
    \A p \in Participants : \E a \in rows : a.by = p /\ a.state = request.state

Unanimous(rows, request) ==
    \A p \in Participants :
        [by |-> p, state |-> request.state, reason |-> request.reason] \in rows

(* The last approval of one exact state and reason clears every row of the *)
(* ceremony and records the event; an identical event aborts it.           *)
CompleteFundingRestartChallenge(p) ==
    LET request == restartChallenge[p]
        approval == [by |-> p, state |-> request.state, reason |-> request.reason]
        rows == restartApprovals \cup {approval}
    IN
    /\ vault = "ready"
    /\ request # None
    /\ request.state = Snapshot
    /\ approval \notin restartApprovals
    /\ \/ /\ ~Unanimous(rows, request)
          /\ restartApprovals' = rows
          /\ restartChallenge' = [restartChallenge EXCEPT ![p] = None]
          /\ UNCHANGED <<inputRows, signatureRows, finalRow, approvalRows, restartEvents>>
       \/ /\ Unanimous(rows, request)
          /\ request \notin restartEvents
          /\ restartEvents' = restartEvents \cup {request}
          /\ inputChallenge' = Nobody /\ inputs' = Nobody
          /\ sigChallenge' = Nobody /\ signed' = Nobody
          /\ final' = None /\ status' = "none" /\ started' = 0
          /\ finalChallenge' = Nobody /\ approvals' = Nobody
          /\ restartChallenge' = Nobody /\ restartApprovals' = {}
    /\ UNCHANGED <<vault, feeConfig, draft, operatorVars>>

(* Five minutes pass.                                                      *)
ChallengeExpires(p) ==
    /\ \/ /\ inputChallenge[p] # None
          /\ inputChallenge' = [inputChallenge EXCEPT ![p] = None]
          /\ UNCHANGED <<sigChallenge, finalChallenge, restartChallenge>>
       \/ /\ sigChallenge[p] # None
          /\ sigChallenge' = [sigChallenge EXCEPT ![p] = None]
          /\ UNCHANGED <<inputChallenge, finalChallenge, restartChallenge>>
       \/ /\ finalChallenge[p] # None
          /\ finalChallenge' = [finalChallenge EXCEPT ![p] = None]
          /\ UNCHANGED <<inputChallenge, sigChallenge, restartChallenge>>
       \/ /\ restartChallenge[p] # None
          /\ restartChallenge' = [restartChallenge EXCEPT ![p] = None]
          /\ UNCHANGED <<inputChallenge, sigChallenge, finalChallenge>>
    /\ UNCHANGED <<vault, feeConfig, draft, inputs, signed, finalRow, approvals,
                   restartApprovals, restartEvents, operatorVars>>

-----------------------------------------------------------------------------
(* The operator's command.                                                 *)

(* submitPasskeyApprovedFunding rebuilds the bytes from the rows and       *)
(* requires everyone's approval of them; what is already broadcast is      *)
(* only looked up again.                                                   *)
OperatorReads(o) ==
    /\ attempt[o].at = "idle"
    /\ status \in {"approved", "submitting"}
    /\ PackageApproved
    /\ final = [inputs |-> inputs, signatures |-> signed]
    /\ EveryoneApproved(approvals)
    /\ attempt' = [attempt EXCEPT ![o] = [at |-> "claim", bytes |-> final]]
    /\ UNCHANGED <<ceremonyVars, finalRow, claims, released>>

Ends(o) == attempt' = [attempt EXCEPT ![o] = NoAttempt]

(* Under the vault's lock: a fresh claim, or a claim somebody left behind. *)
OperatorClaims(o) ==
    LET bytes == attempt[o].bytes IN
    /\ attempt[o].at = "claim"
    /\ \/ /\ vault = "ready" /\ final = bytes /\ status = "approved"
          /\ claims < MaxClaims
          /\ claims' = claims + 1
          /\ status' = "submitting"
          /\ started' = claims'
          /\ attempt' = [attempt EXCEPT ![o] =
                [at |-> "preflight", bytes |-> bytes, mine |-> claims', maySend |-> FALSE]]
       \/ /\ vault = "ready" /\ final = bytes /\ status = "submitting"
          /\ attempt' = [attempt EXCEPT ![o] =
                [at |-> "look", bytes |-> bytes, mine |-> started, maySend |-> TRUE]]
          /\ UNCHANGED <<status, started, claims>>
       \/ /\ vault # "ready" \/ final # bytes \/ status \notin {"approved", "submitting"}
          /\ Ends(o)
          /\ UNCHANGED <<status, started, claims>>
    /\ UNCHANGED <<ceremonyVars, final, released>>

(* fundingObservedOnBackend: an RPC error counts as not seen.              *)
ObservedAnswers(bytes) == IF bytes \in released THEN {TRUE, FALSE} ELSE {FALSE}

Goes(o, place) == attempt' = [attempt EXCEPT ![o].at = place]

(* Not seen: another run owns the claim until it is ten minutes old.       *)
OperatorLooks(o) ==
    /\ attempt[o].at = "look"
    /\ \E seen \in ObservedAnswers(attempt[o].bytes) :
          IF seen THEN Goes(o, "mark") ELSE Goes(o, "reclaim") \/ Ends(o)
    /\ UNCHANGED <<ceremonyVars, finalRow, claims, released>>

(* The row still holds these bytes, being submitted under this claim.      *)
OwnsClaim(a) == final = a.bytes /\ status = "submitting" /\ started = a.mine

(* Mutant: a claim is known by its bytes alone.                            *)
OwnsBytes(a) == final = a.bytes /\ status = "submitting"

Owns(a) == OwnsClaim(a)

(* Mutant: a run that took over a claim does not inherit its uncertainty.  *)
FreshEachTime(a) == FALSE

Inherited(a) == a.maySend

OperatorReclaims(o) ==
    /\ attempt[o].at = "reclaim"
    /\ IF Owns(attempt[o])
       THEN /\ claims < MaxClaims
            /\ claims' = claims + 1
            /\ started' = claims'
            /\ attempt' = [attempt EXCEPT ![o].at = "preflight", ![o].mine = claims',
                                          ![o].maySend = Inherited(attempt[o])]
       ELSE Ends(o) /\ UNCHANGED <<claims, started>>
    /\ UNCHANGED <<ceremonyVars, final, status, released>>

(* testmempoolaccept allows the bytes, rejects them or does not answer.    *)
OperatorPreflights(o) ==
    /\ attempt[o].at = "preflight"
    /\ \/ attempt' = [attempt EXCEPT ![o].at = "send", ![o].maySend = TRUE]
       \/ Goes(o, "fail")
    /\ UNCHANGED <<ceremonyVars, finalRow, claims, released>>

(* sendrawtransaction: the answer may be lost, the call may not arrive.    *)
OperatorSends(o) ==
    /\ attempt[o].at = "send"
    /\ \/ /\ released' = released \cup {attempt[o].bytes}
          /\ Goes(o, "mark") \/ Goes(o, "fail")
       \/ /\ released' = released
          /\ Goes(o, "fail")
    /\ UNCHANGED <<ceremonyVars, finalRow, claims>>

OperatorMarks(o) ==
    /\ attempt[o].at = "mark"
    /\ status' = IF final = attempt[o].bytes /\ status = "submitting"
                 THEN "broadcast" ELSE status
    /\ Ends(o)
    /\ UNCHANGED <<ceremonyVars, final, started, claims, released>>

(* The catch: seen after all, or the failure is recorded on the row.  Only *)
(* a fresh run that sent nothing and still owns its claim frees it.        *)
OperatorFails(o) ==
    LET a == attempt[o] IN
    /\ a.at = "fail"
    /\ \E seen \in ObservedAnswers(a.bytes) :
          IF seen THEN Goes(o, "mark") /\ UNCHANGED <<status, started>>
          ELSE /\ Ends(o)
               /\ IF Owns(a) /\ ~a.maySend
                  THEN status' = "approved" /\ started' = 0
                  ELSE UNCHANGED <<status, started>>
    /\ UNCHANGED <<ceremonyVars, final, claims, released>>

(* The operator's machine stops, or its connection to the database fails.  *)
OperatorDies(o) ==
    /\ attempt[o].at # "idle"
    /\ Ends(o)
    /\ UNCHANGED <<ceremonyVars, finalRow, claims, released>>

-----------------------------------------------------------------------------
(* The watcher.                                                            *)

(* recordFundingConfirmation: the transaction is buried deep enough.       *)
ConfirmFunding ==
    /\ vault = "ready"
    /\ status = "broadcast"
    /\ final = [inputs |-> inputs, signatures |-> signed]
    /\ EveryoneApproved(approvals)
    /\ final \in released
    /\ vault' = "active"
    /\ status' = "confirmed"
    /\ UNCHANGED <<feeConfig, draft, inputRows, signatureRows, approvalRows,
                   restartRows, final, started, operatorVars>>

(* rollbackReorganizedFunding: the block that held it left the chain.      *)
RollbackFunding ==
    /\ vault = "active"
    /\ status = "confirmed"
    /\ vault' = "ready"
    /\ status' = "broadcast"
    /\ UNCHANGED <<feeConfig, draft, inputRows, signatureRows, approvalRows,
                   restartRows, final, started, operatorVars>>

-----------------------------------------------------------------------------
Committing(p) ==
    \/ \E u \in Utxos : ReadCeremonyFee(p, u)
    \/ CreateFundingInputChallenge(p)
    \/ CompleteFundingInputChallenge(p)

Approving(p) ==
    \/ \E w \in Witnesses : CreateFundingSignatureChallenge(p, w)
    \/ CompleteFundingSignatureChallenge(p)
    \/ CreateFundingFinalApprovalChallenge(p)
    \/ CompleteFundingFinalApprovalChallenge(p)

Restarting(p) ==
    \/ \E r \in Reasons : CreateFundingRestartChallenge(p, r)
    \/ CompleteFundingRestartChallenge(p)

Submitting(o) ==
    \/ OperatorReads(o) \/ OperatorClaims(o) \/ OperatorLooks(o)
    \/ OperatorReclaims(o) \/ OperatorPreflights(o) \/ OperatorSends(o)
    \/ OperatorMarks(o) \/ OperatorFails(o) \/ OperatorDies(o)

Next ==
    \/ \E p \in Participants :
          Committing(p) \/ Approving(p) \/ Restarting(p) \/ ChallengeExpires(p)
    \/ \E o \in Operators : Submitting(o)
    \/ ConfirmFunding
    \/ RollbackFunding
    \/ \E f \in Fees : ConfigureFee(f)

FundingSpec == Init /\ [][Next]_fundingVars

(* Steps of a steady deployment: nobody's createFundingInputChallenge is    *)
(* under way while a restart ends, and the fee changes only between the    *)
(* requests for an input.                                                  *)
Steady ==
    /\ restartEvents' # restartEvents => draft = Nobody
    /\ feeConfig' # feeConfig => draft = Nobody /\ inputChallenge = Nobody

-----------------------------------------------------------------------------
Commitment == [utxo : Utxos, fee : Fees]
Package == [Participants -> Commitment \cup {None}]
Signature == [proposal : Package, witness : Witnesses]
Signatures == [Participants -> Signature \cup {None}]
Bytes == [inputs : Package, signatures : Signatures]
Statuses == Restartable \cup Submitted
State == [inputs : Package, signatures : Signatures, status : Restartable]
Claiming == [at : {"claim"}, bytes : Bytes]
Running ==
    [at : {"look", "reclaim", "preflight", "send", "mark", "fail"},
     bytes : Bytes, mine : 0 .. MaxClaims, maySend : BOOLEAN]

FundingTypeOK ==
    /\ vault \in {"ready", "active"}
    /\ feeConfig \in Fees
    /\ {draft, inputChallenge, inputs} \subseteq Package
    /\ {sigChallenge, signed} \subseteq Signatures
    /\ final \in Bytes \cup {None}
    /\ status \in Statuses
    /\ started \in 0 .. claims
    /\ {finalChallenge, approvals} \subseteq [Participants -> Bytes \cup {None}]
    /\ restartChallenge \in [Participants -> [state : State, reason : Reasons] \cup {None}]
    /\ restartApprovals \subseteq [by : Participants, state : State, reason : Reasons]
    /\ restartEvents \subseteq [state : State, reason : Reasons]
    /\ attempt \in [Operators -> {NoAttempt} \cup Claiming \cup Running]
    /\ claims \in 0 .. MaxClaims
    /\ released \subseteq Bytes

(* Bytes the network may hold are the finalized bytes on record, and the   *)
(* record says that they were submitted: no restart and no other           *)
(* ceremony ever replaces them, whatever two runs of the operator's        *)
(* command, a lost answer, a crash or a reorganization do.                 *)
SentIsPinned == \A bytes \in released : final = bytes /\ status \in Submitted

(* What the operator may submit was approved by every participant, byte    *)
(* for byte, over signatures that every participant made of these inputs.  *)
UnanimousExactBytes ==
    status \in {"approved"} \cup Submitted =>
        /\ final = [inputs |-> inputs, signatures |-> signed]
        /\ \A p \in Participants : signed[p] # None /\ signed[p].proposal = inputs
        /\ \A p \in Participants : approvals[p] = final

(* A participant's committed input is forgotten only when everybody        *)
(* approved, of the state as it is now and for one reason, to start over,  *)
(* and nothing was handed to the operator's submission.                    *)
RestartIsUnanimous ==
    [][\A p \in Participants : inputs[p] # None /\ inputs'[p] # inputs[p] =>
          /\ status \in Restartable
          /\ \E last \in Participants, r \in Reasons :
                /\ restartChallenge[last] = [state |-> Snapshot, reason |-> r]
                /\ \A q \in Participants \ {last} :
                      [by |-> q, state |-> Snapshot, reason |-> r] \in restartApprovals]_fundingVars

(* A submission is given back to the participants only if its bytes were   *)
(* never sent and no run is about to send them: an old run that fails does *)
(* not free the claim of a newer one (recordFundingSubmissionFailure).     *)
SubmissionFreedOnlyUnsent ==
    [][(status \in Submitted /\ status' \notin Submitted) =>
          /\ released = {}
          /\ \A o \in Operators : attempt'[o].at \notin {"preflight", "send"}]_fundingVars

(* While nothing was handed to the operator, the participants can still    *)
(* start over: createFundingRestartChallenge loads the ceremony's status,  *)
(* which throws when the committed inputs approve different fees.          *)
RestartStaysOpen ==
    vault = "ready" /\ Present # {} /\ status \in Restartable => FeesAgree
=============================================================================
