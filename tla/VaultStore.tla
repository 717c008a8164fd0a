----------------------------- MODULE VaultStore -----------------------------
(***************************************************************************)
(* The persistent state of one funded vault and every database transaction *)
(* that changes it: web/lib/server/vault-runtime-store.ts together with    *)
(* web/lib/server/chain-reorganization-store.ts.  One action is one        *)
(* transaction, and its guard is the conjunction of the conditions under   *)
(* which that transaction commits; what the Bitcoin backend said before it *)
(* is left open here and added by module ChainWatcher.                     *)
(*                                                                         *)
(* A vault coin is the one vault output of a transaction, so a coin is     *)
(* named by the transaction that creates it.  For one coin, one kind of    *)
(* exit and one acting participant the unsigned transaction is             *)
(* deterministic (buildVaultProposal), so a proposal is named by the spend *)
(* it would make: prop[t] is the latest row proposing t.  Its signatures   *)
(* are not deterministic: version[t] counts the signed byte strings that   *)
(* rows proposing t have been finalized with.                              *)
(***************************************************************************)
EXTENDS Naturals, FiniteSets

CONSTANTS
    FundingTx,    \* the funding transaction, creator of the first coin
    Spends,       \* the spends the roster fixed in advance
    Terminal,     \* cooperative, recovery and final-sweep spends: no next coin
    InputOf,      \* the coin each spend consumes
    Blocks,       \* block hashes, the anchors of a confirmation
    NoBlock,      \* a NULL confirmed_block_hash
    MaxVersions   \* bound: signed byte strings per spend

Txs == {FundingTx} \cup Spends
Coins == Txs \ Terminal
NoTx == "none"    \* a NULL spent_by_txid

ASSUME FundingAssumption == FundingTx \notin Spends
ASSUME TerminalAssumption == Terminal \subseteq Spends
ASSUME InputAssumption == InputOf \in [Spends -> Coins]
ASSUME AcyclicAssumption ==   \* a transaction commits to the txid it spends
    \A S \in SUBSET Spends : S # {} => \E t \in S : InputOf[t] \notin S
ASSUME NoTxAssumption == NoTx \notin Spends
ASSUME BlockAssumption == NoBlock \notin Blocks
ASSUME VersionAssumption == MaxVersions \in Nat

VARIABLES
    vault,      \* vaults.status
    funding,    \* funding_finalizations.status
    coin,       \* vault_coins.status, "absent" when there is no row
    spentBy,    \* vault_coins.spent_by_txid
    prop,       \* vault_transaction_proposals.status, "none" when no row
    expired,    \* the live proposal is past its expires_at
    version,    \* which signed bytes finalized_tx_hex holds
    approval,   \* vault_broadcast_approvals.status of that proposal
    observed,   \* a required signer has a fresh observation of the coin
    anchor      \* confirmed_block_hash of the funding or the proposal

Live == {"collecting", "finalized", "broadcast"}
Unsent == {"collecting", "finalized"}
Authorized == {"approved", "submitting", "broadcast"}
Recorded == {"current", "spent"}

vars == <<vault, funding, coin, spentBy, prop, expired, version, approval,
          observed, anchor>>

TypeOK ==
    /\ vault \in {"ready", "active", "closed"}
    /\ funding \in {"broadcast", "confirmed"}
    /\ coin \in [Coins -> {"absent", "current", "spent", "orphaned"}]
    /\ spentBy \in [Coins -> Spends \cup {NoTx}]
    /\ prop \in [Spends -> {"none", "collecting", "finalized", "broadcast",
                            "confirmed", "stale"}]
    /\ expired \in [Spends -> BOOLEAN]
    /\ version \in [Spends -> 0 .. MaxVersions]
    /\ approval \in [Spends -> {"none", "pending", "approved", "submitting",
                                "broadcast", "failed"}]
    /\ observed \in [Coins -> BOOLEAN]
    /\ anchor \in [Txs -> Blocks \cup {NoBlock}]

(* The operator gate has submitted the funding transaction of a vault that *)
(* passed its readiness check: nothing is confirmed, nothing is proposed.  *)
Init ==
    /\ vault = "ready"
    /\ funding = "broadcast"
    /\ coin = [c \in Coins |-> "absent"]
    /\ spentBy = [c \in Coins |-> NoTx]
    /\ prop = [t \in Spends |-> "none"]
    /\ expired = [t \in Spends |-> FALSE]
    /\ version = [t \in Spends |-> 0]
    /\ approval = [t \in Spends |-> "none"]
    /\ observed = [c \in Coins |-> FALSE]
    /\ anchor = [t \in Txs |-> NoBlock]

Children(c) == {t \in Spends : InputOf[t] = c}
Confirmed(t) == prop[t] = "confirmed"

-----------------------------------------------------------------------------
(* Requests of the participants.                                           *)

(* A passkey signs an independent chain source's view of the current coin. *)
ObserveCoin(c) ==
    /\ coin[c] = "current"
    /\ observed' = [observed EXCEPT ![c] = TRUE]
    /\ UNCHANGED <<vault, funding, coin, spentBy, prop, expired, version,
                   approval, anchor>>

(* Five minutes pass: assertFreshVaultObservation rejects what is stored.  *)
ObservationAges(c) ==
    /\ observed[c]
    /\ observed' = [observed EXCEPT ![c] = FALSE]
    /\ UNCHANGED <<vault, funding, coin, spentBy, prop, expired, version,
                   approval, anchor>>

(* Mutant: expiry alone retires a proposal, approved or not.               *)
RetiredByExpiry(c) == {t \in Children(c) : prop[t] \in Unsent /\ expired[t]}

(* Proposals on coin c that a new proposal on c retires: past their expiry *)
(* and without an approval anyone has already completed.                   *)
Retired(c) ==
    {t \in Children(c) : /\ prop[t] \in Unsent
                         /\ expired[t]
                         /\ approval[t] \notin Authorized}

CreateProposal(t) ==
    LET c == InputOf[t] IN
    /\ coin[c] = "current"
    /\ observed[c]
    /\ prop[t] \notin Live \/ t \in Retired(c)
    /\ prop' = [s \in Spends |-> IF s = t THEN "collecting"
                                 ELSE IF s \in Retired(c) THEN "stale"
                                 ELSE prop[s]]
    /\ expired' = [expired EXCEPT ![t] = FALSE]
    /\ approval' = [approval EXCEPT ![t] = "none"]
    /\ UNCHANGED <<vault, funding, coin, spentBy, version, observed, anchor>>

ProposalExpires(t) ==
    /\ prop[t] \in Unsent
    /\ ~expired[t]
    /\ expired' = [expired EXCEPT ![t] = TRUE]
    /\ UNCHANGED <<vault, funding, coin, spentBy, prop, version, approval,
                   observed, anchor>>

(* The last missing signature arrives and the signed bytes are stored.     *)
Finalize(t) ==
    /\ prop[t] = "collecting"
    /\ ~expired[t]
    /\ coin[InputOf[t]] = "current"
    /\ version[t] < MaxVersions
    /\ prop' = [prop EXCEPT ![t] = "finalized"]
    /\ version' = [version EXCEPT ![t] = @ + 1]
    /\ UNCHANGED <<vault, funding, coin, spentBy, expired, approval, observed,
                   anchor>>

Approvable(t) ==
    /\ prop[t] = "finalized"
    /\ ~expired[t]
    /\ coin[InputOf[t]] = "current"

(* The unique index on live approvals makes the insert fail while another  *)
(* challenge for the proposal is authorized; a pending one that expired or *)
(* is the caller's own is deleted first.                                   *)
CreateBroadcastApprovalChallenge(t) ==
    /\ Approvable(t)
    /\ vault = "active"
    /\ approval[t] \notin Authorized
    /\ approval' = [approval EXCEPT ![t] = "pending"]
    /\ UNCHANGED <<vault, funding, coin, spentBy, prop, expired, version,
                   observed, anchor>>

CompleteBroadcastApproval(t) ==
    /\ Approvable(t)
    /\ approval[t] = "pending"
    /\ approval' = [approval EXCEPT ![t] = "approved"]
    /\ UNCHANGED <<vault, funding, coin, spentBy, prop, expired, version,
                   observed, anchor>>

-----------------------------------------------------------------------------
(* Submission: the two writes of submitApprovedBroadcast around the send.  *)

ClaimBroadcast(t) ==
    /\ approval[t] = "approved"
    /\ approval' = [approval EXCEPT ![t] = "submitting"]
    /\ UNCHANGED <<vault, funding, coin, spentBy, prop, expired, version,
                   observed, anchor>>

MarkBroadcast(t) ==
    /\ prop[t] = "finalized"
    /\ approval[t] = "submitting"
    /\ prop' = [prop EXCEPT ![t] = "broadcast"]
    /\ approval' = [approval EXCEPT ![t] = "broadcast"]
    /\ UNCHANGED <<vault, funding, coin, spentBy, expired, version, observed,
                   anchor>>

-----------------------------------------------------------------------------
(* The chain watcher's transactions.                                       *)

(* Mutant: the row of a coin that was orphaned is not used again.          *)
RecordableOnce(c) == coin[c] = "absent"

(* A coin's row is inserted, or reused after a rolled back confirmation.   *)
Recordable(c) == coin[c] \in {"absent", "orphaned"}

RecordConfirmedFunding(b) ==
    /\ vault = "ready"
    /\ funding = "broadcast"
    /\ \A c \in Coins : coin[c] # "current"
    /\ Recordable(FundingTx)
    /\ vault' = "active"
    /\ funding' = "confirmed"
    /\ coin' = [coin EXCEPT ![FundingTx] = "current"]
    /\ anchor' = [anchor EXCEPT ![FundingTx] = b]
    /\ UNCHANGED <<spentBy, prop, expired, version, approval, observed>>

(* Mutants: the input's status is not compared with "current"; the         *)
(* proposal's is not compared with "broadcast".                            *)
ConfirmableWhenSpent(t) == prop[t] = "broadcast" /\ coin[InputOf[t]] \in Recorded
ConfirmableUnsent(t) ==
    prop[t] \in {"finalized", "broadcast"} /\ coin[InputOf[t]] = "current"

Confirmable(t) == prop[t] = "broadcast" /\ coin[InputOf[t]] = "current"

RecordConfirmedProposal(t, b) ==
    LET c == InputOf[t] IN
    /\ Confirmable(t)
    /\ IF t \in Terminal
       THEN /\ vault = "active"
            /\ vault' = "closed"
            /\ coin' = [coin EXCEPT ![c] = "spent"]
       ELSE /\ Recordable(t)
            /\ coin' = [coin EXCEPT ![c] = "spent", ![t] = "current"]
            /\ UNCHANGED vault
    /\ spentBy' = [spentBy EXCEPT ![c] = t]
    /\ prop' = [prop EXCEPT ![t] = "confirmed"]
    /\ anchor' = [anchor EXCEPT ![t] = b]
    /\ UNCHANGED <<funding, expired, version, approval, observed>>

ReanchorFunding(prior, b) ==
    /\ funding = "confirmed"
    /\ anchor[FundingTx] = prior
    /\ b # prior
    /\ coin[FundingTx] \in Recorded
    /\ anchor' = [anchor EXCEPT ![FundingTx] = b]
    /\ UNCHANGED <<vault, funding, coin, spentBy, prop, expired, version,
                   approval, observed>>

ReanchorTransition(t, prior, b) ==
    /\ Confirmed(t)
    /\ anchor[t] = prior
    /\ b # prior
    /\ anchor' = [anchor EXCEPT ![t] = b]
    /\ UNCHANGED <<vault, funding, coin, spentBy, prop, expired, version,
                   approval, observed>>

(* Mutants: a rollback also stales what was already broadcast; it leaves   *)
(* the signed children alone.                                              *)
StaleLive(c) == {t \in Children(c) : prop[t] \in Live}
StaleUnsigned(c) == {t \in Children(c) : prop[t] = "collecting"}

(* staleUnsignedChildren: every proposal on the orphaned coin that is not  *)
(* yet recorded as broadcast, with its approvals.                          *)
StaleUnsent(c) == {t \in Children(c) : prop[t] \in Unsent}

StaledProposals(c) ==
    [t \in Spends |-> IF t \in StaleUnsent(c) THEN "stale" ELSE prop[t]]

Dropped(status) ==
    IF status = "pending" THEN "none"
    ELSE IF status \in {"approved", "submitting"} THEN "failed"
    ELSE status

StaledApprovals(c) ==
    [t \in Spends |-> IF t \in StaleUnsent(c) THEN Dropped(approval[t])
                      ELSE approval[t]]

RollbackFunding(prior) ==
    /\ funding = "confirmed"
    /\ anchor[FundingTx] = prior
    /\ \A t \in Spends : ~Confirmed(t)
    /\ coin[FundingTx] = "current"
    /\ vault = "active"
    /\ prop' = StaledProposals(FundingTx)
    /\ approval' = StaledApprovals(FundingTx)
    /\ observed' = [observed EXCEPT ![FundingTx] = FALSE]
    /\ coin' = [coin EXCEPT ![FundingTx] = "orphaned"]
    /\ funding' = "broadcast"
    /\ vault' = "ready"
    /\ anchor' = [anchor EXCEPT ![FundingTx] = NoBlock]
    /\ UNCHANGED <<spentBy, expired, version>>

(* A terminal spend has no successor row; any other successor must be the  *)
(* current coin, or the transaction throws.  No coin is the child of a     *)
(* terminal spend, so staling its children changes nothing.                *)
RollbackTransition(t, prior) ==
    LET c == InputOf[t] IN
    /\ Confirmed(t)
    /\ anchor[t] = prior
    /\ \/ /\ t \in Terminal
          /\ coin' = [coin EXCEPT ![c] = "current"]
          /\ UNCHANGED observed
       \/ /\ t \notin Terminal
          /\ coin[t] = "current"
          /\ coin' = [coin EXCEPT ![t] = "orphaned", ![c] = "current"]
          /\ observed' = [observed EXCEPT ![t] = FALSE]
    /\ coin[c] = "spent"
    /\ spentBy[c] = t
    /\ vault \in {"active", "closed"}
    /\ vault' = "active"
    /\ spentBy' = [spentBy EXCEPT ![c] = NoTx]
    /\ prop' = [StaledProposals(t) EXCEPT ![t] = "broadcast"]
    /\ approval' = StaledApprovals(t)
    /\ anchor' = [anchor EXCEPT ![t] = NoBlock]
    /\ UNCHANGED <<funding, expired, version>>

-----------------------------------------------------------------------------
Request ==
    \/ \E c \in Coins : ObserveCoin(c) \/ ObservationAges(c)
    \/ \E t \in Spends : \/ CreateProposal(t)
                         \/ ProposalExpires(t)
                         \/ Finalize(t)
                         \/ CreateBroadcastApprovalChallenge(t)
                         \/ CompleteBroadcastApproval(t)

Submission == \E t \in Spends : ClaimBroadcast(t) \/ MarkBroadcast(t)

Watch ==
    \/ \E b \in Blocks : RecordConfirmedFunding(b)
    \/ \E t \in Spends, b \in Blocks : RecordConfirmedProposal(t, b)
    \/ \E prior, b \in Blocks : ReanchorFunding(prior, b)
    \/ \E t \in Spends, prior, b \in Blocks : ReanchorTransition(t, prior, b)
    \/ \E prior \in Blocks : RollbackFunding(prior)
    \/ \E t \in Spends, prior \in Blocks : RollbackTransition(t, prior)

Next == Request \/ Submission \/ Watch

Spec == Init /\ [][Next]_vars

-----------------------------------------------------------------------------
(* The lineage invariant, in named parts.  Together they say that the rows *)
(* of a vault always describe one unbroken chain of confirmed transactions *)
(* from the funding to a single tip, whatever order requests, submissions, *)
(* confirmations and rollbacks commit in.                                  *)

(* A coin is recorded as on the chain exactly when the transaction that    *)
(* creates it is confirmed.                                                *)
CreatorConfirmed(c) ==
    IF c = FundingTx THEN funding = "confirmed" ELSE Confirmed(c)

CoinOnChain == \A c \in Coins : coin[c] \in Recorded <=> CreatorConfirmed(c)

(* A coin is spent exactly by the one confirmed spend of it.               *)
SpentByConfirmed ==
    /\ \A c \in Coins : coin[c] = "spent" <=> spentBy[c] # NoTx
    /\ \A t \in Spends : Confirmed(t) <=> spentBy[InputOf[t]] = t
    /\ \A c \in Coins : spentBy[c] # NoTx => InputOf[spentBy[c]] = c

(* The unique index on current coins never aborts a transaction, and the   *)
(* vault's status says where the tip is: no current coin before funding    *)
(* and after a terminal exit, exactly one in between.                      *)
SingleTip ==
    /\ \A c, d \in Coins : coin[c] = "current" /\ coin[d] = "current" => c = d
    /\ \A s, t \in Terminal : Confirmed(s) /\ Confirmed(t) => s = t
    /\ vault = "active" <=> \E c \in Coins : coin[c] = "current"
    /\ vault = "closed" <=> \E t \in Terminal : Confirmed(t)
    /\ vault = "ready" <=> funding = "broadcast"

(* Nothing is proposed on a coin that was never recorded, and nothing that *)
(* could still be signed or approved is left on an orphaned one.           *)
NoProposalOnOrphan ==
    \A t \in Spends :
        /\ prop[t] # "none" => coin[InputOf[t]] # "absent"
        /\ prop[t] \in Unsent => coin[InputOf[t]] \in Recorded

(* Whatever is tracked on the chain carries a completed passkey approval   *)
(* of signed bytes, and no approval outlives the row it approves.          *)
ApprovedBeforeTracked ==
    \A t \in Spends :
        /\ prop[t] \in {"broadcast", "confirmed"} <=> approval[t] = "broadcast"
        /\ approval[t] \in {"approved", "submitting"} => prop[t] = "finalized"
        /\ prop[t] \in {"finalized", "broadcast", "confirmed"} => version[t] > 0

AnchoredIffConfirmed ==
    /\ anchor[FundingTx] # NoBlock <=> funding = "confirmed"
    /\ \A t \in Spends : anchor[t] # NoBlock <=> Confirmed(t)

Lineage ==
    /\ CoinOnChain
    /\ SpentByConfirmed
    /\ SingleTip
    /\ NoProposalOnOrphan
    /\ ApprovedBeforeTracked
    /\ AnchoredIffConfirmed

(* The deepest confirmed transaction can always be rolled back: none of    *)
(* the "impossible" errors of chain-reorganization-store.ts is reachable   *)
(* when the chain removes it.                                              *)
RollbackNeverStuck ==
    /\ funding = "confirmed" /\ (\A t \in Spends : ~Confirmed(t)) =>
          vault = "active" /\ coin[FundingTx] = "current"
    /\ \A t \in Spends :
          Confirmed(t) /\ (\A s \in Spends : Confirmed(s) => InputOf[s] # t) =>
             /\ t \notin Terminal => coin[t] = "current"
             /\ coin[InputOf[t]] = "spent" /\ spentBy[InputOf[t]] = t
             /\ vault \in {"active", "closed"}

(* A spend that was once recorded as broadcast stays tracked, with the     *)
(* same bytes, through every rollback: a reorganization returns it from    *)
(* "confirmed" to "broadcast" and never further.                           *)
BroadcastStaysTracked ==
    [][\A t \in Spends :
          prop[t] \in {"broadcast", "confirmed"} =>
             /\ prop'[t] \in {"broadcast", "confirmed"}
             /\ version'[t] = version[t]]_vars

(* An approval a participant completed is not dropped by expiry, by a new  *)
(* proposal or by a competing spend: only orphaning its input coin drops   *)
(* it.                                                                     *)
AuthorizedIntentKept ==
    [][\A t \in Spends :
          approval[t] \in {"approved", "submitting"} =>
             \/ approval'[t] \in Authorized /\ prop'[t] \in {"finalized", "broadcast"}
             \/ coin'[InputOf[t]] = "orphaned"]_vars

(* A coin leaves the tip only to the successor of the one spend that is    *)
(* confirmed in the same transaction, or back to the coin that spend       *)
(* consumed: no step moves value sideways between competing spends.        *)
TipMovesAlongOneSpend ==
    [][\A c, d \in Coins :
          c # d /\ coin[c] = "current" /\ coin'[d] = "current" =>
             \/ d \in Spends /\ InputOf[d] = c /\ prop[d] = "broadcast" /\ Confirmed(d)'
             \/ c \in Spends /\ InputOf[c] = d /\ Confirmed(c) /\ prop'[c] = "broadcast"]_vars

-----------------------------------------------------------------------------
(* The rows implement the promise of module VaultLineage.  The tip is the  *)
(* current coin's transaction, or the terminal spend once the vault is     *)
(* closed; a coin has been reached once it has a row; a spend is           *)
(* authorized from the moment it is tracked as broadcast.                  *)
ConfirmedTip ==
    IF vault = "ready" THEN "unfunded"
    ELSE IF vault = "closed" THEN CHOOSE t \in Terminal : Confirmed(t)
    ELSE CHOOSE c \in Coins : coin[c] = "current"

ReachedCoins == {c \in Coins : coin[c] # "absent"}
TrackedSpends == {t \in Spends : prop[t] \in {"broadcast", "confirmed"}}

Promise == INSTANCE VaultLineage
    WITH tip <- ConfirmedTip, reached <- ReachedCoins, authorized <- TrackedSpends

(* Every transaction of the store is a step of the promise or changes      *)
(* nothing in it.                                                          *)
ImplementsLineage == Promise!LineageSpec
=============================================================================
