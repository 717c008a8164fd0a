------------------------- MODULE ChainWatcherProofs -------------------------
(***************************************************************************)
(* Proofs about modules VaultStore and ChainWatcher, for any number of     *)
(* spends, any spend graph, any depth of confirmation and any number of    *)
(* reorganizations of any length.  The first part is about the store on    *)
(* its own, whatever order its transactions come in: its inductive         *)
(* invariant is IInv, types and lineage, and everything else follows from  *)
(* it.  The second part is about the watcher's runs over the store.  Its   *)
(* last section, the poll's rollbacks, is about runs with one              *)
(* reorganization, again of any length: the property fails with two.       *)
(***************************************************************************)
EXTENDS ChainWatcher, SequenceTheorems, FiniteSetTheorems, TLAPS

-----------------------------------------------------------------------------
(* The store.                                                              *)

(* The store's inductive invariant.                                        *)
IInv == TypeOK /\ Lineage

USE DEF Txs, Coins

(* The constants' assumptions in the form the steps below cite.            *)
LEMMA Constants ==
    /\ FundingTx \in Coins
    /\ FundingTx \notin Spends
    /\ Terminal \subseteq Spends
    /\ \A t \in Spends : InputOf[t] \in Coins /\ InputOf[t] # t
    /\ NoTx \notin Spends
    /\ NoBlock \notin Blocks
    /\ MaxVersions \in Nat
    /\ InputOf \in [Spends -> Coins]
<1>1. ASSUME NEW t \in Spends PROVE InputOf[t] # t
  <2>1. {t} \in SUBSET Spends /\ {t} # {}
    OBVIOUS
  <2>2. \E s \in {t} : InputOf[s] \notin {t}
    BY <2>1, AcyclicAssumption
  <2> QED
    BY <2>2
<1> QED
  BY <1>1, FundingAssumption, TerminalAssumption, InputAssumption, NoTxAssumption,
     BlockAssumption, VersionAssumption

(* Staling the children of an orphaned coin keeps the two columns typed.   *)
LEMMA StaledTypes ==
    ASSUME TypeOK, NEW c \in Txs
    PROVE  /\ StaledProposals(c) \in [Spends -> {"none", "collecting",
                "finalized", "broadcast", "confirmed", "stale"}]
           /\ StaledApprovals(c) \in [Spends -> {"none", "pending",
                "approved", "submitting", "broadcast", "failed"}]
BY DEF TypeOK, StaledProposals, StaledApprovals, Dropped

(* Every action keeps every column within its domain.                      *)
LEMMA TypeStep == TypeOK /\ [Next]_vars => TypeOK'
<1> SUFFICES ASSUME TypeOK, [Next]_vars
             PROVE  TypeOK'
  OBVIOUS
<1> USE Constants DEF TypeOK
<1>1. ASSUME NEW c \in Coins, ObserveCoin(c) PROVE TypeOK'
  BY <1>1 DEF ObserveCoin
<1>2. ASSUME NEW c \in Coins, ObservationAges(c) PROVE TypeOK'
  BY <1>2 DEF ObservationAges
<1>3. ASSUME NEW t \in Spends, CreateProposal(t) PROVE TypeOK'
  BY <1>3 DEF CreateProposal
<1>4. ASSUME NEW t \in Spends, ProposalExpires(t) PROVE TypeOK'
  BY <1>4 DEF ProposalExpires
<1>5. ASSUME NEW t \in Spends, Finalize(t) PROVE TypeOK'
  BY <1>5 DEF Finalize
<1>6. ASSUME NEW t \in Spends, CreateBroadcastApprovalChallenge(t) PROVE TypeOK'
  BY <1>6 DEF CreateBroadcastApprovalChallenge
<1>7. ASSUME NEW t \in Spends, CompleteBroadcastApproval(t) PROVE TypeOK'
  BY <1>7 DEF CompleteBroadcastApproval
<1>8. ASSUME NEW t \in Spends, ClaimBroadcast(t) PROVE TypeOK'
  BY <1>8 DEF ClaimBroadcast
<1>9. ASSUME NEW t \in Spends, MarkBroadcast(t) PROVE TypeOK'
  BY <1>9 DEF MarkBroadcast
<1>10. ASSUME NEW b \in Blocks, RecordConfirmedFunding(b) PROVE TypeOK'
  BY <1>10 DEF Recordable, RecordConfirmedFunding
<1>11. ASSUME NEW t \in Spends, NEW b \in Blocks, RecordConfirmedProposal(t, b)
       PROVE TypeOK'
  BY <1>11 DEF Confirmable, Recordable, RecordConfirmedProposal
<1>12. ASSUME NEW prior \in Blocks, NEW b \in Blocks, ReanchorFunding(prior, b)
       PROVE TypeOK'
  BY <1>12 DEF ReanchorFunding
<1>13. ASSUME NEW t \in Spends, NEW prior \in Blocks, NEW b \in Blocks,
              ReanchorTransition(t, prior, b)
       PROVE TypeOK'
  BY <1>13 DEF ReanchorTransition
<1>14. ASSUME NEW prior \in Blocks, RollbackFunding(prior) PROVE TypeOK'
  BY <1>14, StaledTypes DEF RollbackFunding
<1>15. ASSUME NEW t \in Spends, NEW prior \in Blocks, RollbackTransition(t, prior)
       PROVE TypeOK'
  <2> /\ StaledProposals(t) \in [Spends -> {"none", "collecting",
              "finalized", "broadcast", "confirmed", "stale"}]
      /\ StaledApprovals(t) \in [Spends -> {"none", "pending",
              "approved", "submitting", "broadcast", "failed"}]
    BY StaledTypes
  <2>1. prop' \in [Spends -> {"none", "collecting", "finalized", "broadcast",
                             "confirmed", "stale"}]
    BY <1>15 DEF RollbackTransition
  <2>2. coin' \in [Coins -> {"absent", "current", "spent", "orphaned"}]
    BY <1>15 DEF RollbackTransition
  <2>3. observed' \in [Coins -> BOOLEAN]
    <3>1. CASE t \in Terminal
      BY <1>15, <3>1 DEF RollbackTransition
    <3>2. CASE t \notin Terminal
      BY <1>15, <3>2 DEF RollbackTransition
    <3> QED
      BY <3>1, <3>2
  <2>4. /\ spentBy' \in [Coins -> Spends \cup {NoTx}]
        /\ anchor' \in [Txs -> Blocks \cup {NoBlock}]
    BY <1>15 DEF RollbackTransition
  <2> QED
    BY <1>15, <2>1, <2>2, <2>3, <2>4 DEF RollbackTransition
<1>16. CASE UNCHANGED vars
  BY <1>16 DEF vars
<1> QED
  BY <1>1, <1>2, <1>3, <1>4, <1>5, <1>6, <1>7, <1>8, <1>9, <1>10, <1>11,
     <1>12, <1>13, <1>14, <1>15, <1>16 DEF Next, Request, Submission, Watch

(* Every column always stays within its domain.                            *)
THEOREM TypeCorrect == Spec => []TypeOK
<1>1. Init => TypeOK
  BY Constants DEF Init, TypeOK
<1> QED
  BY <1>1, TypeStep, PTL DEF Spec

-----------------------------------------------------------------------------
(* The inductive step, one lemma per kind of action.                       *)

USE DEF Confirmed, CreatorConfirmed, Recorded, Live, Unsent, Authorized

(* Steps that touch neither a proposal row's status nor a coin.            *)
LEMMA QuietSteps ==
    ASSUME IInv,
           UNCHANGED <<vault, funding, coin, spentBy, prop, version, approval>>,
           \/ UNCHANGED anchor
           \/ /\ funding = "confirmed"
              /\ \E b \in Blocks : anchor' = [anchor EXCEPT ![FundingTx] = b]
           \/ \E t \in Spends, b \in Blocks :
                 Confirmed(t) /\ anchor' = [anchor EXCEPT ![t] = b]
    PROVE  Lineage'
<1> USE Constants DEF IInv, TypeOK, Lineage
<1>1. CoinOnChain' /\ SpentByConfirmed' /\ SingleTip'
  BY DEF CoinOnChain, SpentByConfirmed, SingleTip
<1>2. NoProposalOnOrphan' /\ ApprovedBeforeTracked'
  BY DEF NoProposalOnOrphan, ApprovedBeforeTracked
<1>3. AnchoredIffConfirmed'
  BY DEF AnchoredIffConfirmed
<1> QED
  BY <1>1, <1>2, <1>3

(* Steps of proposals and approvals that confirm nothing.                  *)
LEMMA ProposalSteps ==
    ASSUME IInv, NEW t \in Spends,
           \/ CreateProposal(t)
           \/ Finalize(t)
           \/ CreateBroadcastApprovalChallenge(t)
           \/ CompleteBroadcastApproval(t)
           \/ ClaimBroadcast(t)
           \/ MarkBroadcast(t)
    PROVE  Lineage'
<1> USE Constants DEF IInv, TypeOK, Lineage
<1>1. CASE CreateProposal(t)
  <2> USE <1>1 DEF CreateProposal, Retired, Children
  <2>1. ~Confirmed(t)
    BY DEF SpentByConfirmed
  <2>2. \A s \in Spends : Confirmed(s)' <=> Confirmed(s)
    BY <2>1
  <2>3. CoinOnChain' /\ SpentByConfirmed' /\ SingleTip'
    BY <2>2 DEF CoinOnChain, SpentByConfirmed, SingleTip
  <2>4. NoProposalOnOrphan'
    BY DEF NoProposalOnOrphan
  <2>5. ApprovedBeforeTracked'
    BY <2>1 DEF ApprovedBeforeTracked
  <2>6. AnchoredIffConfirmed'
    BY <2>2 DEF AnchoredIffConfirmed
  <2> QED
    BY <2>3, <2>4, <2>5, <2>6
<1>2. CASE Finalize(t)
  <2> USE <1>2 DEF Finalize
  <2>1. \A s \in Spends : Confirmed(s)' <=> Confirmed(s)
    OBVIOUS
  <2>2. CoinOnChain' /\ SpentByConfirmed' /\ SingleTip'
    BY <2>1 DEF CoinOnChain, SpentByConfirmed, SingleTip
  <2>3. NoProposalOnOrphan'
    BY DEF NoProposalOnOrphan
  <2>4. ApprovedBeforeTracked'
    BY DEF ApprovedBeforeTracked
  <2>5. AnchoredIffConfirmed'
    BY <2>1 DEF AnchoredIffConfirmed
  <2> QED
    BY <2>2, <2>3, <2>4, <2>5
<1>3. CASE \/ CreateBroadcastApprovalChallenge(t)
           \/ CompleteBroadcastApproval(t)
           \/ ClaimBroadcast(t)
  <2> USE <1>3 DEF CreateBroadcastApprovalChallenge, CompleteBroadcastApproval,
                   ClaimBroadcast, Approvable
  <2>1. CoinOnChain' /\ SpentByConfirmed' /\ SingleTip'
    BY DEF CoinOnChain, SpentByConfirmed, SingleTip
  <2>2. NoProposalOnOrphan'
    BY DEF NoProposalOnOrphan
  <2>3. ApprovedBeforeTracked'
    BY DEF ApprovedBeforeTracked
  <2>4. AnchoredIffConfirmed'
    BY DEF AnchoredIffConfirmed
  <2> QED
    BY <2>1, <2>2, <2>3, <2>4
<1>4. CASE MarkBroadcast(t)
  <2> USE <1>4 DEF MarkBroadcast
  <2>1. \A s \in Spends : Confirmed(s)' <=> Confirmed(s)
    OBVIOUS
  <2>2. CoinOnChain' /\ SpentByConfirmed' /\ SingleTip'
    BY <2>1 DEF CoinOnChain, SpentByConfirmed, SingleTip
  <2>3. NoProposalOnOrphan'
    BY DEF NoProposalOnOrphan
  <2>4. ApprovedBeforeTracked'
    BY DEF ApprovedBeforeTracked
  <2>5. AnchoredIffConfirmed'
    BY <2>1 DEF AnchoredIffConfirmed
  <2> QED
    BY <2>2, <2>3, <2>4, <2>5
<1> QED
  BY <1>1, <1>2, <1>3, <1>4

(* Confirming the funding: there is no current coin, and none is terminal. *)
LEMMA FundingConfirmationStep ==
    ASSUME IInv, NEW b \in Blocks, RecordConfirmedFunding(b)
    PROVE  Lineage'
<1> USE Constants DEF IInv, TypeOK, Lineage, Recordable, RecordConfirmedFunding
<1>1. CoinOnChain'
  BY DEF CoinOnChain
<1>2. SpentByConfirmed'
  BY DEF SpentByConfirmed
<1>3. SingleTip'
  BY DEF SingleTip
<1>4. NoProposalOnOrphan'
  BY DEF NoProposalOnOrphan
<1>5. ApprovedBeforeTracked' /\ AnchoredIffConfirmed'
  BY DEF ApprovedBeforeTracked, AnchoredIffConfirmed
<1> QED
  BY <1>1, <1>2, <1>3, <1>4, <1>5

(* Confirming a spend: the tip moves from its input to its successor, or   *)
(* the vault closes.                                                       *)
LEMMA SpendConfirmationStep ==
    ASSUME IInv, NEW t \in Spends, NEW b \in Blocks, RecordConfirmedProposal(t, b)
    PROVE  Lineage'
<1> DEFINE c == InputOf[t]
<1> USE Constants DEF IInv, TypeOK, Lineage, Confirmable, Recordable, RecordConfirmedProposal
<1>1. CoinOnChain'
  BY DEF CoinOnChain
<1>2. SpentByConfirmed'
  BY DEF SpentByConfirmed
<1>3. vault = "active" /\ \A d \in Coins : coin[d] = "current" => d = c
  BY DEF SingleTip
<1>4. SingleTip'
  BY <1>3 DEF SingleTip
<1>5. NoProposalOnOrphan'
  BY DEF NoProposalOnOrphan
<1>6. ApprovedBeforeTracked'
  BY DEF ApprovedBeforeTracked
<1>7. AnchoredIffConfirmed'
  BY DEF AnchoredIffConfirmed
<1> QED
  BY <1>1, <1>2, <1>4, <1>5, <1>6, <1>7

(* Rolling the funding back: its coin is orphaned and takes its unsent     *)
(* proposals with it.                                                      *)
LEMMA FundingRollbackStep ==
    ASSUME IInv, NEW prior \in Blocks, RollbackFunding(prior)
    PROVE  Lineage'
<1> USE Constants DEF IInv, TypeOK, Lineage, RollbackFunding, StaledProposals,
                      StaledApprovals, Dropped, StaleUnsent, Children
<1>1. \A s \in Spends : ~Confirmed(s)' /\ ~Confirmed(s)
  OBVIOUS
<1>2. CoinOnChain'
  BY <1>1 DEF CoinOnChain
<1>3. SpentByConfirmed'
  BY <1>1 DEF SpentByConfirmed
<1>4. SingleTip'
  BY <1>1 DEF SingleTip
<1>5. NoProposalOnOrphan'
  BY DEF NoProposalOnOrphan
<1>6. ApprovedBeforeTracked'
  BY DEF ApprovedBeforeTracked
<1>7. AnchoredIffConfirmed'
  BY <1>1 DEF AnchoredIffConfirmed
<1> QED
  BY <1>2, <1>3, <1>4, <1>5, <1>6, <1>7

(* Rolling a spend back: the tip returns from its successor, or from the   *)
(* closed vault, to its input.                                             *)
LEMMA SpendRollbackStep ==
    ASSUME IInv, NEW t \in Spends, NEW prior \in Blocks, RollbackTransition(t, prior)
    PROVE  Lineage'
<1> DEFINE c == InputOf[t]
<1> USE Constants DEF IInv, TypeOK, Lineage, RollbackTransition
<1>1. /\ prop' = [s \in Spends |-> IF s = t THEN "broadcast"
                     ELSE IF InputOf[s] = t /\ prop[s] \in Unsent THEN "stale"
                     ELSE prop[s]]
      /\ approval' = StaledApprovals(t)
  BY DEF StaledProposals, StaleUnsent, Children
<1>2. \A s \in Spends : Confirmed(s)' <=> s # t /\ Confirmed(s)
  BY <1>1
<1>3. /\ spentBy' = [spentBy EXCEPT ![c] = NoTx]
      /\ spentBy[c] = t /\ coin[c] = "spent"
      /\ vault' = "active" /\ funding' = funding
      /\ \A d \in Coins : coin'[d] = IF d = c THEN "current"
                                     ELSE IF d = t THEN "orphaned"
                                     ELSE coin[d]
  BY Constants
<1>4. \A d \in Coins : coin[d] = "current" => d = t
  BY DEF SingleTip
<1>5. CoinOnChain'
  BY <1>2, <1>3 DEF CoinOnChain
<1>6. SpentByConfirmed'
  BY <1>2, <1>3, <1>4 DEF SpentByConfirmed
<1>7. SingleTip'
  BY <1>2, <1>3, <1>4 DEF SingleTip
<1>8. NoProposalOnOrphan'
  BY <1>1, <1>3 DEF NoProposalOnOrphan
<1>9. ApprovedBeforeTracked'
  BY <1>1 DEF ApprovedBeforeTracked, StaledApprovals, Dropped, StaleUnsent, Children
<1>10. AnchoredIffConfirmed'
  BY <1>2, <1>3 DEF AnchoredIffConfirmed
<1> QED
  BY <1>5, <1>6, <1>7, <1>8, <1>9, <1>10

(* Every transaction of the store preserves the lineage.                   *)
LEMMA LineageStep == IInv /\ [Next]_vars => Lineage'
<1> SUFFICES ASSUME IInv, [Next]_vars
             PROVE  Lineage'
  OBVIOUS
<1>1. ASSUME Request PROVE Lineage'
  <2>1. ASSUME NEW c \in Coins, ObserveCoin(c) \/ ObservationAges(c) PROVE Lineage'
    BY <2>1, QuietSteps DEF ObserveCoin, ObservationAges
  <2>2. ASSUME NEW t \in Spends, ProposalExpires(t) PROVE Lineage'
    BY <2>2, QuietSteps DEF ProposalExpires
  <2> QED
    BY <1>1, <2>1, <2>2, ProposalSteps DEF Request
<1>2. ASSUME Submission PROVE Lineage'
  BY <1>2, ProposalSteps DEF Submission
<1>3. ASSUME Watch PROVE Lineage'
  <2>1. ASSUME NEW prior \in Blocks, NEW b \in Blocks, ReanchorFunding(prior, b)
        PROVE  Lineage'
    BY <2>1, QuietSteps DEF ReanchorFunding
  <2>2. ASSUME NEW t \in Spends, NEW prior \in Blocks, NEW b \in Blocks,
               ReanchorTransition(t, prior, b)
        PROVE  Lineage'
    BY <2>2, QuietSteps DEF ReanchorTransition
  <2> QED
    BY <1>3, <2>1, <2>2, FundingConfirmationStep, SpendConfirmationStep,
       FundingRollbackStep, SpendRollbackStep DEF Watch
<1>4. CASE UNCHANGED vars
  BY <1>4, QuietSteps DEF vars
<1> QED
  BY <1>1, <1>2, <1>3, <1>4 DEF Next

(* The invariant is inductive.                                             *)
LEMMA InvariantStep == IInv /\ [Next]_vars => IInv'
BY TypeStep, LineageStep DEF IInv

(* The rows always describe one unbroken chain from the funding to one     *)
(* tip, with nothing signable on an orphaned coin and no tracked spend     *)
(* without an approval.                                                    *)
THEOREM LineageCorrect == Spec => []Lineage
<1>1. Init => Lineage
  BY Constants DEF Init, Lineage, CoinOnChain, SpentByConfirmed, SingleTip,
     NoProposalOnOrphan, ApprovedBeforeTracked, AnchoredIffConfirmed
<1> QED
  BY <1>1, LineageStep, TypeCorrect, PTL DEF Spec, IInv

-----------------------------------------------------------------------------
(* Consequences of the inductive invariant.                                *)

(* Both hold of every step of the store.                                   *)
LEMMA InvariantCorrect == Spec => []IInv
BY TypeCorrect, LineageCorrect, PTL DEF IInv

(* Whatever the chain removes last, its rollback transaction commits.      *)
THEOREM RollbackAlwaysPossible == Spec => []RollbackNeverStuck
<1>1. IInv => RollbackNeverStuck
  <2> SUFFICES ASSUME IInv PROVE RollbackNeverStuck
    OBVIOUS
  <2> USE Constants DEF IInv, TypeOK, Lineage
  <2>1. ASSUME NEW c \in Coins, coin[c] \in Recorded,
               \A s \in Spends : Confirmed(s) => InputOf[s] # c
        PROVE  coin[c] = "current"
    BY <2>1 DEF SpentByConfirmed
  <2>2. ASSUME funding = "confirmed", \A t \in Spends : ~Confirmed(t)
        PROVE  vault = "active" /\ coin[FundingTx] = "current"
    <3>1. coin[FundingTx] = "current"
      BY <2>1, <2>2 DEF CoinOnChain
    <3> QED
      BY <3>1 DEF SingleTip
  <2>3. ASSUME NEW t \in Spends, Confirmed(t),
               \A s \in Spends : Confirmed(s) => InputOf[s] # t
        PROVE  /\ t \notin Terminal => coin[t] = "current"
               /\ coin[InputOf[t]] = "spent" /\ spentBy[InputOf[t]] = t
               /\ vault \in {"active", "closed"}
    <3>1. coin[InputOf[t]] = "spent" /\ spentBy[InputOf[t]] = t
      BY <2>3 DEF SpentByConfirmed
    <3>2. t \notin Terminal => coin[t] = "current"
      BY <2>1, <2>3 DEF CoinOnChain
    <3>3. vault \in {"active", "closed"}
      BY <2>3, <3>2 DEF SingleTip
    <3> QED
      BY <3>1, <3>2, <3>3
  <2> QED
    BY <2>2, <2>3 DEF RollbackNeverStuck
<1> QED
  BY <1>1, InvariantCorrect, PTL

(* Every tracked spend stays tracked, as the same bytes, in this step.     *)
StaysTracked ==
    \A t \in Spends :
        prop[t] \in {"broadcast", "confirmed"} =>
            /\ prop'[t] \in {"broadcast", "confirmed"}
            /\ version'[t] = version[t]

(* No transaction forgets a tracked spend.                                 *)
LEMMA TrackedStep == IInv /\ [Next]_vars => [StaysTracked]_vars
<1> SUFFICES ASSUME IInv, Next PROVE StaysTracked
  OBVIOUS
<1> USE Constants DEF IInv, TypeOK, Lineage, StaysTracked
<1>1. ASSUME Request PROVE StaysTracked
  <2>1. ASSUME NEW t \in Spends, CreateProposal(t) PROVE StaysTracked
    <3>1. prop[t] \notin {"broadcast", "confirmed"}
      BY <2>1 DEF CreateProposal, Retired, SpentByConfirmed
    <3> QED
      BY <2>1, <3>1 DEF CreateProposal, Retired
  <2>2. ASSUME NEW t \in Spends, Finalize(t) PROVE StaysTracked
    BY <2>2 DEF Finalize
  <2> QED
    BY <1>1, <2>1, <2>2 DEF Request, ObserveCoin, ObservationAges,
       ProposalExpires, CreateBroadcastApprovalChallenge,
       CompleteBroadcastApproval
<1>2. ASSUME Submission PROVE StaysTracked
  BY <1>2 DEF Submission, ClaimBroadcast, MarkBroadcast
<1>3. ASSUME Watch PROVE StaysTracked
  <2>1. ASSUME NEW t \in Spends, NEW b \in Blocks, RecordConfirmedProposal(t, b)
        PROVE  StaysTracked
    BY <2>1 DEF Confirmable, Recordable, RecordConfirmedProposal
  <2>2. ASSUME NEW prior \in Blocks, RollbackFunding(prior) PROVE StaysTracked
    BY <2>2 DEF RollbackFunding, StaledProposals, StaleUnsent
  <2>3. ASSUME NEW t \in Spends, NEW prior \in Blocks,
               RollbackTransition(t, prior)
        PROVE  StaysTracked
    BY <2>3 DEF RollbackTransition, StaledProposals, StaleUnsent
  <2> QED
    BY <1>3, <2>1, <2>2, <2>3 DEF Watch, Recordable, RecordConfirmedFunding,
       ReanchorFunding, ReanchorTransition
<1> QED
  BY <1>1, <1>2, <1>3 DEF Next

(* A tracked spend is never forgotten and never changes its bytes.         *)
THEOREM TrackedForever == Spec => BroadcastStaysTracked
BY TrackedStep, InvariantCorrect, PTL DEF Spec, BroadcastStaysTracked, StaysTracked

(* A completed approval survives expiry, new proposals and competing       *)
(* spends; only the orphaning of its input coin drops it.                  *)
THEOREM ApprovalSurvives == Spec => AuthorizedIntentKept
<1> DEFINE Kept == \A t \in Spends :
              approval[t] \in {"approved", "submitting"} =>
                 \/ approval'[t] \in Authorized /\ prop'[t] \in {"finalized", "broadcast"}
                 \/ coin'[InputOf[t]] = "orphaned"
<1>1. IInv /\ [Next]_vars => [Kept]_vars
  <2> SUFFICES ASSUME IInv, Next PROVE Kept
    OBVIOUS
  <2> USE Constants DEF IInv, TypeOK, Lineage, ApprovedBeforeTracked
  <2>1. ASSUME Request PROVE Kept
    <3>1. ASSUME NEW t \in Spends, CreateProposal(t) PROVE Kept
      BY <3>1 DEF CreateProposal, Retired
    <3>2. ASSUME NEW t \in Spends, Finalize(t) PROVE Kept
      BY <3>2 DEF Finalize
    <3>3. ASSUME NEW t \in Spends, CreateBroadcastApprovalChallenge(t) PROVE Kept
      BY <3>3 DEF CreateBroadcastApprovalChallenge, Approvable
    <3>4. ASSUME NEW t \in Spends, CompleteBroadcastApproval(t) PROVE Kept
      BY <3>4 DEF CompleteBroadcastApproval, Approvable
    <3> QED
      BY <2>1, <3>1, <3>2, <3>3, <3>4 DEF Request, ObserveCoin,
         ObservationAges, ProposalExpires
  <2>2. ASSUME Submission PROVE Kept
    BY <2>2 DEF Submission, ClaimBroadcast, MarkBroadcast
  <2>3. ASSUME Watch PROVE Kept
    <3>1. ASSUME NEW t \in Spends, NEW b \in Blocks, RecordConfirmedProposal(t, b)
          PROVE  Kept
      BY <3>1 DEF Confirmable, Recordable, RecordConfirmedProposal
    <3>2. ASSUME NEW prior \in Blocks, RollbackFunding(prior) PROVE Kept
      BY <3>2 DEF RollbackFunding, StaledProposals, StaledApprovals, Dropped,
         StaleUnsent, Children
    <3>3. ASSUME NEW t \in Spends, NEW prior \in Blocks,
                 RollbackTransition(t, prior)
          PROVE  Kept
      <4>1. ASSUME NEW s \in Spends, approval[s] \in {"approved", "submitting"},
                   InputOf[s] # t
            PROVE  approval'[s] = approval[s] /\ prop'[s] = prop[s]
        BY <3>3, <4>1 DEF RollbackTransition, StaledProposals,
           StaledApprovals, StaleUnsent, Children
      <4>2. ASSUME NEW s \in Spends, InputOf[s] = t
            PROVE  coin'[t] = "orphaned"
        BY <3>3, <4>2 DEF RollbackTransition
      <4> QED
        BY <4>1, <4>2
    <3> QED
      BY <2>3, <3>1, <3>2, <3>3 DEF Watch, Recordable, RecordConfirmedFunding,
         ReanchorFunding, ReanchorTransition
  <2> QED
    BY <2>1, <2>2, <2>3 DEF Next
<1> QED
  BY <1>1, InvariantCorrect, PTL DEF Spec, AuthorizedIntentKept

(* The current coin moves forward only with the confirmation of one spend  *)
(* of it, and back only with that spend's rollback.                        *)
THEOREM TipMovesCorrect == Spec => TipMovesAlongOneSpend
<1> DEFINE Moved == \A c, d \in Coins :
              c # d /\ coin[c] = "current" /\ coin'[d] = "current" =>
                 \/ d \in Spends /\ InputOf[d] = c /\ prop[d] = "broadcast" /\ Confirmed(d)'
                 \/ c \in Spends /\ InputOf[c] = d /\ Confirmed(c) /\ prop'[c] = "broadcast"
<1>1. IInv /\ [Next]_vars => [Moved]_vars
  <2> SUFFICES ASSUME IInv, Next PROVE Moved
    OBVIOUS
  <2> USE Constants DEF IInv, TypeOK, Lineage, SingleTip
  <2>1. ASSUME coin' = coin PROVE Moved
    BY <2>1
  <2>2. ASSUME Request \/ Submission PROVE Moved
    BY <2>1, <2>2 DEF Request, Submission, ObserveCoin, ObservationAges,
       CreateProposal, ProposalExpires, Finalize, CreateBroadcastApprovalChallenge,
       CompleteBroadcastApproval, ClaimBroadcast, MarkBroadcast
  <2>3. ASSUME Watch PROVE Moved
    <3>1. ASSUME NEW b \in Blocks, RecordConfirmedFunding(b) PROVE Moved
      BY <3>1 DEF Recordable, RecordConfirmedFunding
    <3>2. ASSUME NEW t \in Spends, NEW b \in Blocks, RecordConfirmedProposal(t, b)
          PROVE  Moved
      BY <3>2 DEF Confirmable, Recordable, RecordConfirmedProposal, Confirmed
    <3>3. ASSUME NEW prior \in Blocks, RollbackFunding(prior) PROVE Moved
      BY <3>3 DEF RollbackFunding
    <3>4. ASSUME NEW t \in Spends, NEW prior \in Blocks,
                 RollbackTransition(t, prior)
          PROVE  Moved
      <4>1. prop'[t] = "broadcast"
        BY <3>4 DEF RollbackTransition, StaledProposals
      <4>2. ASSUME t \in Terminal PROVE Moved
        BY <3>4, <4>2 DEF RollbackTransition
      <4>3. ASSUME t \notin Terminal PROVE Moved
        BY <3>4, <4>1, <4>3 DEF RollbackTransition
      <4> QED
        BY <4>2, <4>3
    <3> QED
      BY <2>1, <2>3, <3>1, <3>2, <3>3, <3>4 DEF Watch, ReanchorFunding, ReanchorTransition
  <2> QED
    BY <2>2, <2>3 DEF Next
<1> QED
  BY <1>1, InvariantCorrect, PTL DEF Spec, TipMovesAlongOneSpend

(* The name of the tip in each of the vault's states.                      *)
LEMMA TipNames ==
    ASSUME IInv
    PROVE  /\ vault = "ready" => ConfirmedTip = "unfunded"
           /\ \A c \in Coins : coin[c] = "current" => ConfirmedTip = c
           /\ \A t \in Terminal : Confirmed(t) => ConfirmedTip = t
<1> USE Constants DEF IInv, TypeOK, Lineage
<1>1. vault = "ready" => ConfirmedTip = "unfunded"
  BY DEF ConfirmedTip
<1>2. ASSUME NEW c \in Coins, coin[c] = "current" PROVE ConfirmedTip = c
  <2>1. vault = "active" /\ \A d \in Coins : coin[d] = "current" => d = c
    BY <1>2 DEF SingleTip
  <2> QED
    BY <1>2, <2>1 DEF ConfirmedTip
<1>3. ASSUME NEW t \in Terminal, Confirmed(t) PROVE ConfirmedTip = t
  <2>1. vault = "closed" /\ \A s \in Terminal : Confirmed(s) => s = t
    BY <1>3 DEF SingleTip
  <2> QED
    BY <1>3, <2>1 DEF ConfirmedTip
<1> QED
  BY <1>1, <1>2, <1>3

(* A step that leaves vault, coins and proposals' tracking alone moves     *)
(* nothing in the promise.                                                 *)
LEMMA SameTip ==
    ASSUME IInv, vault' = vault, coin' = coin,
           \A t \in Spends : Confirmed(t)' <=> Confirmed(t)
    PROVE  ConfirmedTip' = ConfirmedTip /\ ReachedCoins' = ReachedCoins
<1> USE Constants DEF IInv, TypeOK
<1>1. \A t \in Terminal : Confirmed(t)' <=> Confirmed(t)
  OBVIOUS
<1>2. CASE vault = "closed"
  <2>1. PICK t \in Terminal : Confirmed(t)
    BY <1>2 DEF Lineage, SingleTip
  <2>2. \A s \in Terminal : Confirmed(s)' <=> s = t
    BY <1>1, <2>1 DEF Lineage, SingleTip
  <2>3. ConfirmedTip' = t
    BY <1>2, <2>2 DEF ConfirmedTip
  <2>4. ConfirmedTip = t
    BY <2>1, TipNames
  <2> QED
    BY <2>3, <2>4 DEF ReachedCoins
<1>3. CASE vault # "closed"
  BY <1>3 DEF ConfirmedTip, ReachedCoins
<1> QED
  BY <1>2, <1>3

(* An empty store is an empty lineage.                                     *)
LEMMA InitRefines == Init => Promise!LineageInit
BY Constants DEF Init, Promise!LineageInit, ConfirmedTip, ReachedCoins,
   TrackedSpends, Promise!Unfunded

(* Every transaction of the store is a step of VaultLineage or a stutter.  *)
LEMMA StepRefines ==
    ASSUME IInv, IInv', [Next]_vars
    PROVE  [Promise!LineageNext]_(Promise!lineageVars)
<1> DEFINE Still == /\ ConfirmedTip' = ConfirmedTip
                    /\ ReachedCoins' = ReachedCoins
                    /\ TrackedSpends' = TrackedSpends
<1> USE Constants DEF IInv, TypeOK
<1>1. Still => [Promise!LineageNext]_(Promise!lineageVars)
  BY DEF Promise!lineageVars
<1>2. ASSUME Request PROVE Still
  <2>1. ASSUME NEW t \in Spends, CreateProposal(t) PROVE Still
    <3>1. prop[t] \notin {"broadcast", "confirmed"}
      BY <2>1 DEF CreateProposal, Retired, Lineage, SpentByConfirmed
    <3>2. TrackedSpends' = TrackedSpends
      BY <2>1, <3>1 DEF CreateProposal, Retired, TrackedSpends
    <3>3. \A s \in Spends : Confirmed(s)' <=> Confirmed(s)
      BY <2>1, <3>1 DEF CreateProposal, Retired
    <3> QED
      BY <2>1, <3>2, <3>3, SameTip DEF CreateProposal
  <2>2. ASSUME NEW t \in Spends, Finalize(t) PROVE Still
    <3>1. TrackedSpends' = TrackedSpends
      BY <2>2 DEF Finalize, TrackedSpends
    <3>2. \A s \in Spends : Confirmed(s)' <=> Confirmed(s)
      BY <2>2 DEF Finalize
    <3> QED
      BY <2>2, <3>1, <3>2, SameTip DEF Finalize
  <2>3. ASSUME UNCHANGED <<vault, coin, prop>> PROVE Still
    BY <2>3, SameTip DEF TrackedSpends
  <2> QED
    BY <1>2, <2>1, <2>2, <2>3 DEF Request, ObserveCoin, ObservationAges,
       ProposalExpires, CreateBroadcastApprovalChallenge, CompleteBroadcastApproval
<1>3. ASSUME NEW t \in Spends, MarkBroadcast(t)
      PROVE  Promise!LineageNext
  <2>1. TrackedSpends' = TrackedSpends \cup {t}
    BY <1>3 DEF MarkBroadcast, TrackedSpends
  <2>2. InputOf[t] \in ReachedCoins
    BY <1>3 DEF MarkBroadcast, ReachedCoins, Lineage, NoProposalOnOrphan
  <2>3. \A s \in Spends : Confirmed(s)' <=> Confirmed(s)
    BY <1>3 DEF MarkBroadcast
  <2>4. ConfirmedTip' = ConfirmedTip /\ ReachedCoins' = ReachedCoins
    BY <1>3, <2>3, SameTip DEF MarkBroadcast
  <2>5. Promise!Authorize(t)
    BY <2>1, <2>2, <2>4 DEF Promise!Authorize
  <2> QED
    BY <2>5 DEF Promise!LineageNext
<1>4. ASSUME NEW t \in Spends, ClaimBroadcast(t) PROVE Still
  BY <1>4, SameTip DEF ClaimBroadcast, TrackedSpends
<1>5. ASSUME NEW b \in Blocks, RecordConfirmedFunding(b)
      PROVE  Promise!LineageNext
  <2>1. ConfirmedTip = "unfunded"
    BY <1>5, TipNames DEF Recordable, RecordConfirmedFunding
  <2>2. coin'[FundingTx] = "current"
    BY <1>5 DEF Recordable, RecordConfirmedFunding
  <2>3. ConfirmedTip' = FundingTx
    <3>1. vault' = "active" /\ \A d \in Coins : coin'[d] = "current" => d = FundingTx
      BY <1>5 DEF Recordable, RecordConfirmedFunding
    <3> QED
      BY <2>2, <3>1 DEF ConfirmedTip
  <2>4. ReachedCoins' = ReachedCoins \cup {FundingTx}
    BY <1>5 DEF Recordable, RecordConfirmedFunding, ReachedCoins
  <2>5. TrackedSpends' = TrackedSpends
    BY <1>5 DEF Recordable, RecordConfirmedFunding, TrackedSpends
  <2>6. Promise!Fund
    BY <2>1, <2>3, <2>4, <2>5 DEF Promise!Fund, Promise!CoinsOf, Promise!Unfunded
  <2> QED
    BY <2>6 DEF Promise!LineageNext
<1>6. ASSUME NEW t \in Spends, NEW b \in Blocks, RecordConfirmedProposal(t, b)
      PROVE  Promise!LineageNext
  <2>1. ConfirmedTip = InputOf[t]
    BY <1>6, TipNames DEF Confirmable, Recordable, RecordConfirmedProposal
  <2>2. t \in TrackedSpends
    BY <1>6 DEF Confirmable, Recordable, RecordConfirmedProposal, TrackedSpends
  <2>3. TrackedSpends' = TrackedSpends
    BY <1>6 DEF Confirmable, Recordable, RecordConfirmedProposal, TrackedSpends
  <2>4. ReachedCoins' = ReachedCoins \cup ({t} \ Terminal)
    BY <1>6 DEF Confirmable, Recordable, RecordConfirmedProposal, ReachedCoins
  <2>5. ConfirmedTip' = t
    <3>1. CASE t \in Terminal
      <4>1. vault' = "closed" /\ Confirmed(t)'
        BY <1>6, <3>1 DEF Confirmable, Recordable, RecordConfirmedProposal
      <4>2. \A s \in Terminal : Confirmed(s)' => s = t
        BY <3>1, <4>1 DEF Lineage, SingleTip
      <4> QED
        BY <3>1, <4>1, <4>2 DEF ConfirmedTip
    <3>2. CASE t \notin Terminal
      <4>1. t \in Coins /\ coin'[t] = "current"
        BY <1>6, <3>2 DEF Confirmable, Recordable, RecordConfirmedProposal
      <4>2. vault' = "active" /\ \A d \in Coins : coin'[d] = "current" => d = t
        BY <4>1 DEF Lineage, SingleTip
      <4> QED
        BY <4>1, <4>2 DEF ConfirmedTip
    <3> QED
      BY <3>1, <3>2
  <2>6. Promise!Advance(t)
    BY <2>1, <2>2, <2>3, <2>4, <2>5 DEF Promise!Advance, Promise!CoinsOf
  <2> QED
    BY <2>6 DEF Promise!LineageNext
<1>7. ASSUME NEW prior \in Blocks, RollbackFunding(prior)
      PROVE  Promise!LineageNext
  <2>1. ConfirmedTip = FundingTx /\ ConfirmedTip' = "unfunded"
    BY <1>7, TipNames DEF RollbackFunding, ConfirmedTip
  <2>2. ReachedCoins' = ReachedCoins
    BY <1>7 DEF RollbackFunding, ReachedCoins
  <2>3. TrackedSpends' = TrackedSpends
    BY <1>7 DEF RollbackFunding, StaledProposals, StaleUnsent, TrackedSpends
  <2>4. Promise!Unfund
    BY <2>1, <2>2, <2>3 DEF Promise!Unfund, Promise!Unfunded
  <2> QED
    BY <2>4 DEF Promise!LineageNext
<1>8. ASSUME NEW t \in Spends, NEW prior \in Blocks, RollbackTransition(t, prior)
      PROVE  Promise!LineageNext
  <2>1. ConfirmedTip = t
    BY <1>8, TipNames DEF RollbackTransition
  <2>2. /\ vault' = "active"
        /\ coin'[InputOf[t]] = "current"
    BY <1>8 DEF RollbackTransition
  <2>3. \A d \in Coins : coin'[d] = "current" => d = InputOf[t]
    BY <2>2 DEF Lineage, SingleTip
  <2>4. ConfirmedTip' = InputOf[t]
    BY <2>2, <2>3 DEF ConfirmedTip
  <2>5. ReachedCoins' = ReachedCoins
    BY <1>8 DEF RollbackTransition, ReachedCoins
  <2>6. TrackedSpends' = TrackedSpends
    BY <1>8 DEF RollbackTransition, StaledProposals, StaleUnsent, TrackedSpends
  <2>7. Promise!Retreat(t)
    BY <2>1, <2>4, <2>5, <2>6 DEF Promise!Retreat
  <2> QED
    BY <2>7 DEF Promise!LineageNext
<1>9. ASSUME UNCHANGED <<vault, coin, prop>> PROVE Still
  BY <1>9, SameTip DEF TrackedSpends
<1>10. ASSUME Watch PROVE [Promise!LineageNext]_(Promise!lineageVars)
  <2>1. ASSUME NEW prior \in Blocks, NEW b \in Blocks, ReanchorFunding(prior, b)
        PROVE  Still
    BY <2>1, <1>9 DEF ReanchorFunding
  <2>2. ASSUME NEW t \in Spends, NEW prior \in Blocks, NEW b \in Blocks,
               ReanchorTransition(t, prior, b)
        PROVE  Still
    BY <2>2, <1>9 DEF ReanchorTransition
  <2> QED
    BY <1>1, <1>5, <1>6, <1>7, <1>8, <1>10, <2>1, <2>2 DEF Watch
<1> QED
  BY <1>1, <1>2, <1>3, <1>4, <1>9, <1>10 DEF Next, Submission, vars

(* The store implements the promise.                                       *)
THEOREM StoreImplementsLineage == Spec => ImplementsLineage
BY InitRefines, StepRefines, InvariantCorrect, PTL
   DEF Spec, ImplementsLineage, Promise!LineageSpec

HIDE DEF Txs, Coins

-----------------------------------------------------------------------------
(* The chain.                                                              *)

(* A block that does not exist yet is empty, and whatever is in a block    *)
(* the network has accepted.                                               *)
ChainOK ==
    /\ chain \in Seq(0 .. MaxForks) /\ Len(chain) <= MaxHeight
    /\ forks \in 0 .. MaxForks
    /\ \A h \in 1 .. Len(chain) : chain[h] <= forks
    /\ released \subseteq Txs \X Nat
    /\ mined \in [Blocks -> SUBSET released]
    /\ \A b \in Blocks :
          mined[b] # {} => b[2] < forks \/ (b[2] = forks /\ b[1] <= Len(chain))

(* No block that exists ever changes.                                      *)
BlocksStay == \A b \in Blocks : mined[b] # {} => mined'[b] = mined[b]

(* The bounds and the block names, as the steps below cite them.           *)
LEMMA ChainConstants ==
    /\ MaxHeight \in Nat /\ MaxForks \in Nat /\ MaxDepth \in Nat
    /\ Required \in Nat /\ Required >= 1
    /\ Blocks = (1 .. MaxHeight) \X (0 .. MaxForks)
    /\ Bitcoin!BlockIds = Blocks
BY BoundsAssumption, BlocksAssumption, RequiredAssumption DEF Bitcoin!BlockIds

(* No block on record belongs to a branch that is yet to come.             *)
LEMMA OldBlock ==
    ASSUME ChainOK, NEW b \in Blocks, mined[b] # {}
    PROVE  b[2] <= forks
<1>1. b[2] \in Nat /\ forks \in Nat
  BY ChainConstants DEF ChainOK
<1>2. b[2] < forks \/ b[2] = forks
  BY DEF ChainOK
<1> QED
  BY <1>1, <1>2

(* A new block is put on top of all that is there.                         *)
LEMMA MineStep ==
    ASSUME ChainOK, NEW S, Bitcoin!Mine(S)
    PROVE  ChainOK' /\ BlocksStay
<1> USE ChainConstants DEF ChainOK, Bitcoin!Mine
<1>1. /\ chain' \in Seq(0 .. MaxForks) /\ Len(chain') = Len(chain) + 1
      /\ \A h \in 1 .. Len(chain) + 1 :
            chain'[h] = IF h <= Len(chain) THEN chain[h] ELSE forks
  BY AppendProperties
<1> DEFINE top == <<Len(chain) + 1, forks>>
<1>2. top \in Blocks /\ mined[top] = {}
  <2>1. top \in Blocks /\ top[1] = Len(chain) + 1 /\ top[2] = forks
    OBVIOUS
  <2> HIDE DEF top
  <2> QED
    BY <2>1
<1>3. /\ mined' \in [Blocks -> SUBSET released']
      /\ \A b \in Blocks : mined'[b] = IF b = top THEN S ELSE mined[b]
  BY <1>2
<1>4. BlocksStay
  BY <1>2, <1>3 DEF BlocksStay
<1> QED
  BY <1>1, <1>3, <1>4

(* The best chain after a branch of d + 1 blocks has replaced its last d.   *)
LEMMA Branch ==
    ASSUME ChainOK, NEW d \in 1 .. MaxDepth, d <= Len(chain),
           NEW S \in SUBSET released, NEW place \in [S -> 1 .. d + 1],
           Bitcoin!Reorganize(d, S, place),
           NEW keep, keep = Len(chain) - d
    PROVE  /\ keep \in Nat /\ d \in Nat /\ Len(chain) \in Nat /\ keep + d = Len(chain)
           /\ forks \in Nat /\ forks + 1 \in 0 .. MaxForks
           /\ chain' \in Seq(0 .. MaxForks) /\ Len(chain') = keep + d + 1
           /\ \A h \in 1 .. keep + d + 1 :
                 chain'[h] = IF h <= keep THEN chain[h] ELSE forks + 1
<1> DEFINE kept == SubSeq(chain, 1, keep)
           branch == [i \in 1 .. d + 1 |-> forks + 1]
<1> USE ChainConstants
<1>1. forks < MaxForks /\ chain' = kept \o branch
  BY DEF Bitcoin!Reorganize
<1>2. /\ keep \in Nat /\ d \in Nat /\ Len(chain) \in Nat /\ keep + d = Len(chain)
      /\ forks \in Nat /\ forks + 1 \in 0 .. MaxForks
  <2>1. Len(chain) \in Nat /\ forks \in 0 .. MaxForks
    BY LenProperties DEF ChainOK
  <2>2. d \in Nat /\ keep \in Nat /\ keep + d = Len(chain)
    BY <2>1
  <2>3. forks \in Nat /\ forks + 1 \in 0 .. MaxForks
    BY <1>1, <2>1
  <2> QED
    BY <2>1, <2>2, <2>3
<1>3. /\ kept \in Seq(0 .. MaxForks) /\ Len(kept) = keep
      /\ \A i \in 1 .. keep : kept[i] = chain[i]
  <2>1. \A i \in 1 .. keep : chain[i] \in 0 .. MaxForks
    BY <1>2 DEF ChainOK
  <2>2. /\ SubSeq(chain, 1, keep) \in Seq(0 .. MaxForks)
        /\ Len(SubSeq(chain, 1, keep)) = IF 1 <= keep THEN keep - 1 + 1 ELSE 0
        /\ \A i \in 1 .. keep - 1 + 1 : SubSeq(chain, 1, keep)[i] = chain[1 + i - 1]
    <3>1. 1 \in Int /\ keep \in Int
      BY <1>2
    <3> QED
      BY <2>1, <3>1, SubSeqProperties
  <2> QED
    BY <1>2, <2>2
<1>4. /\ branch \in Seq(0 .. MaxForks) /\ Len(branch) = d + 1
      /\ \A i \in 1 .. d + 1 : branch[i] = forks + 1
  BY <1>2
<1> HIDE DEF kept, branch
<1>5. /\ chain' \in Seq(0 .. MaxForks) /\ Len(chain') = keep + d + 1
      /\ \A h \in 1 .. keep + d + 1 :
            chain'[h] = IF h <= keep THEN chain[h] ELSE forks + 1
  <2>1. kept \in Seq(0 .. MaxForks) /\ branch \in Seq(0 .. MaxForks)
    BY <1>3, <1>4
  <2>2. /\ kept \o branch \in Seq(0 .. MaxForks)
        /\ Len(kept \o branch) = Len(kept) + Len(branch)
        /\ \A i \in 1 .. Len(kept) + Len(branch) :
              (kept \o branch)[i] = IF i <= Len(kept) THEN kept[i]
                                    ELSE branch[i - Len(kept)]
    BY <2>1, ConcatProperties, Zenon
  <2> QED
    BY <1>1, <1>2, <1>3, <1>4, <2>2
<1> QED
  BY <1>2, <1>5

(* A branch takes new names for its blocks, so those it replaces keep      *)
(* their contents; and it is one block longer than what it replaces.       *)
LEMMA ReorganizeStep ==
    ASSUME ChainOK, NEW d \in 1 .. MaxDepth, d <= Len(chain),
           NEW S \in SUBSET released, NEW place \in [S -> 1 .. d + 1],
           Bitcoin!Reorganize(d, S, place)
    PROVE  ChainOK' /\ BlocksStay /\ Len(chain') = Len(chain) + 1
<1> DEFINE keep == Len(chain) - d
           fresh(b) == b[2] = forks + 1 /\ b[1] \in keep + 1 .. keep + d + 1
           contents(b) == {x \in S : place[x] = b[1] - keep}
<1> USE ChainConstants
<1>1. /\ forks < MaxForks /\ keep + d + 1 <= MaxHeight
      /\ mined' = [b \in Blocks |-> IF fresh(b) THEN contents(b) ELSE mined[b]]
      /\ forks' = forks + 1 /\ released' = released
  BY DEF Bitcoin!Reorganize
<1>2. /\ keep \in Nat /\ d \in Nat /\ Len(chain) \in Nat /\ keep + d = Len(chain)
      /\ forks \in Nat /\ forks + 1 \in 0 .. MaxForks
      /\ \A b \in Blocks : b[1] \in Nat /\ b[2] \in Nat
  BY Branch
<1>3. /\ chain' \in Seq(0 .. MaxForks) /\ Len(chain') = keep + d + 1
      /\ \A h \in 1 .. keep + d + 1 :
            chain'[h] = IF h <= keep THEN chain[h] ELSE forks + 1
  BY Branch
<1> HIDE DEF keep
<1>4. \A h \in 1 .. Len(chain') : chain'[h] <= forks'
  <2> SUFFICES ASSUME NEW h \in 1 .. Len(chain') PROVE chain'[h] <= forks'
    OBVIOUS
  <2>1. h \in 1 .. keep + d + 1 /\ h \in Nat /\ forks' = forks + 1
    BY <1>1, <1>2, <1>3
  <2>2. CASE h <= keep
    <3>1. chain'[h] = chain[h]
      BY <1>3, <2>1, <2>2
    <3>2. chain[h] <= forks /\ chain[h] \in Nat
      BY <1>2, <2>1, <2>2 DEF ChainOK
    <3> QED
      BY <1>2, <2>1, <3>1, <3>2
  <2>3. CASE ~(h <= keep)
    <3>1. chain'[h] = forks + 1
      BY <1>3, <2>1, <2>3
    <3> QED
      BY <1>2, <2>1, <3>1
  <2> QED
    BY <2>2, <2>3
<1>5. mined' \in [Blocks -> SUBSET released']
  BY <1>1 DEF ChainOK
<1>6. ASSUME NEW b \in Blocks, mined'[b] # {}
      PROVE  b[2] < forks' \/ (b[2] = forks' /\ b[1] <= Len(chain'))
  <2>1. CASE fresh(b)
    BY <1>1, <1>2, <1>3, <2>1
  <2>2. CASE ~fresh(b)
    <3>1. mined[b] # {}
      BY <1>1, <1>6, <2>2
    <3>2. b[2] <= forks
      BY <3>1, OldBlock
    <3> QED
      BY <1>1, <1>2, <3>2
  <2> QED
    BY <2>1, <2>2
<1>7. BlocksStay
  <2> SUFFICES ASSUME NEW b \in Blocks, mined[b] # {} PROVE mined'[b] = mined[b]
    BY DEF BlocksStay
  <2>1. b[2] <= forks
    BY OldBlock
  <2> QED
    BY <1>1, <1>2, <2>1
<1> QED
  BY <1>1, <1>2, <1>3, <1>4, <1>5, <1>6, <1>7 DEF ChainOK

(* A step of the chain keeps the blocks, and only the mempool moves while  *)
(* the best chain stands still.                                            *)
LEMMA ChainStep ==
    ASSUME ChainOK, Bitcoin!ChainNext
    PROVE  /\ ChainOK' /\ BlocksStay
           /\ chain' = chain => mined' = mined
           /\ released' = released
<1>1. ASSUME NEW S \in SUBSET released, Bitcoin!Mine(S)
      PROVE  chain' # chain /\ released' = released
  BY <1>1, ChainConstants, AppendProperties DEF ChainOK, Bitcoin!Mine
<1>2. ASSUME NEW d \in 1 .. MaxDepth, d <= Len(chain),
             NEW S \in SUBSET released, NEW place \in [S -> 1 .. d + 1],
             Bitcoin!Reorganize(d, S, place)
      PROVE  chain' # chain /\ released' = released
  BY <1>2, ReorganizeStep DEF ChainOK, Bitcoin!Reorganize
<1>3. ASSUME NEW x \in mempool, Bitcoin!Evict(x)
      PROVE  ChainOK' /\ BlocksStay /\ mined' = mined /\ released' = released
  BY <1>3 DEF Bitcoin!Evict, ChainOK, BlocksStay
<1> QED
  BY <1>1, <1>2, <1>3, MineStep, ReorganizeStep DEF Bitcoin!ChainNext

-----------------------------------------------------------------------------
(* What the poll reads.                                                    *)

(* A deeply confirmed transaction is in a block of the best chain, and     *)
(* that block is as deep as the transaction.                               *)
LEMMA DeepBlock ==
    ASSUME ChainOK, NEW t, Deep(t)
    PROVE  /\ Bitcoin!BlockOf(t) \in Blocks
           /\ \E x \in mined[Bitcoin!BlockOf(t)] : x[1] = t /\ x \in Bitcoin!OnChain
           /\ Bitcoin!BlockConfirmations(Bitcoin!BlockOf(t)) >= Required
<1>1. t \in Bitcoin!Ids(Bitcoin!OnChain)
  BY ChainConstants DEF Deep, Bitcoin!Confirmations
<1>2. \E b \in Bitcoin!Best : t \in Bitcoin!Ids(mined[b])
  BY <1>1 DEF Bitcoin!Ids, Bitcoin!OnChain
<1>3. Bitcoin!BlockOf(t) \in Bitcoin!Best /\ t \in Bitcoin!Ids(mined[Bitcoin!BlockOf(t)])
  BY <1>2 DEF Bitcoin!BlockOf
<1>4. Bitcoin!BlockConfirmations(Bitcoin!BlockOf(t)) >= Required
  BY <1>1, <1>3 DEF Deep, Bitcoin!Confirmations, Bitcoin!BlockConfirmations
<1>5. Bitcoin!Best \subseteq Blocks
  BY ChainConstants DEF ChainOK, Bitcoin!Best
<1> QED
  BY <1>3, <1>4, <1>5 DEF Bitcoin!Ids, Bitcoin!OnChain

(* When nothing else is found for it, that block holds the expected bytes. *)
LEMMA FoundBytes ==
    ASSUME ChainOK, NEW t, NEW x, Deep(t), Bitcoin!Found(t) \subseteq {x}
    PROVE  x \in mined[Bitcoin!BlockOf(t)]
BY DeepBlock DEF Bitcoin!Found

-----------------------------------------------------------------------------
(* The rows of a query.                                                    *)

(* The rows of a list without its first.                                   *)
LEMMA TailRows ==
    ASSUME NEW S, NEW rows \in Seq(S), rows # <<>>
    PROVE  /\ Head(rows) \in S /\ Head(rows) = rows[1]
           /\ Tail(rows) \in Seq(S)
           /\ Len(rows) \in Nat /\ Len(Tail(rows)) = Len(rows) - 1
           /\ \A i \in 1 .. Len(rows) - 1 : Tail(rows)[i] = rows[i + 1]
BY HeadTailProperties

(* What is left after the first row: all the others.                       *)
LEMMA RowsLeft ==
    ASSUME NEW S, NEW rows \in Seq(S), rows # <<>>,
           NEW i \in 1 .. Len(rows), rows[i] # Head(rows)
    PROVE  \E j \in 1 .. Len(Tail(rows)) : Tail(rows)[j] = rows[i]
<1>1. i - 1 \in 1 .. Len(Tail(rows)) /\ Tail(rows)[i - 1] = rows[i]
  BY TailRows
<1> QED
  BY <1>1

(* A permutation of a finite set lists every one of its elements.          *)
LEMMA Permutation ==
    ASSUME NEW S, IsFiniteSet(S), NEW rows \in SetToSeqs(S)
    PROVE  /\ rows \in Seq(S)
           /\ \A x \in S : \E i \in 1 .. Len(rows) : rows[i] = x
<1> DEFINE n == Cardinality(S)
<1>1. n \in Nat
  BY FS_CardinalityType
<1>2. rows \in [1 .. n -> S] /\ \A i, j \in 1 .. n : i # j => rows[i] # rows[j]
  BY DEF SetToSeqs
<1>3. rows \in Seq(S) /\ Len(rows) = n
  BY <1>1, <1>2
<1>4. rows \in Injection(1 .. n, S)
  BY <1>2 DEF Injection, IsInjective
<1>5. Cardinality(1 .. n) = n
  BY <1>1, FS_Interval
<1>6. rows \in Surjection(1 .. n, S)
  BY <1>4, <1>5, FS_Injection
<1> QED
  BY <1>3, <1>6 DEF Surjection

-----------------------------------------------------------------------------
(* What the watcher and the submitters hold between their steps.           *)

(* The phases that look at what is confirmed already.                      *)
Reconciling == poll.phase \in {"transitions", "funding"}

(* The rows of each phase are those its query can return.                  *)
PollOK ==
    /\ poll \in [phase : {"idle", "dead", "transitions", "funding", "resume",
                         "activate", "advance"},
                rows : Seq(Txs)]
    /\ poll.phase \in {"transitions", "resume", "advance"} => poll.rows \in Seq(Spends)
    /\ poll.phase = "transitions" =>
          \A i \in 1 .. Len(poll.rows) : poll.rows[i] \in TrackedSpends
    /\ poll.phase \in {"funding", "activate"} => poll.rows \in {<<>>, <<FundingTx>>}
    /\ quiet \in BOOLEAN

(* What was read is about the row at hand.  A block in it is there to      *)
(* stay, holds the approved bytes, and is still deep enough if the chain   *)
(* stood still.                                                            *)
EvidenceOK ==
    evidence # NoEvidence =>
        /\ poll.phase \in {"transitions", "funding", "activate", "advance"}
        /\ poll.rows # <<>> /\ evidence.tx = Head(poll.rows)
        /\ evidence.tx \in TrackedSpends \cup {FundingTx}
        /\ \/ Reconciling /\ evidence.verdict = "rollback"
           \/ /\ evidence.verdict = IF Reconciling THEN "reanchor" ELSE "confirm"
              /\ evidence.block \in Blocks
              /\ Bytes(evidence.tx) \in mined[evidence.block]
              /\ quiet => Bitcoin!BlockConfirmations(evidence.block) >= Required

(* A submission holds the bytes of a spend.                                *)
JobOK ==
    job \in [{Web, Watcher} ->
                {NoJob} \cup [at : {"read", "claim", "send", "lookup", "mark"},
                             bytes : Spends \X Nat]]

(* The inductive invariant: the store's, the chain's, and what a poll and  *)
(* the submissions hold between two steps of the others.                   *)
WInv == IInv /\ ChainOK /\ PollOK /\ EvidenceOK /\ JobOK /\ AnchorsAreEvidence

(* Which transaction the evidence is about, by phase.                      *)
LEMMA RowInHand ==
    ASSUME FundingTx \notin Spends, PollOK, EvidenceOK, evidence # NoEvidence
    PROVE  /\ poll.phase \in {"transitions", "advance"} => evidence.tx \in TrackedSpends
           /\ poll.phase \in {"funding", "activate"} =>
                 evidence.tx = FundingTx /\ poll.rows = <<FundingTx>>
<1>1. ASSUME poll.phase \in {"transitions", "advance"}
      PROVE  evidence.tx \in TrackedSpends
  <2>1. Head(poll.rows) \in Spends
    BY <1>1, HeadTailProperties DEF PollOK, EvidenceOK
  <2> QED
    BY <2>1 DEF EvidenceOK
<1>2. ASSUME poll.phase \in {"funding", "activate"}
      PROVE  evidence.tx = FundingTx /\ poll.rows = <<FundingTx>>
  <2>1. poll.rows = <<FundingTx>>
    BY <1>2 DEF PollOK, EvidenceOK
  <2>2. Head(<<FundingTx>>) = FundingTx
    OBVIOUS
  <2> QED
    BY <2>1, <2>2 DEF EvidenceOK
<1> QED
  BY <1>1, <1>2

(* A recorded confirmation names a block.                                  *)
LEMMA AnchorIsBlock ==
    ASSUME IInv, NEW t \in Txs, CreatorConfirmed(t)
    PROVE  anchor[t] \in Blocks
BY Constants DEF IInv, TypeOK, Lineage, AnchoredIffConfirmed, CreatorConfirmed, Txs, Confirmed

(* A job in progress is about one spend.                                   *)
LEMMA JobInHand ==
    ASSUME JobOK, NEW w \in {Web, Watcher}, job[w] # NoJob
    PROVE  /\ job[w].at \in {"read", "claim", "send", "lookup", "mark"}
           /\ job[w].bytes \in Spends \X Nat
           /\ job[w].bytes[1] \in Spends
BY DEF JobOK

(* The store's transactions that roll back, and those that do not.         *)
Backward ==
    \/ \E prior \in Blocks : RollbackFunding(prior)
    \/ \E t \in Spends, prior \in Blocks : RollbackTransition(t, prior)

(* What the store does otherwise, in the watcher's composition.            *)
Forward ==
    \/ Request
    \/ Submission
    \/ \E b \in Blocks : RecordConfirmedFunding(b)
    \/ \E t \in Spends, b \in Blocks : RecordConfirmedProposal(t, b)
    \/ \E prior, b \in Blocks : ReanchorFunding(prior, b)
    \/ \E t \in Spends, prior, b \in Blocks : ReanchorTransition(t, prior, b)

(* Every step of the watcher, of a submitter or of the chain is one        *)
(* transaction of the store or none, and rolls back only over evidence.    *)
LEMMA StoreStep ==
    ASSUME WInv, [WatcherNext]_allVars
    PROVE  /\ [Next]_vars
           /\ evidence.verdict # "rollback" => [Forward]_vars
<1> USE Constants, ChainConstants
<1> DEFINE Goal == [Forward]_vars \/ (evidence.verdict = "rollback" /\ Backward)
<1> SUFFICES Goal
  BY DEF Next, Watch, Forward, Backward
<1>1. ASSUME UNCHANGED vars PROVE [Forward]_vars
  BY <1>1
<1>2. CASE ChainMoves \/ RequestDies \/ PollDies \/ UNCHANGED allVars
  BY <1>1, <1>2 DEF ChainMoves, RequestDies, PollDies, allVars
<1>3. CASE ParticipantActs
  BY <1>3 DEF ParticipantActs, Forward, Request
<1>4. ASSUME NEW t \in Spends, RequestSubmission(t) PROVE [Forward]_vars
  BY <1>4 DEF RequestSubmission, Forward, Request
<1>5. ASSUME NEW w \in {Web, Watcher}, Submit(w) PROVE [Forward]_vars
  <2>1. ASSUME SubmitClaim(w) \/ SubmitMark(w) PROVE [Forward]_vars
    <3>1. job[w] # NoJob
      BY <2>1 DEF SubmitClaim, SubmitMark, NoJob
    <3>2. job[w].bytes[1] \in Spends
      BY <3>1, JobInHand DEF WInv
    <3> QED
      BY <1>1, <2>1, <3>2 DEF SubmitClaim, SubmitMark, Forward, Submission
  <2> QED
    BY <1>1, <1>5, <2>1 DEF Submit, SubmitRead, SubmitSend, SubmitLookup
<1>6. ASSUME NEW t \in Txs, CreatorConfirmed(t), anchor[t] = evidence.prior
      PROVE  evidence.prior \in Blocks
  BY <1>6, AnchorIsBlock DEF WInv
<1>7. ASSUME evidence # NoEvidence, evidence.verdict # "rollback"
      PROVE  evidence.block \in Blocks
  BY <1>7 DEF WInv, EvidenceOK
<1>8. CASE CommitTransition
  <2>1. evidence.tx \in Spends
    BY <1>8, RowInHand DEF WInv, CommitTransition, TrackedSpends
  <2>2. CASE UNCHANGED vars
    BY <1>1, <2>2
  <2>3. CASE /\ evidence.verdict = "reanchor"
             /\ ReanchorTransition(evidence.tx, evidence.prior, evidence.block)
    <3>1. evidence.prior \in Blocks /\ evidence.block \in Blocks
      BY <1>6, <1>7, <1>8, <2>1, <2>3
         DEF ReanchorTransition, CommitTransition, CreatorConfirmed, Txs
    <3> QED
      BY <2>1, <2>3, <3>1 DEF Forward
  <2>4. CASE /\ evidence.verdict = "rollback"
             /\ RollbackTransition(evidence.tx, evidence.prior)
    <3>1. evidence.prior \in Blocks
      BY <1>6, <2>1, <2>4 DEF RollbackTransition, CreatorConfirmed, Txs
    <3> QED
      BY <2>1, <2>4, <3>1 DEF Backward
  <2> QED
    BY <1>8, <2>2, <2>3, <2>4 DEF CommitTransition
<1>9. CASE CommitFunding
  <2>1. CASE UNCHANGED vars
    BY <1>1, <2>1
  <2>2. CASE evidence.verdict = "reanchor" /\ ReanchorFunding(evidence.prior, evidence.block)
    <3>1. evidence.prior \in Blocks /\ evidence.block \in Blocks
      BY <1>6, <1>7, <1>9, <2>2 DEF ReanchorFunding, CommitFunding, CreatorConfirmed, Txs
    <3> QED
      BY <2>2, <3>1 DEF Forward
  <2>3. CASE evidence.verdict = "rollback" /\ RollbackFunding(evidence.prior)
    <3>1. evidence.prior \in Blocks
      BY <1>6, <2>3 DEF RollbackFunding, CreatorConfirmed, Txs
    <3> QED
      BY <2>3, <3>1 DEF Backward
  <2> QED
    BY <1>9, <2>1, <2>2, <2>3 DEF CommitFunding
<1>10. CASE ActivateFunding \/ AdvanceSpend
  <2>1. evidence.block \in Blocks
    BY <1>7, <1>10 DEF WInv, EvidenceOK, Reconciling, ActivateFunding, AdvanceSpend
  <2>2. AdvanceSpend => evidence.tx \in Spends
    BY RowInHand DEF WInv, AdvanceSpend, TrackedSpends
  <2> QED
    BY <1>10, <2>1, <2>2 DEF ActivateFunding, AdvanceSpend, Forward
<1>11. CASE /\ PollStep
            /\ ~CommitTransition /\ ~CommitFunding /\ ~ActivateFunding /\ ~AdvanceSpend
  BY <1>1, <1>11 DEF PollStep, PollStart, ReadTransition, ReadConfirmation, TransitionsDone,
     ReadFunding, ReconciliationDone, ResumeNext, ResumeDone, ObserveFunding, Resubmit,
     ActivationDone, ObserveSpend, PollDone
<1> QED
  BY <1>2, <1>3, <1>4, <1>5, <1>8, <1>9, <1>10, <1>11 DEF WatcherNext

(* Tracked bytes never change, nor do the funding's.                       *)
LEMMA BytesStay ==
    ASSUME WInv, [Next]_vars
    PROVE  \A t \in TrackedSpends \cup {FundingTx} :
              t \in TrackedSpends' \cup {FundingTx} /\ Bytes(t)' = Bytes(t)
<1>1. [StaysTracked]_vars
  BY TrackedStep DEF WInv
<1>2. \A t \in TrackedSpends : t \in TrackedSpends' /\ version'[t] = version[t]
  <2>1. CASE StaysTracked
    BY <2>1 DEF StaysTracked, TrackedSpends
  <2>2. CASE UNCHANGED vars
    BY <2>2 DEF vars, TrackedSpends
  <2> QED
    BY <1>1, <2>1, <2>2
<1> QED
  BY <1>2, Constants DEF Bytes, TrackedSpends

(* A send adds at most the bytes it carries, and touches no block.         *)
LEMMA SendStep ==
    ASSUME ChainOK, NEW x \in Txs \X Nat, Bitcoin!Send(x)
    PROVE  /\ ChainOK' /\ UNCHANGED <<chain, mined>>
           /\ released' \subseteq released \cup {x}
<1>1. /\ UNCHANGED <<chain, mined, forks>>
      /\ released \subseteq released' /\ released' \subseteq released \cup {x}
  BY DEF Bitcoin!Send
<1> QED
  BY <1>1 DEF ChainOK

(* The poll calls it quiet only when the best chain stands still.          *)
LEMMA QuietStep ==
    ASSUME WInv, [WatcherNext]_allVars, quiet'
    PROVE  chain' = chain /\ (quiet \/ PollStart)
<1>1. CASE ChainMoves
  BY <1>1 DEF ChainMoves, WInv, PollOK
<1>2. ASSUME NEW t, Resubmit(t) PROVE chain' = chain /\ quiet' = quiet
  BY <1>2 DEF Resubmit, Bitcoin!Send
<1>3. ASSUME NEW t, ReadConfirmation(t) PROVE chain' = chain /\ quiet' = quiet
  BY <1>3 DEF ReadConfirmation, PollThrows, PollStops, nodeVars
<1>4. CASE CommitTransition \/ CommitFunding \/ ActivateFunding \/ AdvanceSpend
  BY <1>4 DEF CommitTransition, CommitFunding, ActivateFunding, AdvanceSpend, ReconcileDone,
     PollThrows, PollStops, nodeVars
<1>5. CASE ReadTransition \/ ReadFunding
  BY <1>3, <1>5 DEF ReadTransition, ReadFunding
<1>6. CASE ObserveFunding \/ ObserveSpend
  BY <1>2, <1>6 DEF ObserveFunding, ObserveSpend, PollThrows, PollStops, nodeVars
<1>7. CASE \/ PollStart \/ TransitionsDone \/ ReconciliationDone \/ ResumeNext \/ ResumeDone
           \/ ActivationDone \/ PollDone \/ PollDies
  BY <1>7 DEF PollStart, TransitionsDone, ReconciliationDone, ResumeNext, ResumeDone,
     ActivationDone, PollDone, PollDies, PollStops, nodeVars
<1>8. ASSUME NEW w \in {Web, Watcher}, Submit(w) PROVE chain' = chain /\ quiet' = quiet
  BY <1>8 DEF Submit, SubmitRead, SubmitClaim, SubmitSend, SubmitLookup, SubmitMark, nodeVars,
     Bitcoin!Send
<1>9. CASE \/ ParticipantActs \/ RequestDies \/ UNCHANGED allVars
           \/ \E t \in Spends : RequestSubmission(t)
  BY <1>9 DEF ParticipantActs, RequestDies, RequestSubmission, allVars, nodeVars, watchVars
<1> QED
  BY <1>1, <1>4, <1>5, <1>6, <1>7, <1>8, <1>9 DEF WatcherNext, PollStep

(* The node and its network, in any step: every block stays.               *)
LEMMA NodeStep ==
    ASSUME WInv, [WatcherNext]_allVars
    PROVE  ChainOK' /\ BlocksStay
<1>1. CASE UNCHANGED nodeVars
  BY <1>1 DEF WInv, ChainOK, BlocksStay, nodeVars
<1>2. CASE ChainMoves
  BY <1>2, ChainStep DEF ChainMoves, WInv
<1>3. ASSUME NEW w \in {Web, Watcher}, SubmitSend(w) PROVE ChainOK' /\ BlocksStay
  <2>1. job[w].bytes \in Txs \X Nat
    BY <1>3, JobInHand DEF WInv, SubmitSend, NoJob, Txs
  <2> QED
    BY <1>1, <1>3, <2>1, SendStep DEF SubmitSend, WInv, BlocksStay
<1>4. ASSUME NEW t \in Txs, Resubmit(t) PROVE ChainOK' /\ BlocksStay
  <2>1. Bytes(t) \in Txs \X Nat
    BY Constants DEF Bytes, Txs, WInv, IInv, TypeOK
  <2> QED
    BY <1>4, <2>1, SendStep DEF Resubmit, WInv, BlocksStay
<1>5. CASE ObserveFunding \/ ObserveSpend
  BY <1>1, <1>4, <1>5 DEF ObserveFunding, ObserveSpend, Candidates, Txs
<1>6. CASE PollStep /\ ~ObserveFunding /\ ~ObserveSpend
  BY <1>1, <1>6 DEF PollStep, PollStart, ReadTransition, ReadConfirmation, TransitionsDone,
     ReadFunding, ReconciliationDone, ResumeNext, ResumeDone, ActivationDone, PollDone,
     CommitTransition, CommitFunding, ActivateFunding, AdvanceSpend
<1>7. ASSUME NEW w \in {Web, Watcher}, Submit(w), ~SubmitSend(w) PROVE UNCHANGED nodeVars
  BY <1>7 DEF Submit, SubmitRead, SubmitClaim, SubmitLookup, SubmitMark
<1>8. CASE \/ ParticipantActs \/ RequestDies \/ PollDies \/ UNCHANGED allVars
           \/ \E t \in Spends : RequestSubmission(t)
  BY <1>1, <1>8 DEF ParticipantActs, RequestDies, PollDies, RequestSubmission, allVars
<1> QED
  BY <1>1, <1>2, <1>3, <1>5, <1>6, <1>7, <1>8 DEF WatcherNext

-----------------------------------------------------------------------------
(* Recorded confirmations.                                                 *)

(* A confirmation that is recorded in this step was read from the node.    *)
Recording(t) ==
    /\ evidence # NoEvidence /\ t = evidence.tx
    /\ evidence.verdict # "rollback"
    /\ anchor'[t] = evidence.block

(* A confirmation changes only by being recorded, or by a rollback.        *)
LEMMA AnchorStep ==
    ASSUME WInv, [WatcherNext]_allVars, NEW t \in Txs, anchor'[t] # NoBlock
    PROVE  anchor'[t] = anchor[t] \/ Recording(t)
<1> USE Constants DEF WInv, IInv, TypeOK
<1>1. CASE UNCHANGED vars
  BY <1>1 DEF vars
<1>2. CASE ParticipantActs
  BY <1>2 DEF ParticipantActs, ObserveCoin, CreateProposal, Finalize, ProposalExpires,
     CreateBroadcastApprovalChallenge, CompleteBroadcastApproval
<1>3. ASSUME NEW s \in Spends, RequestSubmission(s) PROVE anchor' = anchor
  BY <1>3 DEF RequestSubmission, CompleteBroadcastApproval
<1>4. ASSUME NEW w \in {Web, Watcher}, Submit(w) PROVE anchor' = anchor
  BY <1>4 DEF Submit, SubmitRead, SubmitClaim, SubmitSend, SubmitLookup, SubmitMark,
     ClaimBroadcast, MarkBroadcast, vars
<1>5. CASE CommitTransition \/ AdvanceSpend
  <2>1. evidence.tx \in Txs /\ evidence # NoEvidence
    BY <1>5, RowInHand DEF CommitTransition, AdvanceSpend, TrackedSpends, Txs
  <2>2. CASE AdvanceSpend
    BY <2>1, <2>2 DEF AdvanceSpend, RecordConfirmedProposal, Recording, EvidenceOK, Reconciling
  <2>3. CASE /\ evidence.verdict = "reanchor"
             /\ ReanchorTransition(evidence.tx, evidence.prior, evidence.block)
    BY <2>1, <2>3 DEF ReanchorTransition, Recording
  <2>4. CASE RollbackTransition(evidence.tx, evidence.prior)
    BY <2>1, <2>4 DEF RollbackTransition
  <2> QED
    BY <1>1, <1>5, <2>2, <2>3, <2>4 DEF CommitTransition
<1>6. CASE CommitFunding \/ ActivateFunding
  <2>1. evidence.tx = FundingTx /\ evidence # NoEvidence
    BY <1>6, RowInHand DEF CommitFunding, ActivateFunding
  <2>2. CASE ActivateFunding
    BY <2>1, <2>2 DEF ActivateFunding, RecordConfirmedFunding, Recording, EvidenceOK,
       Reconciling, Txs
  <2>3. CASE evidence.verdict = "reanchor" /\ ReanchorFunding(evidence.prior, evidence.block)
    BY <2>1, <2>3 DEF ReanchorFunding, Recording, Txs
  <2>4. CASE RollbackFunding(evidence.prior)
    BY <2>4 DEF RollbackFunding, Txs
  <2> QED
    BY <1>1, <1>6, <2>2, <2>3, <2>4 DEF CommitFunding
<1>7. CASE /\ PollStep
           /\ ~CommitTransition /\ ~CommitFunding /\ ~ActivateFunding /\ ~AdvanceSpend
  BY <1>1, <1>7 DEF PollStep, PollStart, ReadTransition, ReadConfirmation, TransitionsDone,
     ReadFunding, ReconciliationDone, ResumeNext, ResumeDone, ObserveFunding, Resubmit,
     ActivationDone, ObserveSpend, PollDone
<1>8. CASE ChainMoves \/ RequestDies \/ PollDies \/ UNCHANGED allVars
  BY <1>1, <1>8 DEF ChainMoves, RequestDies, PollDies, allVars
<1> QED
  BY <1>2, <1>3, <1>4, <1>5, <1>6, <1>7, <1>8 DEF WatcherNext

(* What a confirmation says of its block stays true.                       *)
LEMMA EvidenceStep ==
    ASSUME WInv, [WatcherNext]_allVars
    PROVE  AnchorsAreEvidence'
<1> SUFFICES ASSUME NEW t \in Txs, anchor'[t] # NoBlock
             PROVE  Bytes(t)' \in mined'[anchor'[t]]
  BY DEF AnchorsAreEvidence
<1>1. [Next]_vars /\ BlocksStay
  BY StoreStep, NodeStep
<1>2. CASE anchor'[t] = anchor[t]
  <2>1. t \in TrackedSpends \cup {FundingTx} /\ anchor[t] \in Blocks
    BY <1>2, Constants DEF WInv, IInv, TypeOK, Lineage, AnchoredIffConfirmed, Confirmed,
       TrackedSpends, Txs
  <2>2. Bytes(t) \in mined[anchor[t]]
    BY <1>2 DEF WInv, AnchorsAreEvidence
  <2> QED
    BY <1>1, <1>2, <2>1, <2>2, BytesStay DEF BlocksStay
<1>3. CASE Recording(t)
  <2>1. /\ t \in TrackedSpends \cup {FundingTx}
        /\ anchor'[t] \in Blocks /\ Bytes(t) \in mined[anchor'[t]]
    BY <1>3 DEF Recording, WInv, EvidenceOK
  <2> QED
    BY <1>1, <2>1, BytesStay DEF BlocksStay
<1> QED
  BY <1>2, <1>3, AnchorStep

-----------------------------------------------------------------------------
(* What is held, kept in order by every step.                              *)

(* Submissions keep their types.                                           *)
LEMMA JobStep ==
    ASSUME WInv, [WatcherNext]_allVars
    PROVE  JobOK'
<1> USE DEF WInv
<1>1. CASE UNCHANGED job
  BY <1>1 DEF JobOK
<1>2. ASSUME NEW w \in {Web, Watcher}, EndJob(w) PROVE JobOK'
  BY <1>2 DEF JobOK, EndJob
<1>3. ASSUME NEW w \in {Web, Watcher}, NEW t \in Spends, StartJob(w, t) PROVE JobOK'
  <2>1. Bytes(t) \in Spends \X Nat
    BY Constants DEF IInv, TypeOK, Bytes
  <2> QED
    BY <1>3, <2>1 DEF JobOK, StartJob
<1>4. ASSUME NEW w \in {Web, Watcher}, job[w] # NoJob,
             NEW at \in {"read", "claim", "send", "lookup", "mark"}, JobGoesTo(w, at)
      PROVE  JobOK'
  BY <1>4, JobInHand DEF JobOK, JobGoesTo
<1>5. ASSUME NEW w \in {Web, Watcher}, Submit(w) PROVE JobOK'
  <2>1. job[w] # NoJob
    BY <1>5 DEF Submit, SubmitRead, SubmitClaim, SubmitSend, SubmitLookup, SubmitMark, NoJob
  <2> QED
    BY <1>2, <1>4, <1>5, <2>1 DEF Submit, SubmitRead, SubmitClaim, SubmitSend, SubmitLookup,
       SubmitMark, FirstStep
<1>6. ASSUME NEW t \in Spends, RequestSubmission(t) PROVE JobOK'
  BY <1>3, <1>6 DEF RequestSubmission
<1>7. CASE RequestDies \/ PollDies
  BY <1>2, <1>7 DEF RequestDies, PollDies, PollStops
<1>8. CASE ResumeNext
  <2>1. Head(poll.rows) \in Spends
    BY <1>8, TailRows DEF ResumeNext, PollOK
  <2> QED
    BY <1>3, <1>8, <2>1 DEF ResumeNext
<1>9. CASE PollStep /\ ~ResumeNext
  BY <1>1, <1>2, <1>9 DEF PollStep, PollStart, ReadTransition, ReadConfirmation,
     CommitTransition, TransitionsDone, ReadFunding, CommitFunding, ReconciliationDone,
     ResumeDone, ObserveFunding, Resubmit, ActivateFunding, ActivationDone, ObserveSpend,
     AdvanceSpend, PollDone, ReconcileDone, PollThrows, PollStops
<1>10. CASE ChainMoves \/ ParticipantActs \/ UNCHANGED allVars
  BY <1>1, <1>10 DEF ChainMoves, ParticipantActs, allVars, watchVars
<1> QED
  BY <1>5, <1>6, <1>7, <1>8, <1>9, <1>10 DEF WatcherNext

(* The rows of a poll stay those of its phase, whoever acts in between.    *)
LEMMA PollStepOK ==
    ASSUME WInv, [WatcherNext]_allVars
    PROVE  PollOK'
<1> USE DEF WInv
<1>1. \A t \in TrackedSpends : t \in TrackedSpends'
  BY StoreStep, BytesStay, Constants DEF TrackedSpends
<1>2. ASSUME UNCHANGED poll, quiet' \in BOOLEAN PROVE PollOK'
  BY <1>1, <1>2 DEF PollOK
<1>3. ASSUME NextRow, poll.rows # <<>>, UNCHANGED quiet PROVE PollOK'
  <2>1. /\ poll'.phase = poll.phase /\ poll'.rows = Tail(poll.rows)
        /\ poll' = [phase |-> poll'.phase, rows |-> poll'.rows]
    BY <1>3 DEF NextRow, PollOK
  <2>2. Tail(poll.rows) \in Seq(Txs)
    BY <1>3, TailRows DEF PollOK
  <2>3. poll.phase \in {"transitions", "resume", "advance"} => Tail(poll.rows) \in Seq(Spends)
    BY <1>3, TailRows DEF PollOK
  <2>4. poll.phase = "transitions" =>
           \A j \in 1 .. Len(Tail(poll.rows)) : Tail(poll.rows)[j] \in TrackedSpends'
    BY <1>1, <1>3, TailRows DEF PollOK
  <2>5. poll.phase \in {"funding", "activate"} => Tail(poll.rows) = <<>>
    <3>1. Tail(<<FundingTx>>) = <<>>
      OBVIOUS
    <3> QED
      BY <1>3, <3>1 DEF PollOK
  <2> QED
    BY <1>3, <2>1, <2>2, <2>3, <2>4, <2>5 DEF PollOK
<1>4. ASSUME NEW left \in {Idle, Dead}, PollStops(left) PROVE PollOK'
  <2>1. <<>> \in Seq(Txs)
    OBVIOUS
  <2>2. poll' = left /\ quiet' = FALSE
    BY <1>4 DEF PollStops
  <2>3. left.phase \in {"idle", "dead"} /\ left.rows = <<>>
    BY DEF Idle, Dead
  <2>4. left = [phase |-> left.phase, rows |-> left.rows]
    BY DEF Idle, Dead
  <2> QED
    BY <2>1, <2>2, <2>3, <2>4 DEF PollOK
<1>5. ASSUME NEW p \in {"resume", "advance"}, NEW S \in SUBSET Spends,
             NEW rows \in SetToSeqs(S), Phase(p, rows), UNCHANGED quiet
      PROVE  PollOK'
  <2>1. rows \in Seq(S)
    BY FixedGraphAssumption, FS_Subset, Permutation
  <2>2. rows \in Seq(Spends) /\ rows \in Seq(Txs)
    BY <2>1, SeqMonotonic DEF Txs
  <2> QED
    BY <1>5, <2>2 DEF Phase, PollOK
<1>6. ASSUME NEW p \in {"funding", "activate"}, NEW rows \in {<<>>, <<FundingTx>>},
             Phase(p, rows), UNCHANGED quiet
      PROVE  PollOK'
  <2>1. FundingTx \in Txs /\ <<>> \in Seq(Txs)
    BY DEF Txs
  <2>2. <<FundingTx>> \in Seq(Txs)
    BY <2>1
  <2> QED
    BY <1>6, <2>1, <2>2 DEF Phase, PollOK
<1>7. CASE PollStart
  <2>1. PICK rows \in ConfirmedRows : Phase("transitions", rows)
    BY <1>7 DEF PollStart
  <2>2. rows \in SetToSeqs({t \in Spends : Confirmed(t)})
    BY <2>1 DEF ConfirmedRows
  <2>3. rows \in Seq({t \in Spends : Confirmed(t)})
    BY <2>2, FixedGraphAssumption, FS_Subset, Permutation
  <2>4. rows \in Seq(Spends) /\ rows \in Seq(Txs)
    BY <2>3, SeqMonotonic DEF Txs
  <2>5. \A j \in 1 .. Len(rows) : rows[j] \in TrackedSpends'
    BY <1>1, <2>3, ElementOfSeq DEF TrackedSpends, Confirmed
  <2> QED
    BY <1>7, <2>1, <2>4, <2>5 DEF PollStart, Phase, PollOK
<1>8. ASSUME NEW t, ReadConfirmation(t), poll.rows # <<>> PROVE PollOK'
  <2>1. CASE NextRow /\ UNCHANGED quiet
    BY <1>3, <1>8, <2>1
  <2>2. CASE PollThrows
    BY <1>4, <2>2 DEF PollThrows
  <2>3. CASE UNCHANGED <<poll, quiet>>
    BY <1>2, <2>3 DEF PollOK
  <2> QED
    BY <1>8, <2>1, <2>2, <2>3 DEF ReadConfirmation
<1>9. CASE ReadTransition \/ ReadFunding
  BY <1>8, <1>9 DEF ReadTransition, ReadFunding
<1>10. CASE CommitTransition \/ CommitFunding \/ ActivateFunding \/ AdvanceSpend
  <2>1. poll.rows # <<>>
    BY <1>10 DEF EvidenceOK, CommitTransition, CommitFunding, ActivateFunding, AdvanceSpend
  <2> QED
    BY <1>3, <1>4, <1>10, <2>1 DEF CommitTransition, CommitFunding, ActivateFunding,
       AdvanceSpend, ReconcileDone, PollThrows
<1>11. CASE TransitionsDone \/ ResumeDone
  BY <1>6, <1>11 DEF TransitionsDone, ResumeDone
<1>12. CASE ReconciliationDone
  BY <1>5, <1>12 DEF ReconciliationDone, Interrupted
<1>13. CASE ResumeNext
  BY <1>3, <1>13 DEF ResumeNext
<1>14. CASE ObserveFunding
  BY <1>2, <1>3, <1>4, <1>14 DEF ObserveFunding, Resubmit, PollThrows, PollOK
<1>15. CASE ActivationDone
  BY <1>5, <1>15 DEF ActivationDone, Candidates
<1>16. CASE ObserveSpend
  BY <1>2, <1>3, <1>16 DEF ObserveSpend, Resubmit, PollOK
<1>17. CASE PollDone
  <2>1. <<>> \in Seq(Txs)
    OBVIOUS
  <2> QED
    BY <1>17, <2>1 DEF PollDone, Idle, PollOK
<1>18. CASE PollDies
  BY <1>4, <1>18 DEF PollDies
<1>19. ASSUME NEW w \in {Web, Watcher}, Submit(w) PROVE PollOK'
  BY <1>2, <1>19 DEF Submit, SubmitRead, SubmitClaim, SubmitSend, SubmitLookup, SubmitMark, PollOK
<1>20. CASE \/ ChainMoves \/ ParticipantActs \/ RequestDies \/ UNCHANGED allVars
            \/ \E t \in Spends : RequestSubmission(t)
  BY <1>2, <1>20 DEF ChainMoves, ParticipantActs, RequestDies, RequestSubmission, allVars,
     watchVars, PollOK
<1> QED
  BY <1>7, <1>9, <1>10, <1>11, <1>12, <1>13, <1>14, <1>15, <1>16, <1>17, <1>18, <1>19, <1>20
     DEF WatcherNext, PollStep

(* What the node answers about a row is good evidence.                     *)
LEMMA FreshEvidence ==
    ASSUME WInv, poll.rows # <<>>, NEW t, t = Head(poll.rows),
           t \in TrackedSpends \cup {FundingTx},
           UNCHANGED <<vars, chain, mined, poll, quiet>>,
           \/ /\ Reconciling /\ ReadConfirmation(t)
              /\ Verdict(t) \notin {"stable", "mismatch"}
           \/ /\ poll.phase \in {"activate", "advance"} /\ ConfirmEvidence(t)
              /\ Deep(t) /\ Bitcoin!HoldsExactly(Bytes(t))
    PROVE  EvidenceOK'
<1> USE DEF WInv
<1>1. /\ Head(poll.rows)' = Head(poll.rows)
      /\ TrackedSpends' = TrackedSpends
      /\ \A s, b : Bytes(s)' = Bytes(s)
      /\ \A b : Bitcoin!BlockConfirmations(b)' = Bitcoin!BlockConfirmations(b)
      /\ Reconciling' = Reconciling
  BY DEF vars, TrackedSpends, Bytes, Bitcoin!BlockConfirmations, Bitcoin!Best, Reconciling
<1>2. Bytes(t)[1] = t
  BY DEF Bytes
<1>3. ASSUME Deep(t), Bitcoin!Found(t) \subseteq {Bytes(t)}
      PROVE  /\ Bitcoin!BlockOf(t) \in Blocks
             /\ Bytes(t) \in mined[Bitcoin!BlockOf(t)]
             /\ Bitcoin!BlockConfirmations(Bitcoin!BlockOf(t)) >= Required
  BY <1>3, DeepBlock, FoundBytes
<1>4. CASE /\ Reconciling /\ ReadConfirmation(t)
           /\ Verdict(t) \notin {"stable", "mismatch"}
  <2>1. /\ evidence'.tx = t /\ evidence'.verdict = Verdict(t)
        /\ evidence'.block = IF Deep(t) THEN Bitcoin!BlockOf(t) ELSE NoBlock
    BY <1>4 DEF ReadConfirmation
  <2>2. \/ Verdict(t) = "rollback"
        \/ Verdict(t) = "reanchor" /\ Deep(t) /\ Bitcoin!Found(t) \subseteq {Bytes(t)}
    BY <1>4 DEF Verdict
  <2> QED
    BY <1>1, <1>3, <1>4, <2>1, <2>2 DEF EvidenceOK, Reconciling
<1>5. CASE /\ poll.phase \in {"activate", "advance"} /\ ConfirmEvidence(t)
           /\ Deep(t) /\ Bitcoin!HoldsExactly(Bytes(t))
  <2>1. /\ evidence'.tx = t /\ evidence'.verdict = "confirm"
        /\ evidence'.block = Bitcoin!BlockOf(t)
    BY <1>5 DEF ConfirmEvidence
  <2>2. Bitcoin!Found(t) = {Bytes(t)}
    BY <1>2, <1>5 DEF Bitcoin!HoldsExactly
  <2> QED
    BY <1>1, <1>3, <1>5, <2>1, <2>2 DEF EvidenceOK, Reconciling
<1> QED
  BY <1>4, <1>5

(* Evidence that waits for its transaction stays good, whatever the other  *)
(* processes and the chain do meanwhile.                                   *)
LEMMA EvidenceWaits ==
    ASSUME WInv, [WatcherNext]_allVars, UNCHANGED <<poll, evidence>>
    PROVE  EvidenceOK'
<1> SUFFICES ASSUME evidence # NoEvidence
             PROVE  EvidenceOK'
  BY DEF EvidenceOK
<1> USE DEF WInv, EvidenceOK
<1>1. /\ evidence'.tx = Head(poll.rows)' /\ poll'.rows # <<>>
      /\ poll'.phase \in {"transitions", "funding", "activate", "advance"}
      /\ Reconciling' = Reconciling
  BY DEF Reconciling
<1>2. /\ evidence'.tx \in TrackedSpends' \cup {FundingTx}
      /\ Bytes(evidence.tx)' = Bytes(evidence.tx)
  BY StoreStep, BytesStay
<1>3. CASE Reconciling /\ evidence.verdict = "rollback"
  BY <1>1, <1>2, <1>3
<1>4. CASE ~(Reconciling /\ evidence.verdict = "rollback")
  <2>1. /\ evidence.block \in Blocks /\ Bytes(evidence.tx) \in mined[evidence.block]
        /\ quiet => Bitcoin!BlockConfirmations(evidence.block) >= Required
    BY <1>4
  <2>2. Bytes(evidence.tx)' \in mined'[evidence'.block]
    BY <1>2, <2>1, NodeStep DEF BlocksStay
  <2>3. quiet' => Bitcoin!BlockConfirmations(evidence.block)' >= Required
    <3>1. ~PollStart
      BY DEF PollStart, Phase, Idle, Dead
    <3> QED
      BY <2>1, <3>1, QuietStep DEF Bitcoin!BlockConfirmations, Bitcoin!Best
  <2> QED
    BY <1>1, <1>2, <1>4, <2>1, <2>2, <2>3
<1> QED
  BY <1>3, <1>4

(* What was read stays what was read, until it is used or dropped.         *)
LEMMA EvidenceOKStep ==
    ASSUME WInv, [WatcherNext]_allVars
    PROVE  EvidenceOK'
<1> USE DEF WInv
<1>1. ASSUME evidence' = NoEvidence PROVE EvidenceOK'
  BY <1>1 DEF EvidenceOK
<1>2. CASE UNCHANGED <<poll, evidence>>
  BY <1>2, EvidenceWaits
<1>3. ASSUME NEW t, t = Head(poll.rows), Reconciling, poll.rows # <<>>, ReadConfirmation(t),
             t \in TrackedSpends \cup {FundingTx}
      PROVE  EvidenceOK'
  <2>1. CASE Verdict(t) = "stable"
    BY <1>1, <1>3, <2>1 DEF ReadConfirmation
  <2>2. CASE Verdict(t) = "mismatch"
    BY <1>1, <1>3, <2>2 DEF ReadConfirmation, PollThrows, PollStops
  <2>3. CASE Verdict(t) \notin {"stable", "mismatch"}
    <3>1. UNCHANGED <<vars, chain, mined, poll, quiet>>
      BY <1>3, <2>3 DEF ReadConfirmation, nodeVars
    <3> QED
      BY <1>3, <2>3, <3>1, FreshEvidence
  <2> QED
    BY <2>1, <2>2, <2>3
<1>4. CASE ReadTransition
  <2>1. Head(poll.rows) \in TrackedSpends /\ Reconciling
    BY <1>4, TailRows DEF ReadTransition, PollOK, Reconciling
  <2> QED
    BY <1>3, <1>4, <2>1 DEF ReadTransition
<1>5. CASE ReadFunding
  <2>1. FundingTx = Head(poll.rows) /\ Reconciling
    <3>1. Head(<<FundingTx>>) = FundingTx
      OBVIOUS
    <3> QED
      BY <1>5, <3>1 DEF ReadFunding, PollOK, Reconciling
  <2> QED
    BY <1>3, <1>5, <2>1 DEF ReadFunding
<1>6. CASE ObserveFunding
  <2>1. FundingTx = Head(poll.rows)
    <3>1. Head(<<FundingTx>>) = FundingTx
      OBVIOUS
    <3> QED
      BY <1>6, <3>1 DEF ObserveFunding, PollOK
  <2>2. CASE /\ Bitcoin!HoldsExactly(Bytes(FundingTx)) /\ Deep(FundingTx)
             /\ ConfirmEvidence(FundingTx)
             /\ UNCHANGED <<vars, nodeVars, poll, quiet>>
    BY <1>6, <2>1, <2>2, FreshEvidence DEF ObserveFunding, nodeVars
  <2>3. CASE evidence' = NoEvidence
    BY <1>1, <2>3
  <2> QED
    BY <1>6, <2>2, <2>3 DEF ObserveFunding, Resubmit, PollThrows, PollStops
<1>7. CASE ObserveSpend
  <2>1. CASE /\ Head(poll.rows) \in Candidates /\ Bitcoin!HoldsExactly(Bytes(Head(poll.rows)))
             /\ Deep(Head(poll.rows)) /\ ConfirmEvidence(Head(poll.rows))
             /\ UNCHANGED <<vars, nodeVars, poll, quiet>>
    <3>1. Head(poll.rows) \in TrackedSpends
      BY <2>1 DEF Candidates, Confirmable, TrackedSpends
    <3> QED
      BY <1>7, <2>1, <3>1, FreshEvidence DEF ObserveSpend, nodeVars
  <2>2. CASE evidence' = evidence
    BY <1>1, <1>7, <2>2 DEF ObserveSpend
  <2> QED
    BY <1>7, <2>1, <2>2 DEF ObserveSpend, Resubmit
<1>8. CASE \/ PollStart \/ CommitTransition \/ TransitionsDone \/ CommitFunding
           \/ ReconciliationDone \/ ResumeNext \/ ResumeDone \/ ActivateFunding
           \/ ActivationDone \/ AdvanceSpend \/ PollDone \/ PollDies
  <2>1. CASE PollStart \/ ResumeNext \/ ResumeDone
    BY <1>1, <2>1 DEF PollStart, ResumeNext, ResumeDone, EvidenceOK, Idle, Dead
  <2>2. CASE TransitionsDone \/ ReconciliationDone \/ ActivationDone \/ PollDone
    BY <1>1, <2>2 DEF TransitionsDone, ReconciliationDone, ActivationDone, PollDone, EvidenceOK
  <2>3. CASE CommitTransition \/ CommitFunding \/ ActivateFunding \/ AdvanceSpend \/ PollDies
    BY <1>1, <2>3 DEF CommitTransition, CommitFunding, ActivateFunding, AdvanceSpend, PollDies,
       ReconcileDone, PollThrows, PollStops
  <2> QED
    BY <1>8, <2>1, <2>2, <2>3
<1>9. ASSUME NEW w \in {Web, Watcher}, Submit(w) PROVE EvidenceOK'
  BY <1>2, <1>9 DEF Submit, SubmitRead, SubmitClaim, SubmitSend, SubmitLookup, SubmitMark
<1>10. CASE \/ ChainMoves \/ ParticipantActs \/ RequestDies \/ UNCHANGED allVars
            \/ \E t \in Spends : RequestSubmission(t)
  BY <1>2, <1>10 DEF ChainMoves, ParticipantActs, RequestDies, RequestSubmission, allVars,
     watchVars
<1> QED
  BY <1>4, <1>5, <1>6, <1>7, <1>8, <1>9, <1>10 DEF WatcherNext, PollStep

-----------------------------------------------------------------------------
(* Nothing is confirmed, read or under way at first.                       *)
LEMMA WatcherInitOK == WatcherInit => WInv
<1> SUFFICES ASSUME WatcherInit PROVE WInv
  OBVIOUS
<1> USE Constants, ChainConstants DEF WatcherInit
<1>1. IInv
  BY DEF Init, IInv, TypeOK, Lineage, CoinOnChain, SpentByConfirmed, SingleTip,
     NoProposalOnOrphan, ApprovedBeforeTracked, AnchoredIffConfirmed, CreatorConfirmed,
     Confirmed, Recorded, Unsent, Txs, Coins
<1>2. ChainOK
  <2>1. <<>> \in Seq(0 .. MaxForks) /\ Len(<<>>) = 0
    OBVIOUS
  <2> QED
    BY <2>1 DEF Bitcoin!ChainInit, ChainOK, Txs
<1>3. PollOK
  <2>1. <<>> \in Seq(Txs)
    OBVIOUS
  <2> QED
    BY <2>1 DEF PollOK, Idle
<1>4. EvidenceOK /\ JobOK
  BY DEF EvidenceOK, JobOK
<1>5. AnchorsAreEvidence
  BY DEF Init, AnchorsAreEvidence
<1> QED
  BY <1>1, <1>2, <1>3, <1>4, <1>5 DEF WInv

(* Every behaviour of the watcher, the submitters and the chain satisfies  *)
(* what the steps above take from each other.                              *)
LEMMA WatcherInvariant == WatcherSpec => []WInv
<1>1. WInv /\ [WatcherNext]_allVars => WInv'
  <2> SUFFICES ASSUME WInv, [WatcherNext]_allVars PROVE WInv'
    OBVIOUS
  <2>1. IInv'
    BY StoreStep, InvariantStep DEF WInv
  <2> QED
    BY <2>1, NodeStep, PollStepOK, EvidenceOKStep, JobStep, EvidenceStep DEF WInv
<1> QED
  BY <1>1, WatcherInitOK, PTL DEF WatcherSpec

(* The poll and the submissions, in any interleaving with the chain, with  *)
(* crashes and with lost answers, only ever run the store's transactions   *)
(* as module VaultStore has them: what is proved of that module's Spec is  *)
(* true of the whole.                                                      *)
THEOREM WatcherRunsTheStore == WatcherSpec => Spec
<1>1. WatcherInit => Init
  BY DEF WatcherInit
<1>2. WInv /\ [WatcherNext]_allVars => [Next]_vars
  BY StoreStep
<1> QED
  BY <1>1, <1>2, WatcherInvariant, PTL DEF WatcherSpec, Spec

(* So the watcher keeps the lineage, the tracked bytes, the completed      *)
(* approvals and the promise of module VaultLineage.                       *)
THEOREM WatcherKeepsThePromise ==
    WatcherSpec => []Lineage /\ BroadcastStaysTracked /\ AuthorizedIntentKept /\ ImplementsLineage
BY WatcherRunsTheStore, LineageCorrect, TrackedForever, ApprovalSurvives,
   StoreImplementsLineage

(* Every recorded confirmation names a block that really contained the     *)
(* exact approved bytes.                                                   *)
THEOREM AnchorsCorrect == WatcherSpec => []AnchorsAreEvidence
<1>1. WInv => AnchorsAreEvidence
  BY DEF WInv
<1> QED
  BY <1>1, WatcherInvariant, PTL

-----------------------------------------------------------------------------
(* Reconciliation.  As long as the chain stands still, every recorded      *)
(* confirmation is deep enough or among the rows still to be read.         *)

(* A recorded confirmation is as deep as the policy asks.                  *)
Settled(t) == anchor[t] # NoBlock => Bitcoin!BlockConfirmations(anchor[t]) >= Required

(* The poll will come to it.                                               *)
InRows(t) == \E i \in 1 .. Len(poll.rows) : poll.rows[i] = t

(* The poll has yet to look at its confirmation.                           *)
Unread(t) ==
    \/ poll.phase = "transitions" /\ t = FundingTx
    \/ Reconciling /\ InRows(t)

(* What the poll has looked at is settled, if no block moved since.        *)
ReconciledSoFar ==
    quiet /\ poll.phase \notin {"idle", "dead"} => \A t \in Txs : Settled(t) \/ Unread(t)

(* A confirmation that is deep enough, or that is just being recorded,     *)
(* stays deep enough while the chain stands still.                         *)
LEMMA SettledStays ==
    ASSUME WInv, [WatcherNext]_allVars, quiet, chain' = chain, NEW t \in Txs,
           Settled(t) \/ Recording(t)
    PROVE  Settled(t)'
<1> SUFFICES ASSUME anchor'[t] # NoBlock
             PROVE  Bitcoin!BlockConfirmations(anchor[t])' >= Required
  BY DEF Settled
<1>1. \A b : Bitcoin!BlockConfirmations(b)' = Bitcoin!BlockConfirmations(b)
  BY DEF Bitcoin!BlockConfirmations, Bitcoin!Best
<1>2. CASE Recording(t)
  BY <1>1, <1>2 DEF Recording, WInv, EvidenceOK
<1>3. CASE anchor'[t] = anchor[t]
  BY <1>1, <1>2, <1>3 DEF Settled
<1> QED
  BY <1>2, <1>3, AnchorStep

(* The row at hand is settled when the poll goes on to the next one.       *)
LEMMA RowSettled ==
    ASSUME WInv, [WatcherNext]_allVars, quiet, chain' = chain, Reconciling,
           poll.rows # <<>>, NextRow,
           NEW t \in Txs, Unread(t),
           Settled(t) \/ Recording(t) \/ anchor'[t] = NoBlock \/ t # Head(poll.rows)
    PROVE  Settled(t)' \/ Unread(t)'
<1>1. CASE Settled(t) \/ Recording(t)
  BY <1>1, SettledStays
<1>2. CASE anchor'[t] = NoBlock
  BY <1>2 DEF Settled
<1>3. CASE t # Head(poll.rows)
  <2>1. poll'.phase = poll.phase /\ poll'.rows = Tail(poll.rows)
    BY DEF NextRow, WInv, PollOK
  <2>2. CASE InRows(t)
    BY <1>3, <2>1, <2>2, RowsLeft DEF InRows, Unread, Reconciling, WInv, PollOK
  <2>3. CASE poll.phase = "transitions" /\ t = FundingTx
    BY <2>1, <2>3 DEF Unread
  <2> QED
    BY <2>2, <2>3 DEF Unread
<1> QED
  BY <1>1, <1>2, <1>3

(* Each step of the poll that takes a row away settles it.                 *)
LEMMA ReconciledStep ==
    ASSUME WInv, ReconciledSoFar, [WatcherNext]_allVars
    PROVE  ReconciledSoFar'
<1> SUFFICES ASSUME quiet', poll'.phase \notin {"idle", "dead"}, NEW t \in Txs
             PROVE  Settled(t)' \/ Unread(t)'
  BY DEF ReconciledSoFar
<1> USE DEF WInv
<1>1. chain' = chain /\ (quiet \/ PollStart)
  BY QuietStep
<1>2. CASE PollStart
  <2>1. PICK rows \in ConfirmedRows : Phase("transitions", rows)
    BY <1>2 DEF PollStart
  <2> DEFINE rowsWanted == {s \in Spends : Confirmed(s)}
  <2>2. \A s \in rowsWanted : \E i \in 1 .. Len(rows) : rows[i] = s
    <3>1. IsFiniteSet(rowsWanted) /\ rows \in SetToSeqs(rowsWanted)
      BY <2>1, FixedGraphAssumption, FS_Subset DEF ConfirmedRows
    <3> HIDE DEF rowsWanted
    <3> QED
      BY <3>1, Permutation
  <2>3. t = FundingTx \/ anchor'[t] = NoBlock \/ t \in rowsWanted
    <3>1. anchor' = anchor
      BY <1>2 DEF PollStart, vars
    <3>2. t \in Spends => (anchor[t] # NoBlock <=> Confirmed(t))
      BY DEF IInv, Lineage, AnchoredIffConfirmed
    <3> QED
      BY <3>1, <3>2 DEF Txs
  <2> QED
    BY <2>1, <2>2, <2>3 DEF Phase, Settled, Unread, InRows, Reconciling
<1>3. CASE ~PollStart
  <2>1. quiet /\ chain' = chain
    BY <1>1, <1>3
  <2>2. CASE UNCHANGED poll
    BY <2>1, <2>2, SettledStays DEF ReconciledSoFar, Unread, InRows, Reconciling
  <2>3. ASSUME NEW r, r = Head(poll.rows), Reconciling, poll.rows # <<>>, ReadConfirmation(r)
        PROVE  Settled(t)' \/ Unread(t)'
    <3>1. CASE Verdict(r) = "stable"
      <4>1. Settled(r) /\ NextRow
        BY <2>3, <3>1 DEF ReadConfirmation, Verdict, Settled
      <4> QED
        BY <2>1, <2>3, <4>1, RowSettled, SettledStays DEF ReconciledSoFar, Reconciling
    <3>2. CASE Verdict(r) = "mismatch"
      BY <2>3, <3>2 DEF ReadConfirmation, PollThrows, PollStops
    <3>3. CASE Verdict(r) \notin {"stable", "mismatch"}
      BY <2>2, <2>3, <3>3 DEF ReadConfirmation
    <3> QED
      BY <3>1, <3>2, <3>3
  <2>4. CASE ReadTransition
    BY <2>3, <2>4 DEF ReadTransition, Reconciling
  <2>5. CASE ReadFunding
    <3>1. FundingTx = Head(poll.rows)
      <4>1. Head(<<FundingTx>>) = FundingTx
        OBVIOUS
      <4> QED
        BY <2>5, <4>1 DEF ReadFunding, PollOK
    <3> QED
      BY <2>3, <2>5, <3>1 DEF ReadFunding, Reconciling
  <2>6. CASE CommitTransition \/ CommitFunding
    <3>1. CASE PollThrows
      BY <3>1 DEF PollThrows, PollStops
    <3>2. CASE ReconcileDone
      <4>1. NextRow /\ poll.rows # <<>> /\ Reconciling /\ evidence # NoEvidence
        BY <2>6, <3>2 DEF ReconcileDone, CommitTransition, CommitFunding, EvidenceOK, Reconciling
      <4>2. ASSUME t = Head(poll.rows) PROVE Recording(t) \/ anchor'[t] = NoBlock
        <5>1. t = evidence.tx /\ anchor \in [Txs -> Blocks \cup {NoBlock}]
          BY <4>1, <4>2 DEF EvidenceOK, IInv, TypeOK
        <5>2. CommitFunding => t = FundingTx
          BY <5>1, RowInHand, Constants DEF CommitFunding
        <5>3. NextRow => ~PollThrows
          BY <4>1 DEF NextRow, PollThrows, PollStops, Idle, PollOK, Reconciling
        <5> QED
          BY <2>6, <4>1, <5>1, <5>2, <5>3 DEF CommitTransition, CommitFunding, Recording,
             ReanchorTransition, ReanchorFunding, RollbackTransition, RollbackFunding
      <4> QED
        BY <2>1, <4>1, <4>2, RowSettled, SettledStays DEF ReconciledSoFar, Reconciling
    <3> QED
      BY <2>6, <3>1, <3>2 DEF CommitTransition, CommitFunding
  <2>7. CASE TransitionsDone
    <3>1. Unread(t) => t = FundingTx
      BY <2>7 DEF TransitionsDone, Unread, InRows
    <3>2. CASE t = FundingTx
      <4>1. CASE funding = "confirmed"
        <5>1. poll'.phase = "funding" /\ poll'.rows = <<FundingTx>>
          BY <2>7, <4>1 DEF TransitionsDone, Phase
        <5>2. Len(<<FundingTx>>) = 1 /\ <<FundingTx>>[1] = FundingTx
          OBVIOUS
        <5> QED
          BY <3>2, <5>1, <5>2 DEF Unread, InRows, Reconciling
      <4>2. CASE funding # "confirmed"
        BY <2>7, <3>2, <4>2 DEF TransitionsDone, vars, IInv, Lineage, AnchoredIffConfirmed, Settled
      <4> QED
        BY <4>1, <4>2
    <3> QED
      BY <2>1, <2>7, <3>1, <3>2, SettledStays DEF ReconciledSoFar, TransitionsDone
  <2>8. ASSUME poll.phase \notin {"idle", "dead"}, ~Unread(t)
        PROVE  Settled(t)' \/ Unread(t)'
    BY <2>1, <2>8, SettledStays DEF ReconciledSoFar
  <2>9. CASE \/ ReconciliationDone \/ ResumeNext \/ ResumeDone \/ ObserveFunding
             \/ ActivateFunding \/ ActivationDone \/ ObserveSpend \/ AdvanceSpend
    <3>1. poll.phase \in {"resume", "activate", "advance"} \/ ReconciliationDone
      BY <2>9 DEF ResumeNext, ResumeDone, ObserveFunding, ActivateFunding, ActivationDone,
         ObserveSpend, AdvanceSpend
    <3>2. CASE poll.phase \in {"resume", "activate", "advance"}
      BY <2>8, <3>2 DEF Unread, Reconciling
    <3>3. CASE ReconciliationDone
      <4>1. Len(<<>>) = 0
        OBVIOUS
      <4> QED
        BY <2>8, <3>3, <4>1 DEF ReconciliationDone, Unread, InRows
    <3> QED
      BY <3>1, <3>2, <3>3
  <2>10. CASE PollDone \/ PollDies
    BY <2>10 DEF PollDone, PollDies, PollStops, Idle
  <2>11. ASSUME NEW w \in {Web, Watcher}, Submit(w) PROVE UNCHANGED poll
    BY <2>11 DEF Submit, SubmitRead, SubmitClaim, SubmitSend, SubmitLookup, SubmitMark
  <2>12. CASE \/ ChainMoves \/ ParticipantActs \/ RequestDies \/ UNCHANGED allVars
              \/ \E s \in Spends : RequestSubmission(s)
    BY <2>2, <2>12 DEF ChainMoves, ParticipantActs, RequestDies, RequestSubmission, allVars,
       watchVars
  <2> QED
    BY <1>3, <2>2, <2>4, <2>5, <2>6, <2>7, <2>9, <2>10, <2>11, <2>12 DEF WatcherNext, PollStep
<1> QED
  BY <1>2, <1>3

(* Nothing is resumed, activated or advanced on a confirmation the chain   *)
(* has already taken back, however deep and however often it reorganizes.  *)
THEOREM ReconciledFirst == WatcherSpec => []ReconciledBeforeNewWork
<1>1. WatcherInit => ReconciledSoFar
  BY DEF WatcherInit, Idle, ReconciledSoFar
<1>2. WInv /\ ReconciledSoFar /\ [WatcherNext]_allVars => ReconciledSoFar'
  BY ReconciledStep
<1>3. ReconciledSoFar => ReconciledBeforeNewWork
  BY DEF ReconciledSoFar, ReconciledBeforeNewWork, Settled, Unread, Reconciling
<1> QED
  BY <1>1, <1>2, <1>3, WatcherInvariant, PTL DEF WatcherSpec

-----------------------------------------------------------------------------
(* Released bytes.                                                         *)

(* A failed approval belongs to a stale row.                               *)
FailedIsStale == \A t \in Spends : approval[t] = "failed" => prop[t] = "stale"

(* A failed approval comes of a rollback, which makes the proposal stale.  *)
LEMMA FailedStep ==
    ASSUME IInv, FailedIsStale, [Next]_vars
    PROVE  FailedIsStale'
<1> USE Constants DEF IInv, TypeOK, FailedIsStale
<1>1. ASSUME Request PROVE FailedIsStale'
  <2>1. ASSUME NEW t \in Spends, CreateProposal(t) PROVE FailedIsStale'
    BY <2>1 DEF CreateProposal, Retired, Unsent
  <2>2. ASSUME NEW t \in Spends, Finalize(t) PROVE FailedIsStale'
    BY <2>2 DEF Finalize
  <2>3. ASSUME NEW t \in Spends,
               CreateBroadcastApprovalChallenge(t) \/ CompleteBroadcastApproval(t)
        PROVE  FailedIsStale'
    BY <2>3 DEF CreateBroadcastApprovalChallenge, CompleteBroadcastApproval
  <2> QED
    BY <1>1, <2>1, <2>2, <2>3 DEF Request, ObserveCoin, ObservationAges, ProposalExpires
<1>2. ASSUME Submission PROVE FailedIsStale'
  BY <1>2 DEF Submission, ClaimBroadcast, MarkBroadcast
<1>3. ASSUME Watch PROVE FailedIsStale'
  <2>1. ASSUME NEW t \in Spends, NEW b \in Blocks, RecordConfirmedProposal(t, b)
        PROVE  FailedIsStale'
    BY <2>1 DEF RecordConfirmedProposal, Confirmable
  <2>2. ASSUME NEW prior \in Blocks, RollbackFunding(prior) PROVE FailedIsStale'
    BY <2>2 DEF RollbackFunding, StaledProposals, StaledApprovals, Dropped
  <2>3. ASSUME NEW t \in Spends, NEW prior \in Blocks, RollbackTransition(t, prior)
        PROVE  FailedIsStale'
    BY <2>3 DEF RollbackTransition, StaledProposals, StaledApprovals, Dropped, StaleUnsent,
       Children, Unsent, Confirmed
  <2> QED
    BY <1>3, <2>1, <2>2, <2>3 DEF Watch, RecordConfirmedFunding, ReanchorFunding,
       ReanchorTransition
<1>4. CASE UNCHANGED vars
  BY <1>4 DEF vars
<1> QED
  BY <1>1, <1>2, <1>3, <1>4 DEF Next

(* The bytes x of a spend were approved: ReleasedWereApproved for one x.   *)
WereApproved(x) ==
    /\ x[2] <= version[x[1]]
    /\ x[2] = version[x[1]] =>
          \/ approval[x[1]] \in {"submitting", "broadcast", "failed"}
          \/ prop[x[1]] \in {"collecting", "stale"} /\ approval[x[1]] = "none"

(* That stays so in every transaction of the store.                        *)
LEMMA ApprovedStep ==
    ASSUME IInv, FailedIsStale, [Next]_vars, NEW x \in Spends \X Nat, WereApproved(x)
    PROVE  WereApproved(x)'
<1> USE Constants DEF IInv, TypeOK, FailedIsStale, WereApproved, Lineage, ApprovedBeforeTracked
<1>1. ASSUME Request PROVE WereApproved(x)'
  <2>1. ASSUME NEW t \in Spends, CreateProposal(t) PROVE WereApproved(x)'
    BY <2>1 DEF CreateProposal, Retired, Unsent, Live, Authorized
  <2>2. ASSUME NEW t \in Spends, Finalize(t) PROVE WereApproved(x)'
    BY <2>2 DEF Finalize
  <2>3. ASSUME NEW t \in Spends,
               CreateBroadcastApprovalChallenge(t) \/ CompleteBroadcastApproval(t)
        PROVE  WereApproved(x)'
    BY <2>3 DEF CreateBroadcastApprovalChallenge, CompleteBroadcastApproval, Approvable,
       Authorized
  <2> QED
    BY <1>1, <2>1, <2>2, <2>3 DEF Request, ObserveCoin, ObservationAges, ProposalExpires
<1>2. ASSUME Submission PROVE WereApproved(x)'
  BY <1>2 DEF Submission, ClaimBroadcast, MarkBroadcast
<1>3. ASSUME Watch PROVE WereApproved(x)'
  <2>1. ASSUME NEW t \in Spends, NEW b \in Blocks, RecordConfirmedProposal(t, b)
        PROVE  WereApproved(x)'
    BY <2>1 DEF RecordConfirmedProposal, Confirmable
  <2>2. ASSUME NEW prior \in Blocks, RollbackFunding(prior) PROVE WereApproved(x)'
    BY <2>2 DEF RollbackFunding, StaledProposals, StaledApprovals, Dropped
  <2>3. ASSUME NEW t \in Spends, NEW prior \in Blocks, RollbackTransition(t, prior)
        PROVE  WereApproved(x)'
    BY <2>3 DEF RollbackTransition, StaledProposals, StaledApprovals, Dropped, StaleUnsent,
       Children, Unsent, Confirmed
  <2> QED
    BY <1>3, <2>1, <2>2, <2>3 DEF Watch, RecordConfirmedFunding, ReanchorFunding,
       ReanchorTransition
<1>4. CASE UNCHANGED vars
  BY <1>4 DEF vars
<1> QED
  BY <1>1, <1>2, <1>3, <1>4 DEF Next

(* Whoever gives bytes to the network: a submitter that is sending, or the *)
(* poll, that sends again what is recorded as broadcast.                   *)
LEMMA ReleaseStep ==
    ASSUME WInv, [WatcherNext]_allVars, NEW x \in released', x \notin released,
           x[1] \in Spends
    PROVE  /\ UNCHANGED vars
           /\ \/ \E w \in {Web, Watcher} : job[w].at = "send" /\ job[w].bytes = x
              \/ prop[x[1]] = "broadcast" /\ x = Bytes(x[1])
<1> USE DEF WInv
<1>1. CASE released' = released
  BY <1>1
<1>2. ASSUME NEW w \in {Web, Watcher}, SubmitSend(w)
      PROVE  UNCHANGED vars /\ job[w].at = "send" /\ job[w].bytes = x
  BY <1>2 DEF SubmitSend, Bitcoin!Send, nodeVars
<1>3. ASSUME NEW t \in Txs, Resubmit(t) PROVE UNCHANGED vars /\ x = Bytes(t) /\ x[1] = t
  BY <1>3 DEF Resubmit, Bitcoin!Send, Bytes
<1>4. CASE ObserveFunding
  BY <1>1, <1>3, <1>4, Constants DEF ObserveFunding, Txs, nodeVars
<1>5. CASE ObserveSpend
  BY <1>1, <1>3, <1>5, Constants DEF ObserveSpend, Candidates, Confirmable, Txs, nodeVars
<1>6. CASE PollStep /\ ~ObserveFunding /\ ~ObserveSpend
  BY <1>1, <1>6 DEF PollStep, PollStart, ReadTransition, ReadConfirmation, TransitionsDone,
     ReadFunding, ReconciliationDone, ResumeNext, ResumeDone, ActivationDone, PollDone,
     CommitTransition, CommitFunding, ActivateFunding, AdvanceSpend, nodeVars
<1>7. CASE ChainMoves
  BY <1>1, <1>7, ChainStep DEF ChainMoves
<1>8. ASSUME NEW w \in {Web, Watcher}, Submit(w), ~SubmitSend(w) PROVE released' = released
  BY <1>8 DEF Submit, SubmitRead, SubmitClaim, SubmitLookup, SubmitMark, nodeVars
<1>9. CASE \/ ParticipantActs \/ RequestDies \/ PollDies \/ UNCHANGED allVars
           \/ \E t \in Spends : RequestSubmission(t)
  BY <1>1, <1>9 DEF ParticipantActs, RequestDies, PollDies, RequestSubmission, allVars, nodeVars
<1> QED
  BY <1>1, <1>2, <1>4, <1>5, <1>6, <1>7, <1>8, <1>9 DEF WatcherNext

(* A submitter comes to the send only over a claimed approval of the       *)
(* bytes it holds.                                                         *)
LEMMA ClaimStep ==
    ASSUME WInv, [WatcherNext]_allVars, NEW w \in {Web, Watcher}, job'[w].at = "send"
    PROVE  \/ job'[w] = job[w]
           \/ LET t == job'[w].bytes[1] IN
              /\ approval'[t] = "submitting" /\ version'[t] = job'[w].bytes[2]
<1> USE DEF WInv
<1>1. CASE UNCHANGED job
  BY <1>1
<1>2. ASSUME NEW v \in {Web, Watcher}, EndJob(v) PROVE job'[w] = job[w]
  BY <1>2 DEF EndJob, JobOK, NoJob
<1>3. ASSUME NEW v \in {Web, Watcher}, NEW t, StartJob(v, t) PROVE job'[w] = job[w]
  BY <1>3 DEF StartJob, JobOK
<1>4. ASSUME NEW v \in {Web, Watcher}, NEW at, JobGoesTo(v, at), v # w \/ at # "send"
      PROVE  job'[w] = job[w]
  BY <1>4 DEF JobGoesTo, JobOK
<1>5. ASSUME NEW v \in {Web, Watcher}, Submit(v)
      PROVE  \/ job'[w] = job[w]
             \/ LET t == job'[w].bytes[1] IN
                /\ approval'[t] = "submitting" /\ version'[t] = job'[w].bytes[2]
  <2> DEFINE t == job[v].bytes[1]
  <2>1. JobGoesTo(v, "send") => job'[v].bytes = job[v].bytes
    BY DEF JobGoesTo, JobOK
  <2>2. CASE SubmitRead(v)
    <3>1. CASE v = w /\ Submittable(t) /\ SameRow(v) /\ FirstStep(t) = "send"
               /\ JobGoesTo(v, "send") /\ UNCHANGED vars
      BY <2>1, <3>1 DEF Submittable, FirstStep, SameRow, vars
    <3>2. CASE EndJob(v)
      BY <1>2, <3>2
    <3> QED
      BY <1>4, <2>2, <3>1, <3>2 DEF SubmitRead
  <2>3. CASE SubmitClaim(v)
    <3>1. CASE v = w /\ SameRow(v) /\ ClaimBroadcast(t) /\ JobGoesTo(v, "send")
      <4>1. t \in Spends
        BY <2>3, JobInHand DEF SubmitClaim, NoJob
      <4> QED
        BY <2>1, <3>1, <4>1 DEF ClaimBroadcast, SameRow, IInv, TypeOK
    <3>2. CASE EndJob(v)
      BY <1>2, <3>2
    <3> QED
      BY <1>4, <2>3, <3>1, <3>2 DEF SubmitClaim
  <2> QED
    BY <1>2, <1>4, <1>5, <2>2, <2>3 DEF Submit, SubmitSend, SubmitLookup, SubmitMark
<1>6. CASE \E t \in Spends : RequestSubmission(t)
  BY <1>3, <1>6 DEF RequestSubmission
<1>7. CASE RequestDies \/ PollDies
  BY <1>2, <1>7 DEF RequestDies, PollDies, PollStops
<1>8. CASE PollStep
  BY <1>1, <1>2, <1>3, <1>8 DEF PollStep, PollStart, ReadTransition, ReadConfirmation,
     CommitTransition, TransitionsDone, ReadFunding, CommitFunding, ReconciliationDone,
     ResumeNext, ResumeDone, ObserveFunding, Resubmit, ActivateFunding, ActivationDone,
     ObserveSpend, AdvanceSpend, PollDone, ReconcileDone, PollThrows, PollStops
<1>9. CASE ChainMoves \/ ParticipantActs \/ UNCHANGED allVars
  BY <1>1, <1>9 DEF ChainMoves, ParticipantActs, allVars, watchVars
<1> QED
  BY <1>5, <1>6, <1>7, <1>8, <1>9 DEF WatcherNext

(* Sent bytes were approved, and so are those about to be sent.            *)
ReleaseInv ==
    /\ FailedIsStale
    /\ \A x \in released : x[1] \in Spends => WereApproved(x)
    /\ \A w \in {Web, Watcher} : job[w].at = "send" => WereApproved(job[w].bytes)

(* Between the claim of a row and the sending of its bytes nothing takes   *)
(* the approval back.                                                      *)
LEMMA ReleaseInvStep ==
    ASSUME WInv, ReleaseInv, [WatcherNext]_allVars
    PROVE  ReleaseInv'
<1> USE DEF WInv, ReleaseInv
<1>1. [Next]_vars
  BY StoreStep
<1>2. IInv' /\ FailedIsStale' /\ JobOK'
  BY <1>1, FailedStep, InvariantStep, JobStep
<1>3. ASSUME NEW x \in released', x[1] \in Spends PROVE WereApproved(x)'
  <2>1. CASE x \in released
    <3>1. x \in Spends \X Nat
      BY <1>3, <2>1 DEF ChainOK
    <3> QED
      BY <1>1, <1>3, <2>1, <3>1, ApprovedStep
  <2>2. CASE x \notin released
    <3>1. WereApproved(x)
      <4>1. CASE \E w \in {Web, Watcher} : job[w].at = "send" /\ job[w].bytes = x
        BY <4>1
      <4>2. CASE prop[x[1]] = "broadcast" /\ x = Bytes(x[1])
        <5>1. x[2] = version[x[1]] /\ version[x[1]] \in Nat /\ approval[x[1]] = "broadcast"
          BY <1>3, <4>2, Constants
             DEF Bytes, IInv, TypeOK, Lineage, ApprovedBeforeTracked
        <5> QED
          BY <5>1 DEF WereApproved
      <4> QED
        BY <1>3, <2>2, <4>1, <4>2, ReleaseStep
    <3> QED
      BY <1>3, <2>2, <3>1, ReleaseStep DEF vars, WereApproved
  <2> QED
    BY <2>1, <2>2
<1>4. ASSUME NEW w \in {Web, Watcher}, job'[w].at = "send"
      PROVE  WereApproved(job[w].bytes)'
  <2>1. CASE job'[w] = job[w]
    <3>1. WereApproved(job[w].bytes) /\ job[w].bytes \in Spends \X Nat
      BY <1>4, <2>1, JobInHand DEF NoJob
    <3>2. \A x \in Spends \X Nat : WereApproved(x) => WereApproved(x)'
      BY <1>1, ApprovedStep
    <3> QED
      BY <2>1, <3>1, <3>2 DEF WereApproved
  <2>2. CASE LET t == job'[w].bytes[1] IN
             approval'[t] = "submitting" /\ version'[t] = job'[w].bytes[2]
    <3>1. job'[w].bytes \in Spends \X Nat
      BY <1>2, <1>4 DEF JobOK, NoJob
    <3> QED
      BY <2>2, <3>1 DEF WereApproved
  <2> QED
    BY <1>4, <2>1, <2>2, ClaimStep
<1> QED
  BY <1>2, <1>3, <1>4

(* Bytes of a spend reach the network only under a completed approval of   *)
(* exactly those bytes, from whichever process and however often they are  *)
(* sent.                                                                   *)
THEOREM ReleasedApproved == WatcherSpec => []ReleasedWereApproved
<1>1. WatcherInit => ReleaseInv
  BY Constants DEF WatcherInit, Init, Bitcoin!ChainInit, ReleaseInv, FailedIsStale, NoJob
<1>2. WInv /\ ReleaseInv /\ [WatcherNext]_allVars => ReleaseInv'
  BY ReleaseInvStep
<1>3. ReleaseInv => ReleasedWereApproved
  BY DEF ReleaseInv, ReleasedWereApproved, WereApproved
<1> QED
  BY <1>1, <1>2, <1>3, WatcherInvariant, PTL DEF WatcherSpec

-----------------------------------------------------------------------------
(* Released bytes, as long as no recorded confirmation is taken back.      *)

(* The bytes x of a spend are tracked: ReleasedIsTracked for one x.        *)
Tracked(x) ==
    /\ x[2] = version[x[1]]
    /\ \/ prop[x[1]] = "finalized" /\ approval[x[1]] = "submitting"
       \/ prop[x[1]] \in {"broadcast", "confirmed"}

(* A transaction that rolls nothing back keeps tracked bytes tracked and   *)
(* recorded confirmations recorded.                                        *)
LEMMA ForwardKeeps ==
    ASSUME IInv, [Forward]_vars
    PROVE  /\ \A x \in Spends \X Nat : Tracked(x) => Tracked(x)'
           /\ \A t \in Txs : anchor[t] # NoBlock => anchor'[t] # NoBlock
<1> USE Constants DEF IInv, TypeOK, Txs
<1> DEFINE Keeps == /\ \A x \in Spends \X Nat : Tracked(x) => Tracked(x)'
                    /\ \A t \in Txs : anchor[t] # NoBlock => anchor'[t] # NoBlock
<1>1. \A t \in Spends : prop[t] \in {"collecting", "finalized", "none"} => anchor[t] = NoBlock
  BY DEF Lineage, AnchoredIffConfirmed, Confirmed
<1>2. CASE UNCHANGED vars
  BY <1>2 DEF vars, Tracked
<1>3. CASE Request
  <2>1. ASSUME NEW t \in Spends, CreateProposal(t) PROVE Keeps
    <3>1. ~Confirmed(t)
      BY <2>1 DEF CreateProposal, Lineage, SpentByConfirmed, NoTx
    <3> QED
      BY <2>1, <3>1 DEF CreateProposal, Retired, Unsent, Live, Authorized, Confirmed, Tracked
  <2>2. ASSUME NEW t \in Spends, Finalize(t) PROVE Keeps
    BY <2>2 DEF Finalize, Tracked
  <2>3. ASSUME NEW t \in Spends,
               CreateBroadcastApprovalChallenge(t) \/ CompleteBroadcastApproval(t)
        PROVE  Keeps
    BY <2>3 DEF CreateBroadcastApprovalChallenge, CompleteBroadcastApproval, Approvable,
       Authorized, Tracked
  <2>4. ASSUME NEW t \in Spends, ProposalExpires(t) PROVE Keeps
    BY <2>4 DEF ProposalExpires, Tracked
  <2>5. ASSUME NEW c \in Coins, ObserveCoin(c) \/ ObservationAges(c) PROVE Keeps
    BY <2>5 DEF ObserveCoin, ObservationAges, Tracked
  <2> QED
    BY <1>3, <2>1, <2>2, <2>3, <2>4, <2>5 DEF Request
<1>4. CASE Submission
  <2>1. ASSUME NEW t \in Spends, ClaimBroadcast(t) PROVE Keeps
    BY <2>1 DEF ClaimBroadcast, Tracked
  <2>2. ASSUME NEW t \in Spends, MarkBroadcast(t) PROVE Keeps
    BY <2>2 DEF MarkBroadcast, Tracked
  <2> QED
    BY <1>4, <2>1, <2>2 DEF Submission
<1>5. ASSUME NEW b \in Blocks, RecordConfirmedFunding(b) PROVE Keeps
  BY <1>5 DEF RecordConfirmedFunding, Tracked
<1>6. ASSUME NEW t \in Spends, NEW b \in Blocks, RecordConfirmedProposal(t, b) PROVE Keeps
  BY <1>6 DEF RecordConfirmedProposal, Confirmable, Tracked
<1>7. ASSUME NEW prior \in Blocks, NEW b \in Blocks, ReanchorFunding(prior, b) PROVE Keeps
  BY <1>7 DEF ReanchorFunding, Tracked
<1>8. ASSUME NEW t \in Spends, NEW prior \in Blocks, NEW b \in Blocks,
             ReanchorTransition(t, prior, b)
      PROVE  Keeps
  BY <1>8 DEF ReanchorTransition, Tracked
<1> QED
  BY <1>2, <1>3, <1>4, <1>5, <1>6, <1>7, <1>8 DEF Forward

(* No chain has taken back a confirmation the store records.               *)
Undisturbed == \A t \in Txs : Settled(t)

(* Rows still to be reconciled have a confirmation to reconcile.           *)
RowsAnchored ==
    Reconciling => \A i \in 1 .. Len(poll.rows) : anchor[poll.rows[i]] # NoBlock

(* Then the poll never decides on a rollback, and tracked bytes stay so.   *)
TrackInv ==
    /\ RowsAnchored
    /\ evidence.verdict # "rollback"
    /\ \A x \in released : x[1] \in Spends => Tracked(x)
    /\ \A w \in {Web, Watcher} : job[w].at = "send" => Tracked(job[w].bytes)

(* A recorded confirmation that is deep enough is read as stable.          *)
LEMMA StableRow ==
    ASSUME NEW t \in Txs, Settled(t), anchor[t] # NoBlock
    PROVE  Verdict(t) = "stable"
BY DEF Settled, Verdict

(* The rows of a poll stay anchored if only the one at hand is taken back. *)
LEMMA RowsStayAnchored ==
    ASSUME WInv, RowsAnchored, [WatcherNext]_allVars,
           Reconciling => \A i \in 1 .. Len(poll.rows) :
              anchor'[poll.rows[i]] # NoBlock \/ (NextRow /\ i = 1)
    PROVE  RowsAnchored'
<1> USE DEF WInv
<1>1. ASSUME NEW i \in 1 .. Len(poll.rows), Reconciling
      PROVE  anchor'[poll.rows[i]] # NoBlock \/ (NextRow /\ i = 1)
  BY <1>1
<1>2. /\ \A i \in 1 .. Len(poll.rows) : poll.rows[i] \in Txs
      /\ Len(poll.rows) \in Nat
  BY ElementOfSeq DEF PollOK
<1>3. ASSUME UNCHANGED poll PROVE RowsAnchored'
  <2>1. ASSUME NextRow, NEW i \in 1 .. Len(poll.rows) PROVE FALSE
    <3>1. poll.rows = Tail(poll.rows)
      <4>1. poll'.rows = Tail(poll.rows)
        BY <2>1 DEF NextRow, PollOK
      <4> QED
        BY <1>3, <4>1
    <3>2. poll.rows # <<>>
      BY <1>2, <2>1, EmptySeq
    <3> QED
      BY <1>2, <3>1, <3>2, TailRows DEF PollOK
  <2> QED
    BY <1>1, <1>2, <1>3, <2>1 DEF RowsAnchored, Reconciling
<1>4. ASSUME NextRow, poll.rows # <<>> PROVE RowsAnchored'
  <2>1. poll'.phase = poll.phase /\ poll'.rows = Tail(poll.rows)
    BY <1>4 DEF NextRow, PollOK
  <2>2. \A i \in 1 .. Len(Tail(poll.rows)) : /\ Tail(poll.rows)[i] = poll.rows[i + 1]
                                            /\ i + 1 \in 1 .. Len(poll.rows) /\ i + 1 # 1
    BY <1>4, TailRows DEF PollOK
  <2> QED
    BY <1>1, <1>2, <2>1, <2>2 DEF RowsAnchored, Reconciling
<1>5. ASSUME poll'.phase \notin {"transitions", "funding"} PROVE RowsAnchored'
  BY <1>5 DEF RowsAnchored, Reconciling
<1>6. CASE PollStart
  <2>1. PICK rows \in ConfirmedRows : Phase("transitions", rows)
    BY <1>6 DEF PollStart
  <2>2. rows \in SetToSeqs({t \in Spends : Confirmed(t)})
    BY <2>1 DEF ConfirmedRows
  <2>3. rows \in Seq({t \in Spends : Confirmed(t)})
    BY <2>2, FixedGraphAssumption, FS_Subset, Permutation
  <2>4. \A i \in 1 .. Len(rows) : rows[i] \in Spends /\ Confirmed(rows[i])
    BY <2>3, ElementOfSeq
  <2>5. \A i \in 1 .. Len(rows) : anchor[rows[i]] # NoBlock
    BY <2>4 DEF IInv, Lineage, AnchoredIffConfirmed
  <2> QED
    BY <1>6, <2>1, <2>5 DEF PollStart, Phase, RowsAnchored, vars
<1>7. CASE TransitionsDone
  <2>1. funding = "confirmed" => anchor[FundingTx] # NoBlock
    BY DEF IInv, Lineage, AnchoredIffConfirmed
  <2>2. /\ Len(<<>>) = 0 /\ Len(<<FundingTx>>) = 1
        /\ \A i \in 1 .. 1 : <<FundingTx>>[i] = FundingTx
    OBVIOUS
  <2>3. poll'.rows = IF funding = "confirmed" THEN <<FundingTx>> ELSE <<>>
    BY <1>7 DEF TransitionsDone, Phase
  <2>4. anchor' = anchor
    BY <1>7 DEF TransitionsDone, vars
  <2>5. CASE funding = "confirmed"
    BY <2>1, <2>2, <2>3, <2>4, <2>5 DEF RowsAnchored
  <2>6. CASE funding # "confirmed"
    BY <2>2, <2>3, <2>6 DEF RowsAnchored
  <2> QED
    BY <2>5, <2>6
<1>8. CASE ReadTransition \/ ReadFunding
  <2>1. poll' = poll \/ NextRow \/ poll' = Idle
    BY <1>8 DEF ReadTransition, ReadFunding, ReadConfirmation, PollThrows, PollStops
  <2> QED
    BY <1>3, <1>4, <1>5, <1>8, <2>1 DEF ReadTransition, ReadFunding, Idle
<1>9. CASE CommitTransition \/ CommitFunding \/ ActivateFunding \/ AdvanceSpend
  <2>1. poll.rows # <<>>
    BY <1>9 DEF EvidenceOK, CommitTransition, CommitFunding, ActivateFunding, AdvanceSpend
  <2> QED
    BY <1>4, <1>5, <1>9, <2>1 DEF CommitTransition, CommitFunding, ActivateFunding,
       AdvanceSpend, ReconcileDone, PollThrows, PollStops, Idle
<1>10. CASE ReconciliationDone \/ ResumeDone \/ ActivationDone \/ PollDone \/ PollDies
  BY <1>5, <1>10 DEF ReconciliationDone, ResumeDone, ActivationDone, PollDone, PollDies,
     PollStops, Phase, Idle, Dead
<1>11. CASE ResumeNext \/ ObserveFunding \/ ObserveSpend
  BY <1>3, <1>4, <1>5, <1>11 DEF ResumeNext, ObserveFunding, ObserveSpend, Resubmit, PollThrows,
     PollStops, Idle
<1>12. ASSUME NEW w \in {Web, Watcher}, Submit(w) PROVE RowsAnchored'
  BY <1>3, <1>12 DEF Submit, SubmitRead, SubmitClaim, SubmitSend, SubmitLookup, SubmitMark
<1>13. CASE \/ ChainMoves \/ ParticipantActs \/ RequestDies \/ UNCHANGED allVars
            \/ \E t \in Spends : RequestSubmission(t)
  BY <1>3, <1>13 DEF ChainMoves, ParticipantActs, RequestDies, RequestSubmission, allVars,
     watchVars
<1> QED
  BY <1>6, <1>7, <1>8, <1>9, <1>10, <1>11, <1>12, <1>13 DEF WatcherNext, PollStep

(* The poll decides on no rollback while nothing is taken back.            *)
LEMMA NoRollback ==
    ASSUME WInv, TrackInv, Undisturbed, [WatcherNext]_allVars
    PROVE  evidence'.verdict # "rollback"
<1> USE DEF WInv, TrackInv
<1>1. CASE evidence' = evidence
  BY <1>1
<1>2. CASE evidence' = NoEvidence
  BY <1>2 DEF NoEvidence
<1>3. ASSUME NEW t, ConfirmEvidence(t) PROVE evidence'.verdict # "rollback"
  BY <1>3 DEF ConfirmEvidence
<1>4. CASE ReadTransition \/ ReadFunding
  <2> DEFINE t == Head(poll.rows)
  <2>1. poll.rows # <<>> /\ Reconciling
    BY <1>4 DEF ReadTransition, ReadFunding, Reconciling
  <2>2. t \in Txs /\ t = poll.rows[1] /\ Len(poll.rows) >= 1
    BY <2>1, TailRows, EmptySeq DEF PollOK
  <2>3. anchor[t] # NoBlock
    BY <2>1, <2>2 DEF RowsAnchored
  <2>4. Verdict(t) = "stable"
    BY <2>2, <2>3, StableRow DEF Undisturbed
  <2>5. ReadConfirmation(t)
    <3>1. Head(<<FundingTx>>) = FundingTx
      OBVIOUS
    <3> QED
      BY <1>4, <3>1 DEF ReadTransition, ReadFunding, PollOK
  <2> QED
    BY <1>1, <2>4, <2>5 DEF ReadConfirmation
<1>5. CASE PollStep /\ ~ReadTransition /\ ~ReadFunding
  BY <1>1, <1>2, <1>3, <1>5 DEF PollStep, PollStart, CommitTransition, TransitionsDone,
     CommitFunding, ReconciliationDone, ResumeNext, ResumeDone, ObserveFunding, Resubmit,
     ActivateFunding, ActivationDone, ObserveSpend, AdvanceSpend, PollDone, ReconcileDone,
     PollThrows, PollStops
<1>6. ASSUME NEW w \in {Web, Watcher}, Submit(w) PROVE evidence' = evidence
  BY <1>6 DEF Submit, SubmitRead, SubmitClaim, SubmitSend, SubmitLookup, SubmitMark
<1>7. CASE \/ ChainMoves \/ ParticipantActs \/ RequestDies \/ PollDies \/ UNCHANGED allVars
           \/ \E t \in Spends : RequestSubmission(t)
  BY <1>1, <1>2, <1>7 DEF ChainMoves, ParticipantActs, RequestDies, PollDies, PollStops,
     RequestSubmission, allVars, watchVars
<1> QED
  BY <1>1, <1>4, <1>5, <1>6, <1>7 DEF WatcherNext

(* What is released is tracked already: the send comes after the claim,    *)
(* and what the poll sends again is recorded as broadcast.                 *)
LEMMA TrackStep ==
    ASSUME WInv, TrackInv, Undisturbed, [WatcherNext]_allVars
    PROVE  TrackInv'
<1> USE DEF WInv, TrackInv
<1>1. IInv' /\ JobOK' /\ RowsAnchored' /\ evidence'.verdict # "rollback"
  <2>1. ASSUME Reconciling, NEW i \in 1 .. Len(poll.rows) PROVE anchor'[poll.rows[i]] # NoBlock
    <3>1. poll.rows[i] \in Txs /\ anchor[poll.rows[i]] # NoBlock
      BY <2>1, ElementOfSeq DEF PollOK, RowsAnchored
    <3> QED
      BY <3>1, StoreStep, ForwardKeeps
  <2>2. RowsAnchored'
    BY <2>1, RowsStayAnchored
  <2> QED
    BY <2>2, StoreStep, InvariantStep, JobStep, NoRollback
<1>2. \A x \in Spends \X Nat : Tracked(x) => Tracked(x)'
  BY StoreStep, ForwardKeeps
<1>3. ASSUME NEW x \in released', x[1] \in Spends PROVE Tracked(x)'
  <2>1. CASE x \in released
    <3>1. x \in Spends \X Nat
      BY <1>3, <2>1 DEF ChainOK
    <3> QED
      BY <1>2, <1>3, <2>1, <3>1
  <2>2. CASE x \notin released
    <3>1. Tracked(x)
      <4>1. CASE \E w \in {Web, Watcher} : job[w].at = "send" /\ job[w].bytes = x
        BY <4>1
      <4>2. CASE prop[x[1]] = "broadcast" /\ x = Bytes(x[1])
        <5>1. x[2] = version[x[1]]
          BY <1>3, <4>2, Constants DEF Bytes
        <5> QED
          BY <4>2, <5>1 DEF Tracked
      <4> QED
        BY <1>3, <2>2, <4>1, <4>2, ReleaseStep
    <3> QED
      BY <1>3, <2>2, <3>1, ReleaseStep DEF vars, Tracked
  <2> QED
    BY <2>1, <2>2
<1>4. ASSUME NEW w \in {Web, Watcher}, job'[w].at = "send"
      PROVE  Tracked(job[w].bytes)'
  <2>1. CASE job'[w] = job[w]
    <3>1. Tracked(job[w].bytes) /\ job[w].bytes \in Spends \X Nat
      BY <1>4, <2>1, JobInHand DEF NoJob
    <3> QED
      BY <1>2, <2>1, <3>1 DEF Tracked
  <2>2. CASE LET t == job'[w].bytes[1] IN
             approval'[t] = "submitting" /\ version'[t] = job'[w].bytes[2]
    <3>1. job'[w].bytes \in Spends \X Nat
      BY <1>1, <1>4 DEF JobOK, NoJob
    <3>2. \A t \in Spends : approval'[t] = "submitting" => prop'[t] = "finalized"
      BY <1>1 DEF IInv, Lineage, ApprovedBeforeTracked
    <3> QED
      BY <2>2, <3>1, <3>2 DEF Tracked
  <2> QED
    BY <1>4, <2>1, <2>2, ClaimStep
<1> QED
  BY <1>1, <1>3, <1>4

(* No released transaction is orphaned by the store, as long as no chain   *)
(* takes back a confirmation the store records: whatever order requests,   *)
(* submissions, crashes, lost answers and polls come in, and whatever      *)
(* rivals and expired rows there are.                                      *)
THEOREM TrackedUndisturbed == WatcherSpec /\ []Undisturbed => []ReleasedIsTracked
<1>1. WatcherInit => TrackInv
  BY Constants DEF WatcherInit, Bitcoin!ChainInit, TrackInv, RowsAnchored, Reconciling, Idle,
     NoEvidence, NoJob
<1>2. WInv /\ TrackInv /\ Undisturbed /\ [WatcherNext]_allVars => TrackInv'
  BY TrackStep
<1>3. TrackInv => ReleasedIsTracked
  BY DEF TrackInv, ReleasedIsTracked, Tracked
<1> QED
  BY <1>1, <1>2, <1>3, WatcherInvariant, PTL DEF WatcherSpec

-----------------------------------------------------------------------------
(* A chain that only grows takes nothing back.                             *)

(* No branch replaces blocks of the best chain.                            *)
NeverReorganizes == [][UNCHANGED forks]_allVars

(* Without a reorganization confirmations only grow in depth.              *)
LEMMA GrowStep ==
    ASSUME WInv, [WatcherNext]_allVars, UNCHANGED forks, NEW b \in Blocks
    PROVE  Bitcoin!BlockConfirmations(b)' >= Bitcoin!BlockConfirmations(b)
<1> USE ChainConstants
<1>1. Len(chain) \in Nat /\ b[1] \in Nat /\ (b \in Bitcoin!Best => b[1] <= Len(chain))
  BY DEF WInv, ChainOK, Bitcoin!Best
<1>2. CASE chain' = chain
  BY <1>1, <1>2 DEF Bitcoin!BlockConfirmations, Bitcoin!Best
<1>3. ASSUME NEW S, Bitcoin!Mine(S)
      PROVE  Bitcoin!BlockConfirmations(b)' >= Bitcoin!BlockConfirmations(b)
  <2>1. /\ Len(chain') = Len(chain) + 1
        /\ \A h \in 1 .. Len(chain) : chain'[h] = chain[h]
    BY <1>3, AppendProperties DEF Bitcoin!Mine, WInv, ChainOK
  <2>2. b \in Bitcoin!Best => b \in Bitcoin!Best'
    BY <2>1 DEF Bitcoin!Best
  <2>3. b \in Bitcoin!Best' => b[1] <= Len(chain')
    BY <2>1 DEF Bitcoin!Best
  <2> QED
    BY <1>1, <2>1, <2>2, <2>3 DEF Bitcoin!BlockConfirmations
<1>4. CASE ChainMoves
  <2>1. \A d, S, place : ~Bitcoin!Reorganize(d, S, place)
    BY DEF Bitcoin!Reorganize, WInv, ChainOK
  <2> QED
    BY <1>2, <1>3, <1>4, <2>1 DEF ChainMoves, Bitcoin!ChainNext, Bitcoin!Evict
<1>5. ASSUME NEW w \in {Web, Watcher}, Submit(w) PROVE chain' = chain
  BY <1>5 DEF Submit, SubmitRead, SubmitClaim, SubmitSend, SubmitLookup, SubmitMark, nodeVars,
     Bitcoin!Send
<1>6. CASE PollStep
  BY <1>2, <1>6 DEF PollStep, PollStart, ReadTransition, ReadFunding, ReadConfirmation,
     CommitTransition, TransitionsDone, CommitFunding, ReconciliationDone, ResumeNext,
     ResumeDone, ObserveFunding, Resubmit, Bitcoin!Send, ActivateFunding, ActivationDone,
     ObserveSpend, AdvanceSpend, PollDone, nodeVars
<1>7. CASE \/ ParticipantActs \/ RequestDies \/ PollDies \/ UNCHANGED allVars
           \/ \E t \in Spends : RequestSubmission(t)
  BY <1>2, <1>7 DEF ParticipantActs, RequestDies, PollDies, RequestSubmission, allVars, nodeVars
<1> QED
  BY <1>2, <1>4, <1>5, <1>6, <1>7 DEF WatcherNext

(* What was read from the node and is about to be recorded is still there. *)
EvidenceDeep ==
    evidence # NoEvidence /\ evidence.verdict # "rollback" =>
        Bitcoin!BlockConfirmations(evidence.block) >= Required

(* What was deep enough when it was read is so when it is recorded.        *)
LEMMA EvidenceStaysDeep ==
    ASSUME WInv, EvidenceDeep \/ evidence' # evidence, [WatcherNext]_allVars, UNCHANGED forks
    PROVE  EvidenceDeep'
<1> USE DEF WInv
<1>1. CASE evidence' = evidence
  <2> SUFFICES ASSUME evidence # NoEvidence, evidence.verdict # "rollback"
               PROVE  Bitcoin!BlockConfirmations(evidence.block)' >= Required
    BY <1>1 DEF EvidenceDeep
  <2>1. evidence.block \in Blocks /\ Bitcoin!BlockConfirmations(evidence.block) >= Required
    BY <1>1 DEF EvidenceOK, EvidenceDeep
  <2>2. /\ Bitcoin!BlockConfirmations(evidence.block)'
            >= Bitcoin!BlockConfirmations(evidence.block)
        /\ Bitcoin!BlockConfirmations(evidence.block) \in Nat
        /\ Bitcoin!BlockConfirmations(evidence.block)' \in Nat
    <3>1. \A b \in Blocks : Bitcoin!BlockConfirmations(b) \in Nat
      BY ChainConstants DEF Bitcoin!BlockConfirmations, Bitcoin!Best, ChainOK
    <3>2. \A b \in Blocks : Bitcoin!BlockConfirmations(b)' \in Nat
      BY ChainConstants, NodeStep DEF Bitcoin!BlockConfirmations, Bitcoin!Best, ChainOK
    <3> QED
      BY <1>1, <2>1, <3>1, <3>2, GrowStep
  <2> QED
    BY <2>1, <2>2, ChainConstants
<1>2. CASE evidence' = NoEvidence
  BY <1>2 DEF EvidenceDeep
<1>3. ASSUME NEW t, Deep(t), evidence'.block = Bitcoin!BlockOf(t), UNCHANGED chain
      PROVE  EvidenceDeep'
  <2>1. Bitcoin!BlockConfirmations(evidence'.block) >= Required
    BY <1>3, DeepBlock
  <2> QED
    BY <1>3, <2>1 DEF EvidenceDeep, Bitcoin!BlockConfirmations, Bitcoin!Best
<1>4. ASSUME NEW t, ReadConfirmation(t) PROVE EvidenceDeep'
  <2>1. CASE Verdict(t) \in {"stable", "mismatch"}
    BY <1>1, <1>2, <1>4, <2>1 DEF ReadConfirmation, PollThrows, PollStops
  <2>2. CASE Verdict(t) = "rollback"
    BY <1>4, <2>2 DEF ReadConfirmation, EvidenceDeep
  <2>3. CASE Verdict(t) = "reanchor"
    <3>1. Deep(t)
      BY <2>3 DEF Verdict
    <3> QED
      BY <1>3, <1>4, <2>3, <3>1 DEF ReadConfirmation, nodeVars
  <2> QED
    BY <2>1, <2>2, <2>3 DEF Verdict
<1>5. CASE ReadTransition \/ ReadFunding
  BY <1>4, <1>5 DEF ReadTransition, ReadFunding
<1>6. CASE ObserveFunding
  <2>1. CASE Deep(FundingTx) /\ ConfirmEvidence(FundingTx) /\ UNCHANGED nodeVars
    BY <1>3, <2>1 DEF ConfirmEvidence, nodeVars
  <2> QED
    BY <1>1, <1>2, <1>6, <2>1 DEF ObserveFunding, Resubmit, PollThrows, PollStops
<1>7. CASE ObserveSpend
  <2>1. ASSUME NEW t, Deep(t), ConfirmEvidence(t), UNCHANGED nodeVars PROVE EvidenceDeep'
    BY <1>3, <2>1 DEF ConfirmEvidence, nodeVars
  <2> QED
    BY <1>1, <1>7, <2>1 DEF ObserveSpend, Resubmit
<1>8. CASE PollStep /\ ~ReadTransition /\ ~ReadFunding /\ ~ObserveFunding /\ ~ObserveSpend
  BY <1>1, <1>2, <1>8 DEF PollStep, PollStart, CommitTransition, TransitionsDone,
     CommitFunding, ReconciliationDone, ResumeNext, ResumeDone,
     ActivateFunding, ActivationDone, AdvanceSpend, PollDone, ReconcileDone,
     PollThrows, PollStops
<1>9. ASSUME NEW w \in {Web, Watcher}, Submit(w) PROVE evidence' = evidence
  BY <1>9 DEF Submit, SubmitRead, SubmitClaim, SubmitSend, SubmitLookup, SubmitMark
<1>10. CASE \/ ChainMoves \/ ParticipantActs \/ RequestDies \/ PollDies \/ UNCHANGED allVars
            \/ \E t \in Spends : RequestSubmission(t)
  BY <1>1, <1>2, <1>10 DEF ChainMoves, ParticipantActs, RequestDies, PollDies, PollStops,
     RequestSubmission, allVars, watchVars
<1> QED
  BY <1>1, <1>5, <1>6, <1>7, <1>8, <1>9, <1>10 DEF WatcherNext

(* A recorded confirmation, once deep enough, stays so.                    *)
LEMMA UndisturbedStep ==
    ASSUME WInv, EvidenceDeep, Undisturbed, [WatcherNext]_allVars, UNCHANGED forks
    PROVE  Undisturbed'
<1> USE DEF WInv
<1> SUFFICES ASSUME NEW t \in Txs, anchor'[t] # NoBlock
             PROVE  Bitcoin!BlockConfirmations(anchor[t])' >= Required
  BY DEF Undisturbed, Settled
<1>1. anchor'[t] \in Blocks /\ Bitcoin!BlockConfirmations(anchor'[t]) >= Required
  <2>1. CASE anchor'[t] = anchor[t]
    BY <2>1 DEF Undisturbed, Settled, IInv, TypeOK
  <2>2. CASE Recording(t)
    BY <2>2 DEF Recording, EvidenceOK, EvidenceDeep
  <2> QED
    BY <2>1, <2>2, AnchorStep
<1>2. \A b \in Blocks : /\ Bitcoin!BlockConfirmations(b) \in Nat
                        /\ Bitcoin!BlockConfirmations(b)' \in Nat
                        /\ Bitcoin!BlockConfirmations(b)' >= Bitcoin!BlockConfirmations(b)
  <2>1. \A b \in Blocks : Bitcoin!BlockConfirmations(b) \in Nat
    BY ChainConstants DEF Bitcoin!BlockConfirmations, Bitcoin!Best, ChainOK
  <2>2. \A b \in Blocks : Bitcoin!BlockConfirmations(b)' \in Nat
    BY ChainConstants, NodeStep DEF Bitcoin!BlockConfirmations, Bitcoin!Best, ChainOK
  <2> QED
    BY <2>1, <2>2, GrowStep
<1>3. PICK b \in Blocks : b = anchor'[t]
  BY <1>1
<1>4. Bitcoin!BlockConfirmations(b)' >= Required
  BY <1>1, <1>2, <1>3, ChainConstants
<1> QED
  BY <1>3, <1>4 DEF Bitcoin!BlockConfirmations, Bitcoin!Best

(* On a chain that never reorganizes, an approved transaction that may     *)
(* have reached the network is never orphaned by the store.                *)
THEOREM ReleasedTracked == WatcherSpec /\ NeverReorganizes => []ReleasedIsTracked
<1>1. WatcherInit => EvidenceDeep /\ Undisturbed
  BY Constants DEF WatcherInit, Init, EvidenceDeep, Undisturbed, Settled
<1>2. WInv /\ EvidenceDeep /\ Undisturbed /\ [WatcherNext]_allVars /\ [UNCHANGED forks]_allVars
         => EvidenceDeep' /\ Undisturbed'
  <2>1. ASSUME [UNCHANGED forks]_allVars PROVE UNCHANGED forks
    BY <2>1 DEF allVars, nodeVars
  <2> QED
    BY <2>1, EvidenceStaysDeep, UndisturbedStep
<1>3. WatcherSpec /\ NeverReorganizes => []Undisturbed
  BY <1>1, <1>2, WatcherInvariant, PTL DEF WatcherSpec, NeverReorganizes
<1> QED
  BY <1>3, TrackedUndisturbed, PTL

-----------------------------------------------------------------------------
(* The order of the confirmed rows by their last write.                    *)

(* Every confirmed spend is listed, once.                                  *)
Listed(list, S) ==
    /\ list \in Seq(Spends)
    /\ \A i, j \in 1 .. Len(list) : list[i] = list[j] => i = j
    /\ S = {list[i] : i \in 1 .. Len(list)}

(* A sequence without its k-th entry.                                      *)
LEMMA WithoutEntry ==
    ASSUME NEW S, NEW list \in Seq(S), NEW k \in 1 .. Len(list)
    PROVE  /\ RemoveAt(list, k) \in Seq(S)
           /\ Len(RemoveAt(list, k)) = Len(list) - 1
           /\ \A j \in 1 .. Len(list) - 1 :
                 RemoveAt(list, k)[j] = IF j < k THEN list[j] ELSE list[j + 1]
<1> DEFINE front == SubSeq(list, 1, k - 1)
           back == SubSeq(list, k + 1, Len(list))
<1>1. /\ Len(list) \in Nat /\ k \in Int /\ 1 <= k /\ k <= Len(list)
      /\ 1 \in Int /\ k - 1 \in Int /\ k + 1 \in Int /\ Len(list) \in Int
      /\ \A i \in 1 .. Len(list) : list[i] \in S
  OBVIOUS
<1>2. /\ front \in Seq(S)
      /\ Len(front) = IF 1 <= k - 1 THEN k - 1 - 1 + 1 ELSE 0
      /\ \A i \in 1 .. k - 1 - 1 + 1 : front[i] = list[1 + i - 1]
  <2>1. \A i \in 1 .. k - 1 : list[i] \in S
    BY <1>1
  <2> QED
    BY <1>1, <2>1, SubSeqProperties
<1>3. /\ back \in Seq(S)
      /\ Len(back) = IF k + 1 <= Len(list) THEN Len(list) - (k + 1) + 1 ELSE 0
      /\ \A i \in 1 .. Len(list) - (k + 1) + 1 : back[i] = list[k + 1 + i - 1]
  <2>1. \A i \in k + 1 .. Len(list) : list[i] \in S
    BY <1>1
  <2> QED
    BY <1>1, <2>1, SubSeqProperties
<1> HIDE DEF front, back
<1>4. /\ front \o back \in Seq(S)
      /\ Len(front \o back) = Len(front) + Len(back)
      /\ \A i \in 1 .. Len(front) + Len(back) :
            (front \o back)[i] = IF i <= Len(front) THEN front[i] ELSE back[i - Len(front)]
  <2>1. front \in Seq(S) /\ back \in Seq(S)
    BY <1>2, <1>3
  <2> QED
    BY <2>1, ConcatProperties
<1>5. Len(front) = k - 1 /\ Len(back) = Len(list) - k
  BY <1>1, <1>2, <1>3
<1>6. ASSUME NEW j \in 1 .. Len(list) - 1
      PROVE  (front \o back)[j] = IF j < k THEN list[j] ELSE list[j + 1]
  <2>1. CASE j < k
    <3>1. (front \o back)[j] = front[j]
      BY <1>1, <1>4, <1>5, <2>1
    <3>2. front[j] = list[j]
      <4>1. j \in 1 .. k - 1 - 1 + 1 /\ 1 + j - 1 = j
        BY <1>1, <2>1
      <4> QED
        BY <1>2, <4>1
    <3> QED
      BY <2>1, <3>1, <3>2
  <2>2. CASE ~(j < k)
    <3> DEFINE i == j - Len(front)
    <3>1. (front \o back)[j] = back[i]
      BY <1>1, <1>4, <1>5, <2>2
    <3>2. i \in 1 .. Len(list) - (k + 1) + 1 /\ k + 1 + i - 1 = j + 1
      BY <1>1, <1>5, <2>2
    <3> HIDE DEF i
    <3>3. back[i] = list[j + 1]
      BY <1>3, <3>2
    <3> QED
      BY <2>2, <3>1, <3>3
  <2> QED
    BY <2>1, <2>2
<1>7. RemoveAt(list, k) = front \o back
  BY DEF front, back, RemoveAt
<1>8. Len(front \o back) = Len(list) - 1
  BY <1>1, <1>4, <1>5
<1> QED
  BY <1>4, <1>6, <1>7, <1>8

(* Removing an element from such a list removes it from what is listed.    *)
LEMMA RemoveListed ==
    ASSUME NEW list, NEW S, Listed(list, S), NEW t
    PROVE  Listed(RemoveFirst(list, t), S \ {t})
<1> USE DEF Listed
<1>1. CASE ~ \E i \in 1 .. Len(list) : list[i] = t
  BY <1>1 DEF RemoveFirst
<1>2. CASE \E i \in 1 .. Len(list) : list[i] = t
  <2>1. PICK k \in 1 .. Len(list) : list[k] = t
    BY <1>2
  <2>2. SelectInSeq(list, LAMBDA v : v = t) = k
    <3>1. {i \in 1 .. Len(list) : list[i] = t} = {k}
      BY <2>1
    <3>2. Min({k}) = k
      BY DEF Min
    <3> QED
      BY <3>1, <3>2 DEF SelectInSeq
  <2> DEFINE rest == SubSeq(list, 1, k - 1) \o SubSeq(list, k + 1, Len(list))
  <2>3. RemoveFirst(list, t) = rest
    BY <1>2, <2>2 DEF RemoveFirst, RemoveAt
  <2>4. /\ rest \in Seq(Spends) /\ Len(rest) = Len(list) - 1
        /\ \A j \in 1 .. Len(list) - 1 :
              rest[j] = IF j < k THEN list[j] ELSE list[j + 1]
    BY WithoutEntry DEF RemoveAt
  <2> HIDE DEF rest
  <2>5. \A i, j \in 1 .. Len(rest) : rest[i] = rest[j] => i = j
    BY <2>4
  <2>6. S \ {t} = {rest[i] : i \in 1 .. Len(rest)}
    <3>1. ASSUME NEW s \in S, s # t PROVE \E i \in 1 .. Len(rest) : rest[i] = s
      <4>1. PICK j \in 1 .. Len(list) : list[j] = s
        OBVIOUS
      <4>2. CASE j < k
        BY <2>1, <2>4, <4>1, <4>2
      <4>3. CASE j > k
        <5>1. j - 1 \in 1 .. Len(rest) /\ rest[j - 1] = list[j]
          BY <2>1, <2>4, <4>3
        <5> QED
          BY <4>1, <5>1
      <4> QED
        BY <2>1, <3>1, <4>1, <4>2, <4>3
    <3>2. ASSUME NEW i \in 1 .. Len(rest) PROVE rest[i] \in S /\ rest[i] # t
      BY <2>1, <2>4
    <3>3. \A s : s \in S \ {t} <=> s \in {rest[i] : i \in 1 .. Len(rest)}
      BY <3>1, <3>2
    <3> QED
      BY <3>3
  <2>7. Listed(rest, S \ {t})
    BY <2>4, <2>5, <2>6
  <2> HIDE DEF Listed
  <2> QED
    BY <2>3, <2>7
<1> QED
  BY <1>1, <1>2

(* A new last element.                                                     *)
LEMMA AppendListed ==
    ASSUME NEW list, NEW S, Listed(list, S), NEW t \in Spends, t \notin S
    PROVE  Listed(Append(list, t), S \cup {t})
<1> USE DEF Listed
<1> DEFINE longer == Append(list, t)
<1>1. /\ longer \in Seq(Spends) /\ Len(longer) = Len(list) + 1
      /\ \A i \in 1 .. Len(list) + 1 : longer[i] = IF i <= Len(list) THEN list[i] ELSE t
  BY AppendProperties
<1> HIDE DEF longer
<1>2. \A i, j \in 1 .. Len(longer) : longer[i] = longer[j] => i = j
  BY <1>1
<1>3. S \cup {t} = {longer[i] : i \in 1 .. Len(longer)}
  BY <1>1
<1> QED
  BY <1>1, <1>2, <1>3 DEF longer

(* The spends the store has confirmed.                                     *)
ConfirmedSpends == {t \in Spends : Confirmed(t)}

(* The list follows the rows: what is confirmed is listed, once.           *)
LEMMA RecencyStep ==
    ASSUME WInv, Listed(recency, ConfirmedSpends), [WatcherNext]_allVars
    PROVE  Listed(recency, ConfirmedSpends)'
<1> USE Constants DEF WInv, IInv, TypeOK
<1>1. ASSUME UNCHANGED recency, \A t \in Spends : Confirmed(t)' <=> Confirmed(t)
      PROVE  Listed(recency, ConfirmedSpends)'
  <2>1. ConfirmedSpends' = ConfirmedSpends
    BY <1>1 DEF ConfirmedSpends
  <2> QED
    BY <1>1, <2>1 DEF Listed
<1>2. ASSUME UNCHANGED <<vars, recency>> PROVE Listed(recency, ConfirmedSpends)'
  BY <1>1, <1>2 DEF vars, Confirmed
<1>3. ASSUME NEW t \in Spends, recency' = Append(Touched(t), t),
             ConfirmedSpends' = ConfirmedSpends \cup {t}
      PROVE  Listed(recency, ConfirmedSpends)'
  <2>1. Listed(RemoveFirst(recency, t), ConfirmedSpends \ {t})
    BY RemoveListed
  <2>2. Listed(Append(RemoveFirst(recency, t), t), (ConfirmedSpends \ {t}) \cup {t})
    BY <2>1, AppendListed
  <2>3. (ConfirmedSpends \ {t}) \cup {t} = ConfirmedSpends'
    BY <1>3
  <2>4. Listed(recency', ConfirmedSpends')
    BY <1>3, <2>2, <2>3 DEF Touched
  <2> QED
    BY <2>4 DEF Listed
<1>4. CASE ParticipantActs
  <2>1. ASSUME NEW t \in Spends, CreateProposal(t)
        PROVE  \A s \in Spends : Confirmed(s)' <=> Confirmed(s)
    <3>1. ~Confirmed(t)
      BY <2>1 DEF CreateProposal, Lineage, SpentByConfirmed, NoTx
    <3> QED
      BY <2>1, <3>1 DEF CreateProposal, Retired, Unsent, Confirmed
  <2>2. ASSUME NEW t \in Spends, Finalize(t)
        PROVE  \A s \in Spends : Confirmed(s)' <=> Confirmed(s)
    BY <2>2 DEF Finalize, Confirmed
  <2> QED
    BY <1>1, <1>4, <2>1, <2>2 DEF ParticipantActs, watchVars, ObserveCoin, ProposalExpires,
       CreateBroadcastApprovalChallenge, CompleteBroadcastApproval, Confirmed
<1>5. ASSUME NEW t \in Spends, RequestSubmission(t) PROVE Listed(recency, ConfirmedSpends)'
  BY <1>1, <1>5 DEF RequestSubmission, CompleteBroadcastApproval, Confirmed
<1>6. ASSUME NEW w \in {Web, Watcher}, Submit(w) PROVE Listed(recency, ConfirmedSpends)'
  <2>1. ASSUME NEW t \in Spends, ClaimBroadcast(t) \/ MarkBroadcast(t)
        PROVE  \A s \in Spends : Confirmed(s)' <=> Confirmed(s)
    BY <2>1 DEF ClaimBroadcast, MarkBroadcast, Confirmed
  <2>2. job[w] # NoJob
    BY <1>6 DEF Submit, SubmitRead, SubmitClaim, SubmitSend, SubmitLookup, SubmitMark, NoJob
  <2>3. job[w].bytes[1] \in Spends
    BY <2>2, JobInHand
  <2> QED
    BY <1>1, <1>2, <1>6, <2>1, <2>3 DEF Submit, SubmitRead, SubmitClaim, SubmitSend,
       SubmitLookup, SubmitMark
<1>7. CASE CommitTransition
  <2> DEFINE t == evidence.tx
  <2>1. t \in Spends
    BY <1>7, RowInHand DEF CommitTransition, TrackedSpends
  <2>2. CASE ReanchorTransition(t, evidence.prior, evidence.block)
             /\ recency' = Append(Touched(t), t)
    <3>1. ConfirmedSpends' = ConfirmedSpends \cup {t}
      BY <2>1, <2>2 DEF ReanchorTransition, ConfirmedSpends, Confirmed
    <3> QED
      BY <1>3, <2>1, <2>2, <3>1
  <2>3. CASE RollbackTransition(t, evidence.prior) /\ recency' = Touched(t)
    <3>1. ConfirmedSpends' = ConfirmedSpends \ {t}
      BY <2>1, <2>3 DEF RollbackTransition, StaledProposals, StaleUnsent, Unsent,
         ConfirmedSpends, Confirmed
    <3>2. Listed(recency', ConfirmedSpends')
      BY <2>3, <3>1, RemoveListed DEF Touched
    <3> QED
      BY <3>2 DEF Listed
  <2> QED
    BY <1>2, <1>7, <2>2, <2>3 DEF CommitTransition
<1>8. CASE AdvanceSpend
  <2>1. evidence.tx \in Spends
    BY <1>8, RowInHand DEF AdvanceSpend, TrackedSpends
  <2>2. ConfirmedSpends' = ConfirmedSpends \cup {evidence.tx}
    BY <1>8, <2>1 DEF AdvanceSpend, RecordConfirmedProposal, ConfirmedSpends, Confirmed
  <2> QED
    BY <1>3, <1>8, <2>1, <2>2 DEF AdvanceSpend
<1>9. CASE CommitFunding \/ ActivateFunding
  <2>1. ASSUME NEW b, RollbackFunding(b)
        PROVE  \A s \in Spends : Confirmed(s)' <=> Confirmed(s)
    BY <2>1 DEF RollbackFunding, StaledProposals, StaleUnsent, Confirmed
  <2> QED
    BY <1>1, <1>2, <1>9, <2>1 DEF CommitFunding, ActivateFunding, RecordConfirmedFunding,
       ReanchorFunding, Confirmed
<1>10. CASE PollStep /\ ~CommitTransition /\ ~AdvanceSpend /\ ~CommitFunding /\ ~ActivateFunding
  BY <1>2, <1>10 DEF PollStep, PollStart, ReadTransition, ReadFunding, ReadConfirmation,
     TransitionsDone, ReconciliationDone, ResumeNext, ResumeDone, ObserveFunding, Resubmit,
     ActivationDone, ObserveSpend, PollDone
<1>11. CASE ChainMoves \/ RequestDies \/ PollDies \/ UNCHANGED allVars
  BY <1>2, <1>11 DEF ChainMoves, RequestDies, PollDies, allVars, watchVars
<1> QED
  BY <1>4, <1>5, <1>6, <1>7, <1>8, <1>9, <1>10, <1>11 DEF WatcherNext

(* The store, the poll, what it read and the submissions keep their types, *)
(* and the confirmed rows are in the order they were last written.         *)
THEOREM WatcherTypeCorrect == WatcherSpec => []WatcherTypeOK
<1>1. WatcherInit => Listed(recency, ConfirmedSpends)
  <2> SUFFICES ASSUME WatcherInit PROVE Listed(recency, ConfirmedSpends)
    OBVIOUS
  <2>1. ConfirmedSpends = {} /\ recency = <<>>
    BY DEF WatcherInit, Init, ConfirmedSpends, Confirmed
  <2>2. <<>> \in Seq(Spends) /\ Len(<<>>) = 0
    OBVIOUS
  <2> QED
    BY <2>1, <2>2 DEF Listed
<1>2. WInv /\ Listed(recency, ConfirmedSpends) /\ [WatcherNext]_allVars
         => Listed(recency, ConfirmedSpends)'
  BY RecencyStep
<1>3. WInv /\ Listed(recency, ConfirmedSpends) => WatcherTypeOK
  <2> SUFFICES ASSUME WInv, Listed(recency, ConfirmedSpends) PROVE WatcherTypeOK
    OBVIOUS
  <2>1. Range(recency) = {t \in Spends : Confirmed(t)}
    <3>1. DOMAIN recency = 1 .. Len(recency)
      BY DEF Listed
    <3> QED
      BY <3>1 DEF Range, Listed, ConfirmedSpends
  <2>2. evidence.verdict \in {"none", "reanchor", "rollback", "confirm"}
    BY DEF WInv, EvidenceOK, NoEvidence
  <2>3. \A w \in {Web, Watcher} :
           job[w].at \in {"idle", "read", "claim", "send", "lookup", "mark"}
    BY JobInHand DEF WInv, NoJob
  <2> QED
    BY <2>1, <2>2, <2>3 DEF WatcherTypeOK, WInv, IInv, PollOK
<1> QED
  BY <1>1, <1>2, <1>3, WatcherInvariant, PTL DEF WatcherSpec

-----------------------------------------------------------------------------
(* A poll's rollbacks across one reorganization.  The poll goes through    *)
(* the rows from the highest block down, the most recently written first;  *)
(* what follows shows that a confirmed child whose confirmation is in      *)
(* doubt is then always taken before its parent.                           *)

(* The list's place of an entry.                                           *)
PlaceIn(list, t) == CHOOSE i \in 1 .. Len(list) : list[i] = t

(* An entry's place is where it is.                                        *)
LEMMA PlaceIs ==
    ASSUME NEW list, NEW S, Listed(list, S), NEW i \in 1 .. Len(list)
    PROVE  PlaceIn(list, list[i]) = i
BY DEF Listed, PlaceIn

(* Where the others go when t is removed from the k-th place.              *)
LEMMA RemovedAt ==
    ASSUME NEW list, NEW S, Listed(list, S), NEW k \in 1 .. Len(list), NEW t, list[k] = t
    PROVE  /\ Len(RemoveFirst(list, t)) = Len(list) - 1
           /\ \A j \in 1 .. Len(list) - 1 :
                 RemoveFirst(list, t)[j] = IF j < k THEN list[j] ELSE list[j + 1]
<1> USE DEF Listed
<1>1. SelectInSeq(list, LAMBDA v : v = t) = k
  <2>1. {i \in 1 .. Len(list) : list[i] = t} = {k}
    OBVIOUS
  <2>2. Min({k}) = k
    BY DEF Min
  <2> QED
    BY <2>1, <2>2 DEF SelectInSeq
<1>2. RemoveFirst(list, t) = RemoveAt(list, k)
  BY <1>1 DEF RemoveFirst
<1>3. list \in Seq(Spends)
  OBVIOUS
<1>4. /\ Len(RemoveAt(list, k)) = Len(list) - 1
      /\ \A j \in 1 .. Len(list) - 1 :
            RemoveAt(list, k)[j] = IF j < k THEN list[j] ELSE list[j + 1]
  BY ONLY <1>3, k \in 1 .. Len(list), WithoutEntry
<1> QED
  BY ONLY <1>2, <1>4

(* The others keep their order when t is removed.                          *)
LEMMA RemovalKeepsOrder ==
    ASSUME NEW list, NEW S, Listed(list, S), NEW t, NEW u \in S, NEW v \in S, u # t, v # t,
           PlaceIn(list, u) < PlaceIn(list, v)
    PROVE  PlaceIn(RemoveFirst(list, t), u) < PlaceIn(RemoveFirst(list, t), v)
<1> DEFINE rest == RemoveFirst(list, t)
<1>1. Listed(rest, S \ {t})
  BY RemoveListed
<1>2. PICK i \in 1 .. Len(list) : list[i] = u
  BY DEF Listed
<1>3. PICK j \in 1 .. Len(list) : list[j] = v
  BY DEF Listed
<1>4. PlaceIn(list, u) = i /\ PlaceIn(list, v) = j /\ i < j
  BY <1>2, <1>3, PlaceIs
<1>5. CASE ~ \E k \in 1 .. Len(list) : list[k] = t
  BY <1>5 DEF RemoveFirst
<1>6. CASE \E k \in 1 .. Len(list) : list[k] = t
  <2>1. PICK k \in 1 .. Len(list) : list[k] = t
    BY <1>6
  <2>2. /\ Len(rest) = Len(list) - 1
        /\ \A h \in 1 .. Len(list) - 1 : rest[h] = IF h < k THEN list[h] ELSE list[h + 1]
    BY <2>1, RemovedAt
  <2> HIDE DEF rest
  <2>3. i # k /\ j # k /\ Len(list) \in Nat
    BY <1>2, <1>3, <2>1 DEF Listed
  <2> DEFINE at(n) == IF n < k THEN n ELSE n - 1
  <2>4. /\ at(i) \in 1 .. Len(rest) /\ rest[at(i)] = u
        /\ at(j) \in 1 .. Len(rest) /\ rest[at(j)] = v
        /\ at(i) < at(j)
    BY <1>2, <1>3, <1>4, <2>2, <2>3
  <2> HIDE DEF at
  <2>5. PlaceIn(rest, u) = at(i) /\ PlaceIn(rest, v) = at(j)
    BY <1>1, <2>4, PlaceIs
  <2> QED
    BY <2>4, <2>5 DEF rest
<1> QED
  BY <1>5, <1>6

(* What is appended comes last, and changes nobody else's place.           *)
LEMMA AppendedLast ==
    ASSUME NEW list, NEW S, Listed(list, S), NEW t \in Spends, t \notin S
    PROVE  /\ PlaceIn(Append(list, t), t) = Len(list) + 1
           /\ \A u \in S : /\ PlaceIn(Append(list, t), u) = PlaceIn(list, u)
                           /\ PlaceIn(list, u) \in 1 .. Len(list)
<1> DEFINE longer == Append(list, t)
<1>1. Listed(longer, S \cup {t})
  BY AppendListed
<1>2. /\ Len(longer) = Len(list) + 1 /\ Len(list) \in Nat
      /\ \A i \in 1 .. Len(list) + 1 : longer[i] = IF i <= Len(list) THEN list[i] ELSE t
  BY AppendProperties DEF Listed
<1> HIDE DEF longer
<1>3. PlaceIn(longer, t) = Len(list) + 1
  <2>1. Len(list) + 1 \in 1 .. Len(longer) /\ longer[Len(list) + 1] = t
    BY <1>2
  <2> QED
    BY <1>1, <2>1, PlaceIs
<1>4. ASSUME NEW u \in S
      PROVE  PlaceIn(longer, u) = PlaceIn(list, u) /\ PlaceIn(list, u) \in 1 .. Len(list)
  <2>1. PICK i \in 1 .. Len(list) : list[i] = u
    BY DEF Listed
  <2>2. i \in 1 .. Len(longer) /\ longer[i] = u
    BY <1>2, <2>1
  <2> QED
    BY <1>1, <2>1, <2>2, PlaceIs
<1> QED
  BY <1>3, <1>4 DEF longer

(* The recency order of two confirmed spends outlives a write to another.  *)
LEMMA RanksKept ==
    ASSUME Listed(recency, ConfirmedSpends), NEW t \in Spends,
           recency' = Touched(t) \/ recency' = Append(Touched(t), t),
           NEW u \in ConfirmedSpends, NEW v \in ConfirmedSpends, u # t, v # t,
           Rank(u) < Rank(v)
    PROVE  Rank(u)' < Rank(v)'
<1>1. \A s : Rank(s) = PlaceIn(recency, s) /\ Rank(s)' = PlaceIn(recency', s)
  BY DEF Rank, PlaceIn
<1>2. PlaceIn(Touched(t), u) < PlaceIn(Touched(t), v)
  BY <1>1, RemovalKeepsOrder DEF Touched
<1>3. Listed(Touched(t), ConfirmedSpends \ {t})
  BY RemoveListed DEF Touched
<1>4. /\ PlaceIn(Append(Touched(t), t), u) = PlaceIn(Touched(t), u)
      /\ PlaceIn(Append(Touched(t), t), v) = PlaceIn(Touched(t), v)
  BY <1>3, AppendedLast
<1> QED
  BY <1>1, <1>2, <1>4

(* The row that is written comes last.                                     *)
LEMMA WrittenLast ==
    ASSUME Listed(recency, ConfirmedSpends), NEW t \in Spends,
           recency' = Append(Touched(t), t),
           NEW u \in ConfirmedSpends, u # t
    PROVE  Rank(u)' < Rank(t)'
<1>1. \A s : Rank(s)' = PlaceIn(recency', s)
  BY DEF Rank, PlaceIn
<1>2. Listed(Touched(t), ConfirmedSpends \ {t})
  BY RemoveListed DEF Touched
<1>3. /\ PlaceIn(Append(Touched(t), t), t) = Len(Touched(t)) + 1
      /\ PlaceIn(Append(Touched(t), t), u) = PlaceIn(Touched(t), u)
      /\ PlaceIn(Touched(t), u) \in 1 .. Len(Touched(t))
  BY <1>2, AppendedLast
<1>4. Len(Touched(t)) \in Nat
  BY <1>2 DEF Listed
<1> QED
  BY <1>1, <1>3, <1>4

-----------------------------------------------------------------------------
(* Block b contains a signing of t.                                        *)
In(blocks, b, t) == \E x \in blocks[b] : x[1] = t

(* No transaction of the best chain comes before the one it spends.        *)
InputsBelow ==
    \A b \in Bitcoin!Best : \A u \in Spends : In(mined, b, u) =>
        /\ \E a \in Bitcoin!Best : In(mined, a, InputOf[u])
        /\ \A a \in Bitcoin!Best : In(mined, a, InputOf[u]) => a[1] <= b[1]

(* The blocks of the best chain exist.                                     *)
LEMMA BestBlocks ==
    ASSUME ChainOK
    PROVE  /\ Bitcoin!Best \subseteq Blocks
           /\ \A b \in Bitcoin!Best :
                 b[1] \in 1 .. Len(chain) /\ b[2] = chain[b[1]] /\ b[2] <= forks
           /\ \A t : t \in Bitcoin!Ids(Bitcoin!OnChain) <=> \E b \in Bitcoin!Best : In(mined, b, t)
<1>1. Bitcoin!Best \subseteq Blocks
  BY ChainConstants DEF ChainOK, Bitcoin!Best
<1>2. \A b \in Bitcoin!Best : b[1] \in 1 .. Len(chain) /\ b[2] = chain[b[1]] /\ b[2] <= forks
  BY DEF ChainOK, Bitcoin!Best
<1>3. \A t : t \in Bitcoin!Ids(Bitcoin!OnChain) <=> \E b \in Bitcoin!Best : In(mined, b, t)
  BY DEF Bitcoin!Ids, Bitcoin!OnChain, In
<1> QED
  BY <1>1, <1>2, <1>3

(* A block on top brings its inputs or finds them below.                   *)
LEMMA MineInputs ==
    ASSUME ChainOK, InputsBelow, NEW S, Bitcoin!Mine(S)
    PROVE  InputsBelow'
<1> DEFINE top == <<Len(chain) + 1, forks>>
<1>1. /\ Len(chain') = Len(chain) + 1 /\ Len(chain) \in Nat
      /\ \A h \in 1 .. Len(chain) : chain'[h] = chain[h]
      /\ chain'[Len(chain) + 1] = forks
  BY AppendProperties DEF ChainOK, Bitcoin!Mine
<1>2. Bitcoin!Best' = Bitcoin!Best \cup {top}
  BY <1>1 DEF Bitcoin!Best
<1>3. /\ top \in Blocks /\ top \notin Bitcoin!Best /\ top[1] = Len(chain) + 1
      /\ mined' = [mined EXCEPT ![top] = S]
  BY <1>1, BestBlocks, ChainConstants DEF Bitcoin!Mine, ChainOK
<1> HIDE DEF top
<1>4. /\ \A b \in Bitcoin!Best : \A t : In(mined', b, t) <=> In(mined, b, t)
      /\ \A t : In(mined', top, t) <=> t \in Bitcoin!Ids(S)
  BY <1>3, BestBlocks DEF In, ChainOK, Bitcoin!Ids
<1>5. /\ \A t : t \in Bitcoin!Ids(S) => \A b \in Bitcoin!Best : ~In(mined, b, t)
      /\ \A u \in Spends : u \in Bitcoin!Ids(S) =>
            InputOf[u] \in Bitcoin!Ids(S) \/ \E b \in Bitcoin!Best : In(mined, b, InputOf[u])
  <2>1. /\ Bitcoin!Ids(S) \cap Bitcoin!Ids(Bitcoin!OnChain) = {}
        /\ Bitcoin!Consistent(Bitcoin!OnChain \cup S)
    BY DEF Bitcoin!Mine
  <2>2. \A t : t \in Bitcoin!Ids(Bitcoin!OnChain \cup S)
                  <=> t \in Bitcoin!Ids(Bitcoin!OnChain) \/ t \in Bitcoin!Ids(S)
    BY DEF Bitcoin!Ids
  <2>3. \A u \in Spends : u \in Bitcoin!Ids(S) => InputOf[u] \in Bitcoin!Ids(Bitcoin!OnChain \cup S)
    BY <2>1 DEF Bitcoin!Consistent, Bitcoin!Ids
  <2> QED
    BY <2>1, <2>2, <2>3, BestBlocks
<1> SUFFICES ASSUME NEW b \in Bitcoin!Best', NEW u \in Spends, In(mined', b, u)
             PROVE  /\ \E a \in Bitcoin!Best' : In(mined', a, InputOf[u])
                    /\ \A a \in Bitcoin!Best' : In(mined', a, InputOf[u]) => a[1] <= b[1]
  BY DEF InputsBelow, In
<1>6. CASE b = top
  <2>1. \E a \in Bitcoin!Best' : In(mined', a, InputOf[u])
    BY <1>2, <1>4, <1>5, <1>6
  <2>2. ASSUME NEW a \in Bitcoin!Best' PROVE a[1] <= b[1]
    <3>1. a = top \/ (a \in Bitcoin!Best /\ a[1] \in 1 .. Len(chain))
      BY <1>2, BestBlocks
    <3> QED
      BY <1>1, <1>3, <1>6, <3>1
  <2> QED
    BY <2>1, <2>2
<1>7. CASE b \in Bitcoin!Best
  <2>1. /\ \E a \in Bitcoin!Best : In(mined, a, InputOf[u])
        /\ \A a \in Bitcoin!Best : In(mined, a, InputOf[u]) => a[1] <= b[1]
    BY <1>4, <1>7 DEF InputsBelow
  <2>2. ~In(mined', top, InputOf[u])
    BY <1>4, <1>5, <2>1
  <2> QED
    BY <1>2, <1>4, <2>1, <2>2
<1> QED
  BY <1>2, <1>6, <1>7

(* A branch keeps what is below it, and orders its own transactions.       *)
LEMMA ReorganizeInputs ==
    ASSUME ChainOK, InputsBelow, NEW d \in 1 .. MaxDepth, d <= Len(chain),
           NEW S \in SUBSET released, NEW place \in [S -> 1 .. d + 1],
           Bitcoin!Reorganize(d, S, place)
    PROVE  InputsBelow'
<1> DEFINE keep == Len(chain) - d
           old == {<<h, chain[h]>> : h \in 1 .. keep}
           new == {<<h, forks + 1>> : h \in keep + 1 .. keep + d + 1}
           kept == UNION {mined[<<h, chain[h]>>] : h \in 1 .. keep}
<1>1. /\ keep \in Nat /\ d \in Nat /\ Len(chain) \in Nat /\ keep + d = Len(chain)
      /\ forks \in Nat /\ Len(chain') = keep + d + 1
      /\ \A h \in 1 .. keep + d + 1 : chain'[h] = IF h <= keep THEN chain[h] ELSE forks + 1
  BY Branch
<1>2. /\ Bitcoin!Ids(S) \cap Bitcoin!Ids(kept) = {}
      /\ Bitcoin!Consistent(kept \cup S)
      /\ \A x, y \in S : x[1] \in Spends /\ InputOf[x[1]] = y[1] => place[y] <= place[x]
      /\ keep + d + 1 <= MaxHeight /\ forks < MaxForks
      /\ mined' = [b \in Blocks |-> IF b[2] = forks + 1 /\ b[1] \in keep + 1 .. keep + d + 1
                                    THEN {x \in S : place[x] = b[1] - keep}
                                    ELSE mined[b]]
  BY ChainConstants DEF Bitcoin!Reorganize
<1> HIDE DEF keep
<1>3. Bitcoin!Best' = old \cup new
  <2>1. \A b \in Bitcoin!Best' : b \in old \cup new
    BY <1>1 DEF Bitcoin!Best
  <2>2. \A b \in old \cup new : b \in Bitcoin!Best'
    BY <1>1 DEF Bitcoin!Best
  <2> QED
    BY <2>1, <2>2
<1>4. /\ old \subseteq Bitcoin!Best /\ \A b \in old : b[1] \in 1 .. keep
      /\ \A b \in Bitcoin!Best : b[1] <= keep => b \in old
  BY <1>1 DEF Bitcoin!Best
<1>5. /\ new \subseteq Blocks
      /\ \A b \in new : b[2] = forks + 1 /\ b[1] \in keep + 1 .. keep + d + 1
  BY <1>1, <1>2, ChainConstants
<1>6. \A t : t \in Bitcoin!Ids(kept) <=> \E b \in old : In(mined, b, t)
  BY DEF Bitcoin!Ids, In
<1> HIDE DEF old, new, kept
<1>7. \A b \in old : mined'[b] = mined[b]
  <2>1. \A b \in old : b \in Blocks /\ b[2] <= forks /\ b[2] \in Nat
    BY <1>1, <1>4, BestBlocks, ChainConstants
  <2> QED
    BY <1>1, <1>2, <2>1
<1>8. \A b \in new : mined'[b] = {x \in S : place[x] = b[1] - keep}
  BY <1>2, <1>5
<1>9. \A t : t \in Bitcoin!Ids(S) => \E b \in new : In(mined', b, t)
  <2> SUFFICES ASSUME NEW x \in S PROVE \E b \in new : In(mined', b, x[1])
    BY DEF Bitcoin!Ids
  <2> DEFINE b == <<keep + place[x], forks + 1>>
  <2>1. b \in new /\ b[1] - keep = place[x]
    BY <1>1 DEF new
  <2> HIDE DEF b
  <2> QED
    BY <1>8, <2>1 DEF In
<1>10. \A b \in new : \A t : In(mined', b, t) => t \in Bitcoin!Ids(S)
  BY <1>8 DEF In, Bitcoin!Ids
<1> SUFFICES ASSUME NEW b \in Bitcoin!Best', NEW u \in Spends, In(mined', b, u)
             PROVE  /\ \E a \in Bitcoin!Best' : In(mined', a, InputOf[u])
                    /\ \A a \in Bitcoin!Best' : In(mined', a, InputOf[u]) => a[1] <= b[1]
  BY DEF InputsBelow, In
<1>11. CASE b \in old
  <2>1. /\ \E a \in Bitcoin!Best : In(mined, a, InputOf[u])
        /\ \A a \in Bitcoin!Best : In(mined, a, InputOf[u]) => a[1] <= b[1]
    BY <1>4, <1>7, <1>11 DEF InputsBelow, In
  <2>2. PICK a \in Bitcoin!Best : In(mined, a, InputOf[u]) /\ a[1] <= b[1]
    BY <2>1
  <2>3. a \in old
    <3>1. a[1] \in Nat /\ b[1] \in 1 .. keep
      BY <1>4, <1>11, BestBlocks
    <3> QED
      BY <1>1, <1>4, <2>2, <3>1
  <2>4. InputOf[u] \notin Bitcoin!Ids(S)
    BY <1>2, <1>6, <2>2, <2>3
  <2>5. \A c \in new : ~In(mined', c, InputOf[u])
    BY <1>10, <2>4
  <2>6. \A c \in old : In(mined', c, InputOf[u]) => c[1] <= b[1]
    BY <1>4, <1>7, <2>1 DEF In
  <2>7. In(mined', a, InputOf[u])
    BY <1>7, <2>2, <2>3 DEF In
  <2> QED
    BY <1>3, <2>3, <2>5, <2>6, <2>7
<1>12. CASE b \in new
  <2>1. PICK x \in S : x[1] = u /\ place[x] = b[1] - keep
    BY <1>8, <1>12 DEF In
  <2>2. InputOf[u] \in Bitcoin!Ids(kept) \/ InputOf[u] \in Bitcoin!Ids(S)
    BY <1>2, <2>1 DEF Bitcoin!Consistent, Bitcoin!Ids
  <2>3. \E a \in Bitcoin!Best' : In(mined', a, InputOf[u])
    <3>1. CASE InputOf[u] \in Bitcoin!Ids(S)
      BY <1>3, <1>9, <3>1
    <3>2. CASE InputOf[u] \in Bitcoin!Ids(kept)
      BY <1>3, <1>6, <1>7, <3>2 DEF In
    <3> QED
      BY <2>2, <3>1, <3>2
  <2>4. ASSUME NEW a \in Bitcoin!Best', In(mined', a, InputOf[u]) PROVE a[1] <= b[1]
    <3>1. b[1] \in keep + 1 .. keep + d + 1
      BY <1>5, <1>12
    <3>2. CASE a \in old
      BY <1>1, <1>4, <3>1, <3>2
    <3>3. CASE a \in new
      <4>1. PICK y \in S : y[1] = InputOf[u] /\ place[y] = a[1] - keep
        BY <1>8, <2>4, <3>3 DEF In
      <4>2. place[y] <= place[x] /\ a[1] \in keep + 1 .. keep + d + 1
        BY <1>2, <1>5, <2>1, <3>3, <4>1
      <4> QED
        BY <1>1, <2>1, <3>1, <4>1, <4>2
    <3> QED
      BY <1>3, <2>4, <3>2, <3>3
  <2> QED
    BY <2>3, <2>4
<1> QED
  BY <1>3, <1>11, <1>12

(* The best chain changes by the node's own steps only.                    *)
LEMMA ChainOnly ==
    ASSUME WInv, [WatcherNext]_allVars, ~ChainMoves
    PROVE  UNCHANGED <<chain, mined, forks>>
<1>1. ASSUME NEW w \in {Web, Watcher}, Submit(w) PROVE UNCHANGED <<chain, mined, forks>>
  BY <1>1 DEF Submit, SubmitRead, SubmitClaim, SubmitSend, SubmitLookup, SubmitMark, nodeVars,
     Bitcoin!Send
<1>2. CASE PollStep
  BY <1>2 DEF PollStep, PollStart, ReadTransition, ReadFunding, ReadConfirmation,
     CommitTransition, TransitionsDone, CommitFunding, ReconciliationDone, ResumeNext,
     ResumeDone, ObserveFunding, Resubmit, Bitcoin!Send, ActivateFunding, ActivationDone,
     ObserveSpend, AdvanceSpend, PollDone, nodeVars
<1>3. CASE \/ ParticipantActs \/ RequestDies \/ PollDies \/ UNCHANGED allVars
           \/ \E t \in Spends : RequestSubmission(t)
  BY <1>3 DEF ParticipantActs, RequestDies, PollDies, RequestSubmission, allVars, nodeVars
<1> QED
  BY <1>1, <1>2, <1>3 DEF WatcherNext

(* Whoever acts, a transaction stays above the one it spends.              *)
LEMMA InputsStep ==
    ASSUME WInv, InputsBelow, [WatcherNext]_allVars
    PROVE  InputsBelow'
<1>1. CASE UNCHANGED <<chain, mined, forks>>
  BY <1>1 DEF InputsBelow, Bitcoin!Best
<1>2. CASE ChainMoves
  BY <1>1, <1>2, MineInputs, ReorganizeInputs DEF ChainMoves, Bitcoin!ChainNext,
     Bitcoin!Evict, WInv
<1> QED
  BY <1>1, <1>2, ChainOnly

(* What a deep transaction spends is deep as well.                         *)
LEMMA ParentDeep ==
    ASSUME ChainOK, InputsBelow, NEW b \in Blocks, NEW u \in Spends, In(mined, b, u),
           Bitcoin!BlockConfirmations(b) >= Required
    PROVE  Deep(InputOf[u])
<1> DEFINE t == InputOf[u]
<1>1. b \in Bitcoin!Best /\ Len(chain) - b[1] + 1 >= Required
  BY ChainConstants DEF Bitcoin!BlockConfirmations
<1>2. /\ \E a \in Bitcoin!Best : In(mined, a, t)
      /\ \A a \in Bitcoin!Best : In(mined, a, t) => a[1] <= b[1]
  BY <1>1 DEF InputsBelow
<1> HIDE DEF t
<1>3. t \in Bitcoin!Ids(Bitcoin!OnChain)
  BY <1>2, BestBlocks
<1>4. Bitcoin!BlockOf(t) \in Bitcoin!Best /\ In(mined, Bitcoin!BlockOf(t), t)
  BY <1>2 DEF Bitcoin!BlockOf, Bitcoin!Ids, In
<1>5. Bitcoin!BlockOf(t)[1] <= b[1]
  BY <1>2, <1>4
<1>6. Bitcoin!BlockOf(t)[1] \in Nat /\ b[1] \in Nat /\ Len(chain) \in Nat
  BY <1>1, <1>4, BestBlocks DEF ChainOK
<1>7. Bitcoin!Confirmations(t) = Len(chain) - Bitcoin!BlockOf(t)[1] + 1
  BY <1>3 DEF Bitcoin!Confirmations
<1> QED
  BY <1>1, <1>5, <1>6, <1>7, ChainConstants DEF Deep, t

(* What is deep stays deep until a reorganization.                         *)
LEMMA DeepStays ==
    ASSUME WInv, [WatcherNext]_allVars, UNCHANGED forks, NEW b \in Blocks,
           Bitcoin!BlockConfirmations(b) >= Required
    PROVE  Bitcoin!BlockConfirmations(b)' >= Required
<1>1. Bitcoin!BlockConfirmations(b) \in Nat
  BY ChainConstants DEF Bitcoin!BlockConfirmations, Bitcoin!Best, ChainOK, WInv
<1>2. Bitcoin!BlockConfirmations(b)' \in Nat
  BY ChainConstants, NodeStep DEF Bitcoin!BlockConfirmations, Bitcoin!Best, ChainOK
<1>3. Bitcoin!BlockConfirmations(b)' >= Bitcoin!BlockConfirmations(b)
  BY GrowStep
<1> QED
  BY <1>1, <1>2, <1>3, ChainConstants

-----------------------------------------------------------------------------
(* The rows change by the poll's four writes only.                         *)
Writes == CommitTransition \/ CommitFunding \/ ActivateFunding \/ AdvanceSpend

(* All else leaves the anchors and their order alone.                      *)
LEMMA RowsStand ==
    ASSUME WInv, [WatcherNext]_allVars, ~Writes
    PROVE  UNCHANGED <<anchor, recency>>
<1> USE DEF Writes
<1>1. CASE ParticipantActs
  BY <1>1 DEF ParticipantActs, ObserveCoin, CreateProposal, Finalize, ProposalExpires,
     CreateBroadcastApprovalChallenge, CompleteBroadcastApproval, watchVars
<1>2. ASSUME NEW s \in Spends, RequestSubmission(s) PROVE UNCHANGED <<anchor, recency>>
  BY <1>2 DEF RequestSubmission, CompleteBroadcastApproval
<1>3. ASSUME NEW w \in {Web, Watcher}, Submit(w) PROVE UNCHANGED <<anchor, recency>>
  BY <1>3 DEF Submit, SubmitRead, SubmitClaim, SubmitSend, SubmitLookup, SubmitMark,
     ClaimBroadcast, MarkBroadcast, vars
<1>4. CASE PollStep
  BY <1>4 DEF PollStep, PollStart, ReadTransition, ReadConfirmation, TransitionsDone,
     ReadFunding, ReconciliationDone, ResumeNext, ResumeDone, ObserveFunding, Resubmit,
     ActivationDone, ObserveSpend, PollDone, vars
<1>5. CASE ChainMoves \/ RequestDies \/ PollDies \/ UNCHANGED allVars
  BY <1>5 DEF ChainMoves, RequestDies, PollDies, allVars, vars, watchVars
<1> QED
  BY <1>1, <1>2, <1>3, <1>4, <1>5 DEF WatcherNext

(* Which spends are confirmed can be read off their anchors.               *)
LEMMA ConfirmedAnchors ==
    ASSUME WInv
    PROVE  /\ ConfirmedSpends = {t \in Spends : anchor[t] # NoBlock}
           /\ \A t \in Spends : anchor[t] # NoBlock =>
                 anchor[t] \in Blocks /\ anchor[t][1] \in Nat /\ In(mined, anchor[t], t)
<1>1. ASSUME NEW t \in Spends, anchor[t] # NoBlock
      PROVE  anchor[t] \in Blocks /\ anchor[t][1] \in Nat /\ In(mined, anchor[t], t)
  <2>1. anchor[t] \in Blocks
    BY <1>1 DEF WInv, IInv, TypeOK, Txs
  <2>2. anchor[t][1] \in Nat
    BY <2>1, ChainConstants
  <2>3. Bytes(t) \in mined[anchor[t]] /\ Bytes(t)[1] = t
    BY <1>1 DEF WInv, AnchorsAreEvidence, Bytes, Txs
  <2> QED
    BY <2>1, <2>2, <2>3 DEF In
<1> QED
  BY <1>1 DEF WInv, IInv, Lineage, AnchoredIffConfirmed, ConfirmedSpends, Confirmed

(* The same after a step.                                                  *)
LEMMA ConfirmedByAnchor ==
    ASSUME WInv, [WatcherNext]_allVars
    PROVE  /\ ConfirmedSpends = {t \in Spends : anchor[t] # NoBlock}
           /\ ConfirmedSpends' = {t \in Spends : anchor'[t] # NoBlock}
           /\ \A t \in Spends : anchor[t] # NoBlock =>
                 anchor[t] \in Blocks /\ anchor[t][1] \in Nat /\ In(mined, anchor[t], t)
<1>1. IInv'
  BY StoreStep, InvariantStep DEF WInv
<1> QED
  BY <1>1, ConfirmedAnchors DEF IInv, Lineage, AnchoredIffConfirmed, ConfirmedSpends, Confirmed

(* The best chain is reorganized by one branch at a time.                  *)
LEMMA ForksStep ==
    ASSUME WInv, [WatcherNext]_allVars
    PROVE  /\ forks \in Nat /\ forks' \in Nat
           /\ forks' = forks \/ (ChainMoves /\ forks < MaxForks /\ forks' = forks + 1)
<1>1. forks \in Nat /\ forks' \in Nat
  BY NodeStep DEF WInv, ChainOK
<1>2. CASE ChainMoves
  BY <1>1, <1>2 DEF ChainMoves, Bitcoin!ChainNext, Bitcoin!Mine, Bitcoin!Reorganize,
     Bitcoin!Evict
<1> QED
  BY <1>1, <1>2, ChainOnly

(* Where new evidence comes from.                                          *)
LEMMA NewEvidence ==
    ASSUME WInv, [WatcherNext]_allVars, evidence' \notin {evidence, NoEvidence}
    PROVE  /\ UNCHANGED <<vars, chain, mined, forks, recency, poll, quiet>>
           /\ evidence = NoEvidence
           /\ \/ /\ Reconciling /\ poll.rows # <<>> /\ evidence'.tx = Head(poll.rows)
                 /\ evidence'.verdict = Verdict(evidence'.tx)
                 /\ Verdict(evidence'.tx) \in {"reanchor", "rollback"}
              \/ evidence'.verdict = "confirm" /\ evidence'.tx = FundingTx
              \/ /\ evidence'.verdict = "confirm" /\ evidence'.tx \in Candidates
                 /\ Deep(evidence'.tx) /\ evidence'.block = Bitcoin!BlockOf(evidence'.tx)
<1> USE DEF WInv
<1>1. CASE ReadTransition \/ ReadFunding
  <2>1. PICK t : t = Head(poll.rows)
    OBVIOUS
  <2>2. poll.rows # <<>> /\ Reconciling
    BY <1>1 DEF ReadTransition, ReadFunding, Reconciling
  <2>3. ReadConfirmation(t)
    <3>1. Head(<<FundingTx>>) = FundingTx
      OBVIOUS
    <3> QED
      BY <1>1, <2>1, <3>1 DEF ReadTransition, ReadFunding, PollOK
  <2>4. Verdict(t) \in {"reanchor", "rollback"}
    BY <2>3 DEF ReadConfirmation, PollThrows, PollStops, Verdict
  <2> QED
    BY <2>1, <2>2, <2>3, <2>4 DEF ReadConfirmation, nodeVars
<1>2. CASE ObserveFunding
  BY <1>2 DEF ObserveFunding, Resubmit, PollThrows, PollStops, ConfirmEvidence, nodeVars
<1>3. CASE ObserveSpend
  BY <1>3 DEF ObserveSpend, Resubmit, ConfirmEvidence, nodeVars
<1>4. CASE PollStep /\ ~ReadTransition /\ ~ReadFunding /\ ~ObserveFunding /\ ~ObserveSpend
  BY <1>4 DEF PollStep, PollStart, CommitTransition, TransitionsDone,
     CommitFunding, ReconciliationDone, ResumeNext, ResumeDone,
     ActivateFunding, ActivationDone, AdvanceSpend, PollDone, ReconcileDone,
     PollThrows, PollStops
<1>5. ASSUME NEW w \in {Web, Watcher}, Submit(w) PROVE evidence' = evidence
  BY <1>5 DEF Submit, SubmitRead, SubmitClaim, SubmitSend, SubmitLookup, SubmitMark
<1>6. CASE \/ ChainMoves \/ ParticipantActs \/ RequestDies \/ PollDies \/ UNCHANGED allVars
           \/ \E t \in Spends : RequestSubmission(t)
  BY <1>6 DEF ChainMoves, ParticipantActs, RequestDies, PollDies, PollStops,
     RequestSubmission, allVars, watchVars
<1> QED
  BY <1>1, <1>2, <1>3, <1>4, <1>5, <1>6 DEF WatcherNext

(* While evidence waits, no row is written.                                *)
LEMMA WritesConsume ==
    ASSUME WInv, Writes
    PROVE  /\ evidence # NoEvidence /\ evidence' = NoEvidence
           /\ UNCHANGED <<chain, mined, forks>>
BY DEF Writes, CommitTransition, CommitFunding, ActivateFunding, AdvanceSpend, ReconcileDone,
       PollThrows, PollStops, nodeVars

-----------------------------------------------------------------------------
(* One reorganization.                                                     *)

(* Before it every recorded confirmation is deep, and none is doubted.     *)
UntouchedYet ==
    forks = 0 => /\ Undisturbed /\ EvidenceDeep
                 /\ evidence.verdict \notin {"reanchor", "rollback"}

(* What is reanchored after it is anchored deep.                           *)
ReanchorsDeep == evidence.verdict = "reanchor" => EvidenceDeep

(* A row comes before the row of its input unless one of them is deep.     *)
ChildrenFirst ==
    \A u \in Spends : u \in ConfirmedSpends /\ InputOf[u] \in ConfirmedSpends =>
        \/ ProcessedBefore(u, InputOf[u])
        \/ forks # 0 /\ (Settled(u) \/ Settled(InputOf[u]))

(* So will the row that is about to be written.                            *)
ConfirmsInOrder ==
    /\ evidence.verdict = "confirm" /\ evidence.tx \in Spends
    /\ InputOf[evidence.tx] \in ConfirmedSpends
    => \/ anchor[InputOf[evidence.tx]][1] <= evidence.block[1]
       \/ forks # 0 /\ Bitcoin!BlockConfirmations(evidence.block) >= Required

(* The poll goes through the rows in the order it found them in.           *)
RowsInOrder ==
    poll.phase = "transitions" =>
        \A i, j \in 1 .. Len(poll.rows) : \A s, t \in Spends :
            i < j /\ poll.rows[i] = s /\ poll.rows[j] = t => ProcessedBefore(s, t)

(* What it rolls back is not deep, as long as nothing moved.               *)
ShallowRead ==
    quiet /\ evidence.verdict = "rollback" => ~Settled(evidence.tx) /\ ~Deep(evidence.tx)

(* Before the first reorganization there is nothing to reconcile.          *)
LEMMA UntouchedStep ==
    ASSUME WInv, RowsAnchored, UntouchedYet, [WatcherNext]_allVars
    PROVE  UntouchedYet'
<1> SUFFICES ASSUME forks' = 0
             PROVE  /\ Undisturbed' /\ EvidenceDeep'
                    /\ evidence'.verdict \notin {"reanchor", "rollback"}
  BY DEF UntouchedYet
<1>1. forks = 0 /\ UNCHANGED forks
  BY ForksStep
<1>2. Undisturbed' /\ EvidenceDeep'
  BY <1>1, UndisturbedStep, EvidenceStaysDeep DEF UntouchedYet
<1>3. CASE evidence' \in {evidence, NoEvidence}
  BY <1>1, <1>2, <1>3 DEF UntouchedYet, NoEvidence
<1>4. CASE evidence' \notin {evidence, NoEvidence}
  <2> DEFINE t == evidence'.tx
  <2>1. SUFFICES ASSUME /\ Reconciling /\ poll.rows # <<>> /\ t = Head(poll.rows)
                        /\ Verdict(t) \in {"reanchor", "rollback"}
                 PROVE  FALSE
    BY <1>2, <1>4, NewEvidence
  <2>2. t \in Txs /\ t = poll.rows[1] /\ Len(poll.rows) >= 1
    BY <2>1, TailRows, EmptySeq DEF PollOK, WInv
  <2> HIDE DEF t
  <2>3. anchor[t] # NoBlock
    BY <2>1, <2>2 DEF RowsAnchored, WInv, PollOK
  <2> QED
    BY <1>1, <2>1, <2>2, <2>3, StableRow DEF UntouchedYet, Undisturbed
<1> QED
  BY <1>2, <1>3, <1>4

(* What is to be reanchored is deep: nothing can come in between.          *)
LEMMA ReanchorsStep ==
    ASSUME MaxForks <= 1, WInv, UntouchedYet, ReanchorsDeep, [WatcherNext]_allVars
    PROVE  ReanchorsDeep'
<1> SUFFICES ASSUME evidence'.verdict = "reanchor" PROVE EvidenceDeep'
  BY DEF ReanchorsDeep
<1>1. UNCHANGED forks
  <2>1. ASSUME ChainMoves, forks < MaxForks, forks' = forks + 1 PROVE FALSE
    <3>1. forks = 0 /\ evidence' = evidence
      BY <2>1, ForksStep, ChainConstants DEF ChainMoves
    <3> QED
      BY <3>1 DEF UntouchedYet
  <2> QED
    BY <2>1, ForksStep
<1>2. EvidenceDeep \/ evidence' # evidence
  BY DEF ReanchorsDeep
<1> QED
  BY <1>1, <1>2, EvidenceStaysDeep

(* What is to be rolled back is not found deep before it is.               *)
LEMMA ShallowStep ==
    ASSUME WInv, RowsAnchored, ShallowRead, [WatcherNext]_allVars
    PROVE  ShallowRead'
<1> SUFFICES ASSUME quiet', evidence'.verdict = "rollback"
             PROVE  ~Settled(evidence.tx)' /\ ~Deep(evidence.tx)'
  BY DEF ShallowRead
<1>1. chain' = chain /\ (quiet \/ PollStart)
  BY QuietStep
<1>2. mined' = mined
  <2>1. CASE ChainMoves
    BY <1>1, <2>1, ChainStep DEF ChainMoves, WInv
  <2>2. CASE ~ChainMoves
    BY <2>2, ChainOnly
  <2> QED
    BY <2>1, <2>2
<1>3. /\ \A b : Bitcoin!BlockConfirmations(b)' = Bitcoin!BlockConfirmations(b)
      /\ Deep(evidence.tx)' <=> Deep(evidence'.tx)
  BY <1>1, <1>2 DEF Bitcoin!BlockConfirmations, Bitcoin!Best, Deep, Bitcoin!Confirmations,
     Bitcoin!Ids, Bitcoin!OnChain, Bitcoin!BlockOf
<1>4. evidence' # NoEvidence
  BY DEF NoEvidence
<1>5. CASE evidence' = evidence
  <2>1. ~PollStart
    BY <1>4, <1>5 DEF PollStart, Idle, Dead, WInv, EvidenceOK
  <2>2. ~Settled(evidence.tx) /\ ~Deep(evidence.tx)
    BY <1>1, <1>5, <2>1 DEF ShallowRead
  <2>3. anchor' = anchor
    BY <1>4, <1>5, WritesConsume, RowsStand
  <2> QED
    BY <1>3, <1>5, <2>2, <2>3 DEF Settled
<1>6. CASE evidence' # evidence
  <2> DEFINE t == evidence'.tx
  <2>1. /\ UNCHANGED anchor /\ Reconciling /\ poll.rows # <<>> /\ t = Head(poll.rows)
        /\ Verdict(t) = "rollback"
    BY <1>4, <1>6, NewEvidence DEF vars
  <2>2. t = poll.rows[1] /\ Len(poll.rows) >= 1
    BY <2>1, TailRows, EmptySeq DEF PollOK, WInv
  <2>3. anchor[t] # NoBlock
    BY <2>1, <2>2 DEF RowsAnchored, WInv, PollOK
  <2>4. ~(Bitcoin!BlockConfirmations(anchor[t]) >= Required) /\ ~Deep(t)
    BY <2>1 DEF Verdict
  <2> QED
    BY <1>3, <2>1, <2>3, <2>4 DEF Settled
<1> QED
  BY <1>5, <1>6

(* A spend that the poll is about to confirm comes above its input.        *)
LEMMA ConfirmsStep ==
    ASSUME MaxForks <= 1, WInv, InputsBelow, UntouchedYet, ConfirmsInOrder,
           [WatcherNext]_allVars
    PROVE  ConfirmsInOrder'
<1> DEFINE u == evidence'.tx
           t == InputOf[u]
<1> SUFFICES ASSUME evidence'.verdict = "confirm", u \in Spends, t \in ConfirmedSpends'
             PROVE  \/ anchor'[t][1] <= evidence'.block[1]
                    \/ forks' # 0 /\ Bitcoin!BlockConfirmations(evidence.block)' >= Required
  BY DEF ConfirmsInOrder
<1>1. evidence' # NoEvidence
  BY DEF NoEvidence
<1>2. UNCHANGED anchor
  BY <1>1, WritesConsume, RowsStand
<1>3. t \in ConfirmedSpends /\ anchor[t] # NoBlock
  BY <1>2, ConfirmedByAnchor
<1>4. CASE evidence' = evidence
  <2>1. CASE anchor[t][1] <= evidence.block[1]
    BY <1>2, <1>4, <2>1
  <2>2. CASE forks # 0 /\ Bitcoin!BlockConfirmations(evidence.block) >= Required
    <3>1. forks' = forks
      BY <2>2, ForksStep, ChainConstants
    <3>2. PICK b \in Blocks : b = evidence.block
      BY <1>1, <1>4 DEF WInv, EvidenceOK
    <3>3. Bitcoin!BlockConfirmations(b)' >= Required
      BY <2>2, <3>1, <3>2, DeepStays
    <3> QED
      BY <1>4, <2>2, <3>1, <3>2, <3>3 DEF Bitcoin!BlockConfirmations, Bitcoin!Best
  <2> QED
    BY <1>3, <1>4, <2>1, <2>2 DEF ConfirmsInOrder
<1>5. CASE evidence' # evidence
  <2>1. /\ UNCHANGED <<chain, forks>>
        /\ Deep(u) /\ evidence'.block = Bitcoin!BlockOf(u)
    BY <1>1, <1>5, NewEvidence, Constants DEF Verdict
  <2>2. PICK b : b = Bitcoin!BlockOf(u)
    OBVIOUS
  <2>3. b \in Blocks /\ In(mined, b, u) /\ Bitcoin!BlockConfirmations(b) >= Required
    BY <2>1, <2>2, DeepBlock DEF In, WInv
  <2>4. CASE forks # 0
    BY <2>1, <2>2, <2>3, <2>4 DEF Bitcoin!BlockConfirmations, Bitcoin!Best
  <2>5. CASE forks = 0
    <3>1. Bitcoin!BlockConfirmations(anchor[t]) >= Required
      BY <1>3, <2>5 DEF UntouchedYet, Undisturbed, Settled, ConfirmedSpends, Txs
    <3>2. anchor[t] \in Bitcoin!Best /\ b \in Bitcoin!Best
      BY <2>3, <3>1, ChainConstants DEF Bitcoin!BlockConfirmations
    <3>3. In(mined, anchor[t], t)
      BY <1>3, ConfirmedByAnchor
    <3>4. anchor[t][1] <= b[1]
      BY <2>3, <3>2, <3>3 DEF InputsBelow
    <3> QED
      BY <1>2, <2>1, <2>2, <3>4
  <2> QED
    BY <2>4, <2>5
<1> QED
  BY <1>4, <1>5

(* What a write does to the row at hand, and that it leaves the others.    *)
LEMMA WriteEffect ==
    ASSUME WInv, Writes
    PROVE  /\ evidence.tx \in Txs /\ poll.rows # <<>> /\ evidence.tx = poll.rows[1]
           /\ NextRow \/ poll' = Idle
           /\ \A v \in Txs : v # evidence.tx => anchor'[v] = anchor[v]
           /\ \/ UNCHANGED <<anchor, recency>>
              \/ evidence.tx = FundingTx /\ UNCHANGED recency
              \/ /\ evidence.tx \in Spends /\ evidence.verdict = "reanchor"
                 /\ anchor'[evidence.tx] = evidence.block
                 /\ recency' = Append(Touched(evidence.tx), evidence.tx)
              \/ /\ evidence.tx \in Spends /\ evidence.verdict = "rollback"
                 /\ anchor'[evidence.tx] = NoBlock
                 /\ recency' = Touched(evidence.tx)
              \/ /\ evidence.tx \in Spends /\ evidence.verdict = "confirm"
                 /\ anchor'[evidence.tx] = evidence.block
                 /\ recency' = Append(Touched(evidence.tx), evidence.tx)
                 /\ Confirmable(evidence.tx)
<1> USE DEF WInv, IInv
<1>1. PICK t : t = evidence.tx
  OBVIOUS
<1>2. /\ evidence # NoEvidence /\ poll.rows # <<>> /\ t = Head(poll.rows)
      /\ poll.phase \in {"transitions", "funding", "activate", "advance"}
  BY <1>1, WritesConsume DEF EvidenceOK
<1>3. t \in Txs /\ t = poll.rows[1]
  BY <1>2, TailRows DEF PollOK
<1>4. /\ poll.phase \in {"transitions", "advance"} => t \in Spends
      /\ poll.phase \in {"funding", "activate"} => t = FundingTx
  BY <1>1, <1>2, RowInHand, Constants DEF TrackedSpends
<1>5. anchor \in [Txs -> Blocks \cup {NoBlock}]
  BY DEF TypeOK
<1>6. CASE CommitTransition
  BY <1>1, <1>2, <1>3, <1>4, <1>5, <1>6 DEF CommitTransition, ReanchorTransition,
     RollbackTransition, ReconcileDone, PollThrows, PollStops, vars
<1>7. CASE CommitFunding
  BY <1>1, <1>2, <1>3, <1>4, <1>5, <1>7 DEF CommitFunding, ReanchorFunding, RollbackFunding,
     ReconcileDone, PollThrows, PollStops, vars
<1>8. CASE ActivateFunding
  BY <1>1, <1>2, <1>3, <1>4, <1>5, <1>8 DEF ActivateFunding, RecordConfirmedFunding,
     ReconcileDone
<1>9. CASE AdvanceSpend
  <2>1. evidence.verdict = "confirm"
    BY <1>2, <1>9 DEF AdvanceSpend, EvidenceOK, Reconciling
  <2> QED
    BY <1>1, <1>2, <1>3, <1>4, <1>5, <1>9, <2>1 DEF AdvanceSpend, RecordConfirmedProposal,
       ReconcileDone
<1> QED
  BY <1>6, <1>7, <1>8, <1>9 DEF Writes

(* Of two confirmed spends at most one comes before the other.             *)
LEMMA OneOrder ==
    ASSUME WInv, Listed(recency, ConfirmedSpends),
           NEW s \in ConfirmedSpends, NEW t \in ConfirmedSpends, ProcessedBefore(s, t)
    PROVE  ~ProcessedBefore(t, s)
<1>1. anchor[s][1] \in Nat /\ anchor[t][1] \in Nat
  BY ConfirmedAnchors
<1>2. ASSUME NEW v \in ConfirmedSpends PROVE Rank(v) \in Nat
  <2>1. PICK i \in 1 .. Len(recency) : recency[i] = v
    BY DEF Listed
  <2>2. PlaceIn(recency, v) = i
    BY <2>1, PlaceIs
  <2>3. Rank(v) = PlaceIn(recency, v)
    BY DEF Rank, PlaceIn
  <2> QED
    BY ONLY <2>2, <2>3, i \in Nat
<1>3. Rank(s) \in Nat /\ Rank(t) \in Nat
  BY <1>2
<1> QED
  BY <1>1, <1>3 DEF ProcessedBefore

(* The order of two spends outlives every write to another.                *)
LEMMA OrderStays ==
    ASSUME Listed(recency, ConfirmedSpends),
           NEW u \in ConfirmedSpends, NEW v \in ConfirmedSpends, ProcessedBefore(u, v),
           anchor'[u] = anchor[u], anchor'[v] = anchor[v],
           \/ UNCHANGED recency
           \/ \E t \in Spends : /\ u # t /\ v # t
                                /\ recency' = Touched(t) \/ recency' = Append(Touched(t), t)
    PROVE  ProcessedBefore(u, v)'
<1>1. CASE UNCHANGED recency
  BY <1>1 DEF ProcessedBefore, Rank
<1>2. CASE \E t \in Spends : /\ u # t /\ v # t
                             /\ recency' = Touched(t) \/ recency' = Append(Touched(t), t)
  <2>1. Rank(u) > Rank(v) => Rank(u)' > Rank(v)'
    BY <1>2, RanksKept
  <2> QED
    BY <2>1 DEF ProcessedBefore
<1> QED
  BY <1>1, <1>2

(* Only the row at hand changes under a poll that goes through its rows.   *)
LEMMA OthersStay ==
    ASSUME WInv, RowsAnchored, RowsInOrder, Listed(recency, ConfirmedSpends),
           [WatcherNext]_allVars, Reconciling, NEW i \in 1 .. Len(poll.rows)
    PROVE  anchor'[poll.rows[i]] = anchor[poll.rows[i]] \/ (Writes /\ i = 1)
<1>1. CASE ~Writes
  BY <1>1, RowsStand
<1>2. CASE Writes /\ i # 1
  <2>1. /\ poll.rows[i] \in Txs /\ 1 \in 1 .. Len(poll.rows) /\ 1 < i
        /\ evidence.tx = poll.rows[1]
    BY <1>2, WriteEffect, ElementOfSeq DEF WInv, PollOK
  <2>2. poll.rows[i] # poll.rows[1]
    <3>1. CASE poll.phase = "transitions"
      <4>1. poll.rows[1] \in Spends /\ poll.rows[i] \in Spends
        BY <2>1, <3>1, ElementOfSeq DEF WInv, PollOK
      <4>2. poll.rows[1] \in ConfirmedSpends /\ poll.rows[i] \in ConfirmedSpends
        BY <2>1, <4>1, ConfirmedByAnchor DEF RowsAnchored
      <4>3. ProcessedBefore(poll.rows[1], poll.rows[i])
        BY <2>1, <3>1, <4>1 DEF RowsInOrder
      <4> QED
        BY <4>2, <4>3, OneOrder
    <3>2. CASE poll.phase = "funding"
      <4>1. poll.rows = <<>> \/ poll.rows = <<FundingTx>>
        BY <3>2 DEF WInv, PollOK
      <4> QED
        BY <1>2, <4>1
    <3> QED
      BY <3>1, <3>2 DEF Reconciling
  <2> QED
    BY <1>2, <2>1, <2>2, WriteEffect
<1> QED
  BY <1>1, <1>2

(* Every row of a reconciliation is still confirmed when its turn comes.   *)
LEMMA RowsAnchoredStep ==
    ASSUME WInv, RowsAnchored, RowsInOrder, Listed(recency, ConfirmedSpends),
           [WatcherNext]_allVars
    PROVE  RowsAnchored'
<1>1. CASE Writes /\ poll' = Idle
  BY <1>1 DEF RowsAnchored, Reconciling, Idle
<1>2. CASE Writes => NextRow
  <2>1. ASSUME Reconciling, NEW i \in 1 .. Len(poll.rows)
        PROVE  anchor'[poll.rows[i]] # NoBlock \/ (NextRow /\ i = 1)
    BY <1>2, <2>1, OthersStay DEF RowsAnchored
  <2> QED
    BY <2>1, RowsStayAnchored
<1> QED
  BY <1>1, <1>2, WriteEffect

(* How the poll moves among the transitions.                               *)
LEMMA TransitionsMove ==
    ASSUME WInv, [WatcherNext]_allVars, poll'.phase = "transitions", ~PollStart
    PROVE  /\ poll.phase = "transitions"
           /\ \/ poll' = poll /\ ~Writes
              \/ poll.rows # <<>> /\ poll'.rows = Tail(poll.rows)
<1> USE DEF WInv
<1>1. NextRow => poll'.rows = Tail(poll.rows) /\ poll'.phase = poll.phase
  BY DEF NextRow, PollOK
<1>2. CASE Writes
  <2>1. NextRow
    BY <1>2, WriteEffect DEF Idle
  <2>2. poll.rows # <<>>
    BY <1>2, WriteEffect
  <2> QED
    BY <1>1, <2>1, <2>2
<1>3. CASE ReadTransition \/ ReadFunding
  <2>1. poll' = poll \/ NextRow
    BY <1>3 DEF ReadTransition, ReadFunding, ReadConfirmation, PollThrows, PollStops, Idle
  <2>2. poll.rows # <<>>
    BY <1>3 DEF ReadTransition, ReadFunding
  <2>3. ~Writes
    BY <1>3 DEF ReadTransition, ReadFunding, ReadConfirmation, Writes, CommitTransition,
       CommitFunding, ActivateFunding, AdvanceSpend
  <2> QED
    BY <1>1, <2>1, <2>2, <2>3
<1>4. CASE PollStep /\ ~Writes /\ ~ReadTransition /\ ~ReadFunding
  BY <1>1, <1>4 DEF PollStep, Writes, TransitionsDone, ReconciliationDone, ResumeNext,
     ResumeDone, ObserveFunding, Resubmit, ActivationDone, ObserveSpend, PollDone, Phase,
     PollThrows, PollStops, Idle
<1>5. ASSUME NEW w \in {Web, Watcher}, Submit(w) PROVE poll' = poll
  BY <1>5 DEF Submit, SubmitRead, SubmitClaim, SubmitSend, SubmitLookup, SubmitMark
<1>6. CASE ChainMoves \/ ParticipantActs \/ RequestDies \/ PollDies \/ UNCHANGED allVars
  <2>1. poll' = poll \/ poll' = Dead
    BY <1>6 DEF ChainMoves, ParticipantActs, RequestDies, PollDies, PollStops, allVars,
       watchVars
  <2> QED
    BY <1>2, <2>1 DEF Dead
<1>7. ASSUME NEW t \in Spends, RequestSubmission(t) PROVE poll' = poll
  BY <1>7 DEF RequestSubmission
<1> QED
  BY <1>2, <1>3, <1>4, <1>5, <1>6, <1>7 DEF WatcherNext

(* The rows that are left stay in the order they were found in.            *)
LEMMA RowsInOrderStep ==
    ASSUME WInv, RowsAnchored, RowsInOrder, Listed(recency, ConfirmedSpends),
           [WatcherNext]_allVars
    PROVE  RowsInOrder'
<1> USE DEF WInv
<1> SUFFICES ASSUME poll'.phase = "transitions",
                    NEW i \in 1 .. Len(poll'.rows), NEW j \in 1 .. Len(poll'.rows), i < j,
                    NEW u \in Spends, NEW v \in Spends, poll'.rows[i] = u, poll'.rows[j] = v
             PROVE  ProcessedBefore(u, v)'
  BY DEF RowsInOrder
<1>1. CASE PollStart
  <2>1. PICK rows \in ConfirmedRows : Phase("transitions", rows)
    BY <1>1 DEF PollStart
  <2>2. poll'.rows = rows
    BY <2>1 DEF Phase
  <2>3. rows \in Seq({t \in Spends : Confirmed(t)})
    BY <2>1, FixedGraphAssumption, FS_Subset, Permutation DEF ConfirmedRows
  <2>4. i \in DOMAIN rows /\ j \in DOMAIN rows
    BY <2>2, <2>3
  <2>5. ProcessedBefore(u, v)
    BY <2>1, <2>2, <2>4 DEF ConfirmedRows
  <2>6. UNCHANGED <<anchor, recency>>
    BY <1>1 DEF PollStart, vars
  <2> QED
    BY <2>5, <2>6 DEF ProcessedBefore, Rank
<1>2. CASE ~PollStart
  <2>1. /\ poll.phase = "transitions"
        /\ \/ poll' = poll /\ ~Writes
           \/ poll.rows # <<>> /\ poll'.rows = Tail(poll.rows)
    BY <1>2, TransitionsMove
  <2>2. PICK h \in 1 .. Len(poll.rows), k \in 1 .. Len(poll.rows) :
            poll.rows[h] = u /\ poll.rows[k] = v /\ h < k /\ k # 1 /\ (Writes => h # 1)
    <3>1. CASE poll' = poll /\ ~Writes
      BY <3>1
    <3>2. CASE poll.rows # <<>> /\ poll'.rows = Tail(poll.rows)
      <4>1. /\ i + 1 \in 1 .. Len(poll.rows) /\ poll'.rows[i] = poll.rows[i + 1]
            /\ j + 1 \in 1 .. Len(poll.rows) /\ poll'.rows[j] = poll.rows[j + 1]
            /\ i + 1 < j + 1 /\ i + 1 # 1
        BY <3>2, TailRows DEF PollOK
      <4> QED
        BY <4>1
    <3> QED
      BY <2>1, <3>1, <3>2
  <2>3. u \in ConfirmedSpends /\ v \in ConfirmedSpends
    BY <2>1, <2>2, ConfirmedByAnchor DEF RowsAnchored, Reconciling
  <2>4. ProcessedBefore(u, v)
    BY <2>1, <2>2 DEF RowsInOrder
  <2>5. anchor'[u] = anchor[u] /\ anchor'[v] = anchor[v]
    BY <2>1, <2>2, OthersStay DEF Reconciling
  <2>6. \/ UNCHANGED recency
        \/ \E t \in Spends : /\ u # t /\ v # t
                             /\ recency' = Touched(t) \/ recency' = Append(Touched(t), t)
    <3>1. CASE ~Writes
      BY <3>1, RowsStand
    <3>2. CASE Writes
      <4>1. evidence.tx = poll.rows[1] /\ 1 \in 1 .. Len(poll.rows) /\ 1 < h /\ 1 < k
        BY <2>2, <3>2, WriteEffect
      <4>2. CASE evidence.tx \in Spends
        <5>1. PICK t \in Spends : t = poll.rows[1] /\ t = evidence.tx
          BY <4>1, <4>2
        <5>2. t \in ConfirmedSpends
          BY <2>1, <4>1, <5>1, ConfirmedByAnchor DEF RowsAnchored, Reconciling
        <5>3. ProcessedBefore(t, u) /\ ProcessedBefore(t, v)
          BY <2>1, <2>2, <4>1, <5>1 DEF RowsInOrder
        <5>4. u # t /\ v # t
          BY <2>3, <5>2, <5>3, OneOrder
        <5> QED
          BY <3>2, <5>1, <5>4, WriteEffect
      <4>3. CASE evidence.tx \notin Spends
        BY <3>2, <4>3, WriteEffect
      <4> QED
        BY <4>2, <4>3
    <3> QED
      BY <3>1, <3>2
  <2> QED
    BY <2>3, <2>4, <2>5, <2>6, OrderStays
<1> QED
  BY <1>1, <1>2

(* A spend that is about to be confirmed has no confirmed child.           *)
LEMMA NoChildYet ==
    ASSUME IInv, NEW t \in Spends, Confirmable(t), NEW u \in ConfirmedSpends
    PROVE  InputOf[u] # t
<1> SUFFICES ASSUME InputOf[u] = t PROVE FALSE
  OBVIOUS
<1>1. u \in Spends /\ Confirmed(u) /\ t \in Coins
  BY Constants DEF ConfirmedSpends
<1>2. spentBy[t] = u /\ u # NoTx
  BY <1>1, Constants DEF IInv, Lineage, SpentByConfirmed
<1>3. coin[t] = "spent"
  BY <1>1, <1>2 DEF IInv, Lineage, SpentByConfirmed
<1>4. Confirmed(t)
  BY <1>1, <1>3, Constants DEF IInv, Lineage, CoinOnChain, CreatorConfirmed, Recorded
<1> QED
  BY <1>4 DEF Confirmable, Confirmed

(* Whatever is written, children stay before their parents in the order.   *)
LEMMA ChildrenFirstStep ==
    ASSUME MaxForks <= 1, WInv, UntouchedYet, ReanchorsDeep, ConfirmsInOrder, ChildrenFirst,
           Listed(recency, ConfirmedSpends), [WatcherNext]_allVars
    PROVE  ChildrenFirst'
<1> SUFFICES ASSUME NEW u \in Spends, u \in ConfirmedSpends', InputOf[u] \in ConfirmedSpends'
             PROVE  \/ ProcessedBefore(u, InputOf[u])'
                    \/ forks' # 0 /\ (Settled(u)' \/ Settled(InputOf[u])')
  BY DEF ChildrenFirst
<1>1. PICK t \in Spends : t = InputOf[u]
  BY DEF ConfirmedSpends
<1>2. /\ u # t /\ anchor'[u] # NoBlock /\ anchor'[t] # NoBlock
      /\ u \in Txs /\ t \in Txs /\ u # FundingTx /\ t # FundingTx
  BY <1>1, ConfirmedByAnchor, Constants, FundingAssumption DEF Txs
<1> SUFFICES ProcessedBefore(u, t)' \/ (forks' # 0 /\ (Settled(u)' \/ Settled(t)'))
  BY <1>1
<1>3. ASSUME NEW s \in Spends, anchor[s] # NoBlock, anchor'[s] = anchor[s], forks # 0,
             Settled(s)
      PROVE  forks' # 0 /\ Settled(s)'
  <2>1. forks' = forks
    BY <1>3, ForksStep, ChainConstants
  <2>2. PICK b \in Blocks : b = anchor[s]
    BY <1>3, ConfirmedByAnchor
  <2>3. Bitcoin!BlockConfirmations(b)' >= Required
    BY <1>3, <2>1, <2>2, DeepStays DEF Settled
  <2> QED
    BY <1>3, <2>1, <2>2, <2>3 DEF Settled, Bitcoin!BlockConfirmations, Bitcoin!Best
<1>4. ASSUME anchor'[u] = anchor[u], anchor'[t] = anchor[t],
             \/ UNCHANGED recency
             \/ \E s \in Spends : /\ u # s /\ t # s
                                  /\ recency' = Touched(s) \/ recency' = Append(Touched(s), s)
      PROVE  ProcessedBefore(u, t)' \/ (forks' # 0 /\ (Settled(u)' \/ Settled(t)'))
  <2>1. /\ anchor[u] # NoBlock /\ anchor[t] # NoBlock
        /\ u \in ConfirmedSpends /\ t \in ConfirmedSpends
    BY <1>2, <1>4, ConfirmedByAnchor
  <2>2. CASE ProcessedBefore(u, t)
    BY <1>4, <2>1, <2>2, OrderStays
  <2>3. CASE forks # 0 /\ (Settled(u) \/ Settled(t))
    BY <1>3, <1>4, <2>1, <2>3
  <2> QED
    BY <1>1, <2>1, <2>2, <2>3 DEF ChildrenFirst
<1>5. CASE ~Writes
  BY <1>4, <1>5, RowsStand
<1>6. CASE Writes /\ (UNCHANGED <<anchor, recency>> \/ evidence.tx = FundingTx)
  BY <1>2, <1>4, <1>6, WriteEffect
<1>7. CASE Writes /\ evidence.tx \in Spends /\ u # evidence.tx /\ t # evidence.tx
  BY <1>2, <1>4, <1>7, WriteEffect
<1>8. CASE /\ Writes /\ (u = evidence.tx \/ t = evidence.tx)
           /\ evidence.verdict = "reanchor" /\ anchor'[evidence.tx] = evidence.block
  <2>1. forks # 0 /\ EvidenceDeep /\ evidence # NoEvidence /\ UNCHANGED <<chain, forks>>
    BY <1>8, WritesConsume DEF UntouchedYet, ReanchorsDeep
  <2>2. Bitcoin!BlockConfirmations(evidence.block) >= Required
    BY <1>8, <2>1 DEF EvidenceDeep
  <2> QED
    BY <1>8, <2>1, <2>2 DEF Settled, Bitcoin!BlockConfirmations, Bitcoin!Best
<1>9. CASE /\ Writes /\ u = evidence.tx
           /\ evidence.verdict = "confirm" /\ Confirmable(u) /\ anchor'[u] = evidence.block
           /\ recency' = Append(Touched(u), u)
  <2>1. anchor'[t] = anchor[t] /\ t \in ConfirmedSpends
    BY <1>2, <1>9, WriteEffect, ConfirmedByAnchor
  <2>2. UNCHANGED <<chain, forks>>
    BY <1>9, WritesConsume
  <2>3. CASE anchor[t][1] <= evidence.block[1]
    <3>1. Rank(t)' < Rank(u)'
      BY <1>2, <1>9, <2>1, WrittenLast
    <3>2. anchor'[u][1] \in Nat /\ anchor'[t][1] \in Nat
      BY <1>9, <2>1, ConfirmedByAnchor, WritesConsume, ChainConstants DEF WInv, EvidenceOK
    <3> QED
      BY <1>9, <2>1, <2>3, <3>1, <3>2 DEF ProcessedBefore
  <2>4. CASE forks # 0 /\ Bitcoin!BlockConfirmations(evidence.block) >= Required
    BY <1>9, <2>2, <2>4 DEF Settled, Bitcoin!BlockConfirmations, Bitcoin!Best
  <2> QED
    BY <1>1, <1>9, <2>1, <2>3, <2>4 DEF ConfirmsInOrder
<1>10. CASE Writes /\ evidence.verdict = "confirm" /\ t = evidence.tx /\ Confirmable(t)
  <2>1. anchor[u] # NoBlock
    BY <1>2, <1>10, WriteEffect
  <2>2. u \in ConfirmedSpends
    BY <2>1, ConfirmedByAnchor
  <2> QED
    BY <1>1, <1>10, <2>2, NoChildYet DEF WInv
<1>11. CASE /\ Writes /\ (u = evidence.tx \/ t = evidence.tx)
            /\ anchor'[evidence.tx] = NoBlock
  BY <1>2, <1>11
<1> QED
  BY <1>2, <1>5, <1>6, <1>7, <1>8, <1>9, <1>10, <1>11, WriteEffect

(* What a settled spend consumes is deep on the node's chain.              *)
LEMMA SettledParent ==
    ASSUME WInv, InputsBelow, NEW u \in ConfirmedSpends, Settled(u)
    PROVE  Deep(InputOf[u])
<1>1. /\ u \in Spends /\ anchor[u] # NoBlock
      /\ anchor[u] \in Blocks /\ In(mined, anchor[u], u)
  BY ConfirmedAnchors
<1>2. PICK b \in Blocks : b = anchor[u]
  BY <1>1
<1> QED
  BY <1>1, <1>2, ParentDeep DEF Settled, WInv

(* A confirmed spend has a recorded input: the funding's coin or that of   *)
(* another confirmed spend.                                                *)
LEMMA InputConfirmed ==
    ASSUME IInv, NEW u \in ConfirmedSpends
    PROVE  InputOf[u] = FundingTx \/ InputOf[u] \in ConfirmedSpends
<1>1. u \in Spends /\ Confirmed(u) /\ InputOf[u] \in Coins /\ u # NoTx
  BY Constants DEF ConfirmedSpends
<1>2. spentBy[InputOf[u]] = u
  BY <1>1 DEF IInv, Lineage, SpentByConfirmed
<1>3. coin[InputOf[u]] = "spent"
  BY <1>1, <1>2 DEF IInv, Lineage, SpentByConfirmed
<1>4. CreatorConfirmed(InputOf[u])
  BY <1>1, <1>3 DEF IInv, Lineage, CoinOnChain, Recorded
<1> QED
  BY <1>1, <1>4 DEF CreatorConfirmed, ConfirmedSpends, Coins, Txs

(* With these the rollback the poll is about to make finds nothing above   *)
(* what it rolls back.                                                     *)
LEMMA QuietSuccess ==
    ASSUME WInv, InputsBelow, ReconciledSoFar, Listed(recency, ConfirmedSpends),
           RowsAnchored, ChildrenFirst, RowsInOrder, ShallowRead
    PROVE  QuietReconcileSucceeds
<1> USE DEF WInv
<1> SUFFICES ASSUME quiet, evidence.verdict = "rollback"
             PROVE  IF evidence.tx = FundingTx
                    THEN \A t \in Spends : ~Confirmed(t)
                    ELSE evidence.tx \in Terminal \/ coin[evidence.tx] = "current"
  BY DEF QuietReconcileSucceeds
<1>1. PICK t : t = evidence.tx
  OBVIOUS
<1>2. evidence # NoEvidence /\ Reconciling
  BY DEF NoEvidence, EvidenceOK
<1>3. poll.rows # <<>> /\ t = poll.rows[1] /\ 1 \in 1 .. Len(poll.rows)
  BY <1>1, <1>2, TailRows, EmptySeq DEF EvidenceOK, PollOK
<1>4. ~Settled(t) /\ ~Deep(t)
  BY <1>1 DEF ShallowRead
<1>5. ASSUME NEW u \in ConfirmedSpends, InputOf[u] = t PROVE ~Settled(u) /\ Unread(u)
  <2>1. ~Settled(u)
    BY <1>4, <1>5, SettledParent
  <2>2. u \in Txs
    BY DEF ConfirmedSpends, Txs
  <2>3. Settled(u) \/ Unread(u)
    BY <1>2, <2>2 DEF ReconciledSoFar, Reconciling
  <2> QED
    BY <2>1, <2>3
<1>6. CASE poll.phase = "funding"
  <2>1. t = FundingTx /\ poll.rows = <<FundingTx>>
    BY <1>3, <1>6 DEF PollOK
  <2>2. ASSUME ConfirmedSpends # {} PROVE FALSE
    <3>1. PICK u \in ConfirmedSpends : InputOf[u] \notin ConfirmedSpends
      BY <2>2, AcyclicAssumption DEF ConfirmedSpends
    <3>2. InputOf[u] = FundingTx
      BY <3>1, InputConfirmed
    <3>3. InRows(u)
      BY <1>5, <1>6, <2>1, <3>2 DEF Unread
    <3>4. u = FundingTx
      BY <2>1, <3>3 DEF InRows
    <3> QED
      BY <3>4, Constants DEF ConfirmedSpends
  <2> QED
    BY <1>1, <2>1, <2>2 DEF ConfirmedSpends
<1>7. CASE poll.phase = "transitions"
  <2>1. t \in Spends /\ t # FundingTx
    BY <1>3, <1>7, ElementOfSeq, Constants DEF PollOK
  <2>2. t \in ConfirmedSpends
    BY <1>2, <1>3, <2>1, ConfirmedAnchors DEF RowsAnchored
  <2>3. ASSUME t \notin Terminal, coin[t] # "current" PROVE FALSE
    <3>1. t \in Coins /\ Confirmed(t)
      BY <2>1, <2>2, <2>3 DEF Coins, Txs, ConfirmedSpends
    <3>2. coin[t] = "spent"
      BY <2>1, <2>3, <3>1 DEF IInv, Lineage, CoinOnChain, CreatorConfirmed, Recorded
    <3>3. PICK u \in ConfirmedSpends : InputOf[u] = t
      BY <3>1, <3>2 DEF IInv, TypeOK, Lineage, SpentByConfirmed, Children, ConfirmedSpends
    <3>4. ~Settled(u) /\ InRows(u)
      BY <1>5, <1>7, <3>3, Constants DEF Unread, ConfirmedSpends
    <3>5. PICK i \in 1 .. Len(poll.rows) : poll.rows[i] = u
      BY <3>4 DEF InRows
    <3>6. u \in Spends /\ u # t /\ 1 < i
      BY <1>3, <3>3, <3>5, Constants DEF ConfirmedSpends
    <3>7. ProcessedBefore(t, u)
      BY <1>3, <1>7, <2>1, <3>5, <3>6 DEF RowsInOrder
    <3>8. ProcessedBefore(u, t)
      BY <1>4, <2>2, <3>3, <3>4, <3>6 DEF ChildrenFirst
    <3> QED
      BY <2>2, <3>7, <3>8, OneOrder
  <2> QED
    BY <1>1, <2>1, <2>3
<1> QED
  BY <1>2, <1>6, <1>7 DEF Reconciling

(* The parts together, for at most one reorganization.                     *)
QuietInv ==
    /\ ReconciledSoFar /\ Listed(recency, ConfirmedSpends)
    /\ InputsBelow /\ UntouchedYet /\ ReanchorsDeep
    /\ ChildrenFirst /\ ConfirmsInOrder
    /\ RowsAnchored /\ RowsInOrder /\ ShallowRead

(* Nothing is recorded, read or mined at the start.                        *)
LEMMA QuietInit == WatcherInit => QuietInv
<1> SUFFICES ASSUME WatcherInit PROVE QuietInv
  OBVIOUS
<1>1. /\ ConfirmedSpends = {} /\ recency = <<>> /\ Len(<<>>) = 0
      /\ <<>> \in Seq(Spends) /\ chain = <<>> /\ forks = 0
      /\ poll = Idle /\ evidence = NoEvidence /\ quiet = FALSE
      /\ \A t \in Txs : anchor[t] = NoBlock
  BY DEF WatcherInit, Init, Bitcoin!ChainInit, ConfirmedSpends, Confirmed
<1>2. ReconciledSoFar /\ Listed(recency, ConfirmedSpends) /\ ChildrenFirst /\ ShallowRead
  BY <1>1 DEF ReconciledSoFar, Listed, ChildrenFirst, ShallowRead
<1>3. InputsBelow
  BY <1>1 DEF InputsBelow, Bitcoin!Best
<1>4. UntouchedYet /\ ReanchorsDeep /\ ConfirmsInOrder
  BY <1>1 DEF UntouchedYet, Undisturbed, Settled, EvidenceDeep, ReanchorsDeep, ConfirmsInOrder,
     NoEvidence
<1>5. RowsAnchored /\ RowsInOrder
  BY <1>1 DEF RowsAnchored, RowsInOrder, Reconciling, Idle
<1> QED
  BY <1>2, <1>3, <1>4, <1>5 DEF QuietInv

(* Across one reorganization, of any depth and at any moment, a rollback   *)
(* the poll decided on while the chain stood still commits: no transition  *)
(* is rolled back before its confirmed descendant.                         *)
THEOREM QuietReconcileCorrect ==
    ASSUME MaxForks <= 1
    PROVE  WatcherSpec => []QuietReconcileSucceeds
<1>1. WInv /\ QuietInv /\ [WatcherNext]_allVars => QuietInv'
  BY ReconciledStep, RecencyStep, InputsStep, UntouchedStep, ReanchorsStep, ChildrenFirstStep,
     ConfirmsStep, RowsAnchoredStep, RowsInOrderStep, ShallowStep DEF QuietInv
<1>2. WInv /\ QuietInv => QuietReconcileSucceeds
  BY QuietSuccess DEF QuietInv
<1> QED
  BY <1>1, <1>2, QuietInit, WatcherInvariant, PTL DEF WatcherSpec

=============================================================================
