--------------------------- MODULE VaultSpending ----------------------------
(***************************************************************************)
(* The one coin of a vault on the chain, from funding to the last payout.  *)
(* A transaction matters when it confirms, so signing and confirming the   *)
(* spend of one person is one step: what makes it valid depends only on    *)
(* the coin it spends.  Recoveries, which several people sign over time,   *)
(* are RecoverySigning's.                                                  *)
(*                                                                         *)
(* A leaver need not use this program: whoever holds a withdrawal key may  *)
(* have any transaction signed that the policy of the key allows.          *)
(***************************************************************************)
EXTENDS VaultEconomics, FiniteSetsExt

CONSTANTS
    InputValues,     \* sats of the coins people bring
    FundingFees,
    LeaverFees       \* what leavers outside this program may give the miners

ASSUME AmountsAreIntegers ==
    InputValues \subseteq Nat /\ FundingFees \subseteq Nat /\ LeaverFees \subseteq Nat

VARIABLES
    phase,      \* unfunded, open, closed
    round,      \* whose coin it is
    value,      \* its sats
    age,        \* its confirmations, counted up to one more than the delay
    left,       \* who withdrew alone, in order
    paid,       \* sats of each person's payouts
    burned      \* sats given to miners since funding

coin == <<phase, round, value, age>>
spending == <<phase, round, value, age, left, paid, burned>>

SpendingInit ==
    /\ phase = "unfunded"
    /\ round = {} /\ value = 0 /\ age = 0
    /\ left = <<>>
    /\ paid = [p \in Participants |-> 0]
    /\ burned = 0

IsOpenVault == phase = "open" /\ IsVault(round)

-----------------------------------------------------------------------------
(* The vault is activated by a funding transaction everybody signed.       *)
Fund ==
    /\ phase = "unfunded"
    /\ \E values \in [Participants -> InputValues], fee \in FundingFees :
        /\ CanBuildFunding(values, fee)
        /\ AuthorizedFunding(values, FundingValue,
                             [p \in Participants |-> ChangeOf(p, values[p], fee)])
    /\ phase' = "open"
    /\ round' = Participants /\ value' = FundingValue /\ age' = 1
    /\ UNCHANGED <<left, paid, burned>>

MineBlock ==
    /\ phase = "open" /\ age <= RecoveryDelay
    /\ age' = age + 1
    /\ UNCHANGED <<phase, round, value, left, paid, burned>>

(* The withdrawal confirms: the leaver is paid, the rest is the next coin. *)
Leave(p, tx) ==
    LET payout == tx.outputs[1]
        rest == tx.outputs[2]
        fee == value - payout.sats - rest.sats
    IN  /\ fee > 0 /\ Relays(fee)
        /\ round' = rest.to /\ value' = rest.sats /\ age' = 1
        /\ left' = Append(left, p)
        /\ paid' = [paid EXCEPT ![p] = @ + payout.sats]
        /\ burned' = burned + fee
        /\ UNCHANGED phase

(* What a leaver asks the signing service for is rebuilt on their machine  *)
(* and held against the committed policy.                                  *)
CanAskFor(p, asked) ==
    /\ IsOpenVault /\ p \in round
    /\ CanBuildSolo(round, p, value)
    /\ asked = SoloWithdrawal(round, p, value)
    /\ SatisfiesPolicy(asked, SoloPolicy(round, p))

(* Of the answers only a finished one that can be authorized is kept.      *)
BelievedAnswers(asked) ==
    {answer \in ServiceAnswers(asked) : AuthorizedArtifact(asked, answer) /\ answer.final}

(* A withdrawal made with this program.                                    *)
WithdrawAlone(p) ==
    \E asked \in {SoloWithdrawal(round, p, value)} :
        /\ CanAskFor(p, asked)
        /\ \E answer \in BelievedAnswers(asked) : Leave(p, answer.tx)

(* A withdrawal made with anything else: the service signs what the policy *)
(* of the key allows.                                                      *)
LeaveByPolicy(p, fee) ==
    /\ IsOpenVault /\ p \in round
    /\ LET tx == Withdrawal(round, p, value, fee) IN
       /\ SatisfiesPolicy(tx, SoloPolicy(round, p))
       /\ Leave(p, tx)

(* Everybody in the round gets an equal part of what the fee leaves; the   *)
(* remainder of the division goes to the miners.                           *)
Dissolve(fee) ==
    LET share == Share(round, value, fee) IN
    /\ Relays(value - share * Cardinality(round))
    /\ paid' = [p \in Participants |-> paid[p] + IF p \in round THEN share ELSE 0]
    /\ burned' = burned + value - share * Cardinality(round)
    /\ phase' = "closed"
    /\ UNCHANGED <<round, value, age, left>>

ExitTogether ==
    /\ IsOpenVault
    /\ CanBuildCooperative(round, value)
    /\ Dissolve(CooperativeFee)

(* A recovery signed by "signers" confirms.                                *)
Recover(signers) ==
    /\ IsOpenVault
    /\ CanBuildRecovery(round, value)
    /\ RecoverySpendable(round, signers, age)
    /\ Dissolve(RecoveryFee)

(* Only the owner of a payout can rebuild and sign its sweep.              *)
CanSweep(p) ==
    /\ phase = "open" /\ round = PayoutOf(p)
    /\ CanBuildSweep(value)

(* The last participant sweeps a payout that is already theirs.            *)
SweepFinal(p) == CanSweep(p) /\ Dissolve(FinalSweepFee)

(* Spends that need nobody but their signers.                              *)
SpendingNext ==
    \/ Fund
    \/ MineBlock
    \/ \E p \in Participants : WithdrawAlone(p)
    \/ \E p \in Participants, fee \in LeaverFees : LeaveByPolicy(p, fee)
    \/ ExitTogether
    \/ \E p \in Participants : SweepFinal(p)

-----------------------------------------------------------------------------
(* Properties.                                                             *)

SpendingTypeOK ==
    /\ phase \in {"unfunded", "open", "closed"}
    /\ round \in SUBSET Participants
    /\ value \in Nat
    /\ age \in 0..RecoveryDelay + 1
    /\ left \in Seq(Participants)
    /\ paid \in [Participants -> Nat]
    /\ burned \in Nat

(* Whatever the others gave to the miners when they left, within their     *)
(* policies: the coin is one the runtime recognises, each one still in     *)
(* can withdraw with this program, and the last one can sweep.             *)
EveryoneCanLeave ==
    phase = "open" =>
        /\ AcceptedValue(round, value)
        /\ IsVault(round) => \A p \in round :
             /\ CanBuildSolo(round, p, value)
             /\ SatisfiesPolicy(SoloWithdrawal(round, p, value), SoloPolicy(round, p))
             /\ Relays(SoloFeeOf(round))
        /\ ~IsVault(round) => CanBuildSweep(value)

Leavers == {left[i] : i \in DOMAIN left}

(* All the payouts so far, in sats.                                        *)
TotalOf(payouts) == MapThenSumSet(LAMBDA p : payouts[p], Participants)

(* No satoshi is lost or made, whoever leaves how.  Those who left alone   *)
(* have the amounts of the schedule; those who stayed to the end of the    *)
(* vault have equal amounts, the vanished one of a recovery included; and  *)
(* all withdrawals together cost the others at most a budget each.         *)
EachGetsTheirDue ==
    phase # "unfunded" =>
        LET inVault == IF phase = "open" THEN value ELSE 0
            lastFee == IF phase = "closed" THEN Max({CooperativeFee, RecoveryFee, FinalSweepFee}) + 2
                                           ELSE 0
        IN  /\ TotalOf(paid) + burned + inVault = FundingValue
            /\ \A i \in DOMAIN left :
                 paid[left[i]] = IF i = 1 THEN FirstWithdrawal ELSE SecondWithdrawal
            /\ \A p, q \in Participants \ Leavers : paid[p] = paid[q]
            /\ burned <= SoloFeeBudget * Len(left) + lastFee
=============================================================================
