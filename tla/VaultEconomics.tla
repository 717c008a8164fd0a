--------------------------- MODULE VaultEconomics ---------------------------
(***************************************************************************)
(* The money of a vault: the committed schedule, the floors derived from   *)
(* it, the policy of each withdrawal key, and the unsigned transactions    *)
(* the builders produce.  No state.                                        *)
(*                                                                         *)
(* An address is named by the set of those it pays: the vault of a round   *)
(* is the set of its participants, a payout address a singleton.           *)
(***************************************************************************)
EXTENDS Integers, FiniteSets, Sequences

CONSTANTS
    Participants,
    FirstInRoster,       \* the participant at index 0 of the roster
    Deposit, FirstWithdrawal, SecondWithdrawal,
    SoloFeeBudget, SoloFee, CooperativeFee, RecoveryFee, FinalSweepFee,
    RecoveryDelay,       \* blocks
    RelayFloor           \* virtual size of the largest spend: 1 sat per vbyte

ASSUME ThreeParticipants ==
    IsFiniteSet(Participants) /\ Cardinality(Participants) = 3

ASSUME RosterOrder == FirstInRoster \in Participants

ASSUME SatsAreIntegers ==
    /\ Deposit \in Nat /\ FirstWithdrawal \in Nat /\ SecondWithdrawal \in Nat
    /\ SoloFeeBudget \in Nat /\ SoloFee \in Nat /\ CooperativeFee \in Nat
    /\ RecoveryFee \in Nat /\ FinalSweepFee \in Nat
    /\ RecoveryDelay \in Nat /\ RelayFloor \in Nat

-----------------------------------------------------------------------------
(* The schedule.                                                           *)

RoundOneFloor == 3 * Deposit - FirstWithdrawal - SoloFeeBudget

(* Mutant: the second withdrawal is forgotten to have a budget of its own. *)
FloorWithoutSecondBudget == RoundOneFloor - SecondWithdrawal

RoundTwoFloor == RoundOneFloor - SecondWithdrawal - SoloFeeBudget

DustLimit == 330
MinDeposit == 10000

ValidEconomics ==
    /\ Deposit >= MinDeposit
    /\ RecoveryDelay \in 1..65535
    /\ FirstWithdrawal + 2 * SecondWithdrawal = 3 * Deposit
    /\ \A fee \in {SoloFeeBudget, SoloFee, CooperativeFee, RecoveryFee, FinalSweepFee} : fee > 0
    /\ RoundTwoFloor >= DustLimit
    /\ 2 * SoloFee <= SoloFeeBudget

ASSUME CommittedEconomics == ValidEconomics

(* What the validation does not ask: that the committed fees relay, and    *)
(* that the smallest coin covers the fee of its shared spends.             *)
ASSUME FeesRelay ==
    /\ \A fee \in {SoloFee, CooperativeFee, RecoveryFee, FinalSweepFee} : fee >= RelayFloor
    /\ RoundOneFloor > CooperativeFee + 2 /\ RoundOneFloor > RecoveryFee + 2
    /\ RoundTwoFloor > FinalSweepFee

-----------------------------------------------------------------------------
(* Rounds, and the coins the runtime recognises.                           *)

VaultRounds == {r \in SUBSET Participants : Cardinality(r) \in 2..3}
LeaveRounds(p) == {r \in VaultRounds : p \in r}
PayoutOf(p) == {p}

IsVault(round) == Cardinality(round) > 1

MaximumPairValue == 3 * Deposit - FirstWithdrawal
MaximumFinalValue == MaximumPairValue - SecondWithdrawal

AcceptedValue(round, value) ==
    \/ Cardinality(round) = 3 /\ value = 3 * Deposit
    \/ Cardinality(round) = 2 /\ RoundOneFloor <= value /\ value <= MaximumPairValue
    \/ Cardinality(round) = 1 /\ RoundTwoFloor <= value /\ value <= MaximumFinalValue

-----------------------------------------------------------------------------
(* Policies: one per round and leaver, fixed when the key is made.         *)

Output(to, sats) == [to |-> to, sats |-> sats]

(* Mutant: the key of a pair is given the payout of round one.             *)
SamePayoutPolicy(round, leaver) ==
    [ key    |-> <<round, leaver>>,
      payout |-> Output(PayoutOf(leaver), FirstWithdrawal),
      next   |-> round \ {leaver},
      floor  |-> IF Cardinality(round) = 3 THEN RoundOneFloor ELSE RoundTwoFloor ]

SoloPolicy(round, leaver) ==
    LET first == Cardinality(round) = 3 IN
    [ key    |-> <<round, leaver>>,
      payout |-> Output(PayoutOf(leaver), IF first THEN FirstWithdrawal ELSE SecondWithdrawal),
      next   |-> round \ {leaver},
      floor  |-> IF first THEN RoundOneFloor ELSE RoundTwoFloor ]

SatisfiesPolicy(tx, policy) ==
    /\ tx.inputs = 1
    /\ Len(tx.outputs) = 2
    /\ tx.outputs[1] = policy.payout
    /\ tx.outputs[2].to = policy.next
    /\ tx.outputs[2].sats >= policy.floor
    /\ tx.leaf = policy.key

-----------------------------------------------------------------------------
(* The transactions.  "leaf" is the key whose tapscript is spent, or the   *)
(* kind of path.                                                           *)

Transaction(leaf, outputs) == [inputs |-> 1, leaf |-> leaf, outputs |-> outputs]

(* A withdrawal whose miners get "fee".                                    *)
Withdrawal(round, leaver, value, fee) ==
    LET policy == SoloPolicy(round, leaver) IN
    Transaction(policy.key,
        <<policy.payout, Output(policy.next, value - policy.payout.sats - fee)>>)

SoloFeeOf(round) == IF Cardinality(round) = 3 THEN SoloFee ELSE 2 * SoloFee

SoloWithdrawal(round, leaver, value) == Withdrawal(round, leaver, value, SoloFeeOf(round))

CanBuildSolo(round, leaver, value) ==
    /\ leaver \in round
    /\ SoloWithdrawal(round, leaver, value).outputs[2].sats >= SoloPolicy(round, leaver).floor

(* Equal parts to everybody in the round, whoever signs.                   *)
Share(round, value, fee) == (value - fee) \div Cardinality(round)

CanBuildCooperative(round, value) == Share(round, value, CooperativeFee) > 0

(* An output cannot be negative.                                           *)
CanBuildRecovery(round, value) == Share(round, value, RecoveryFee) >= 0

CanBuildSweep(value) == value - FinalSweepFee > 0

RecoveryThreshold(round) == Cardinality(round) - 1

RecoverySigners(round, vanished) == round \ {vanished}

(* The consensus rules: the exact number of the keys of the leaf has       *)
(* signed, and the coin is old enough for the sequence of its input.       *)
RecoverySpendable(round, signers, age) ==
    /\ signers \subseteq round
    /\ Cardinality(signers) = RecoveryThreshold(round)
    /\ age >= RecoveryDelay

Relays(fee) == fee >= RelayFloor

-----------------------------------------------------------------------------
(* Funding: one input of each participant, the fee shared, the remainder   *)
(* of the division to the first of the roster.                             *)

MinFundingFee == 500
MinSafeChange == 330

FundingFeeShare(p, fee) ==
    fee \div 3 + IF p = FirstInRoster THEN fee % 3 ELSE 0

ChangeOf(p, value, fee) == value - Deposit - FundingFeeShare(p, fee)

ValidFundingInput(p, value, fee) ==
    LET change == ChangeOf(p, value, fee) IN
    change = 0 \/ change >= MinSafeChange

CanBuildFunding(values, fee) ==
    /\ MinFundingFee <= fee /\ fee < Deposit
    /\ \A p \in Participants : ValidFundingInput(p, values[p], fee)

FundingValue == 3 * Deposit

(* What the server asks of the confirmed transaction itself: inputs no     *)
(* smaller than a deposit, one vault output, no dust, a fee in bounds.     *)
AuthorizedFunding(values, vaultValue, changes) ==
    LET total(f) == LET a == CHOOSE p \in Participants : TRUE
                        b == CHOOSE p \in Participants \ {a} : TRUE
                        c == CHOOSE p \in Participants \ {a, b} : TRUE
                    IN  f[a] + f[b] + f[c]
        fee == total(values) - vaultValue - total(changes)
    IN  /\ \A p \in Participants : values[p] >= Deposit
        /\ vaultValue = FundingValue
        /\ \A p \in Participants : changes[p] = 0 \/ changes[p] >= MinSafeChange
        /\ MinFundingFee <= fee /\ fee < Deposit

-----------------------------------------------------------------------------
(* The answer of a signing service, believed only when it is the           *)
(* transaction that was asked for, signed through the leaf of the policy   *)
(* and not through the leaf that merely identifies the key.                *)

PolicyLeaf == "policy"
IdentificationLeaf == "identification"
KeyPath == "key"
SpentPaths == {PolicyLeaf, IdentificationLeaf, KeyPath}

Artifact(tx, path, final, signatures) ==
    [tx |-> tx, path |-> path, final |-> final, signatures |-> signatures]

(* The service may answer with anything, a transaction that leaves nothing *)
(* to those who stay included.                                             *)
ServiceAnswers(asked) ==
    LET starved == [asked EXCEPT !.outputs[2].sats = 1] IN
    {Artifact(tx, path, final, signatures) :
        tx \in {asked, starved}, path \in SpentPaths, final \in BOOLEAN, signatures \in 0..2}

AuthorizedArtifact(asked, answer) ==
    /\ answer.tx = asked
    /\ answer.path = PolicyLeaf
    /\ answer.final \/ answer.signatures = 1
=============================================================================
