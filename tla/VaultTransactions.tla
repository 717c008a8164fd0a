-------------------------- MODULE VaultTransactions -------------------------
(***************************************************************************)
(* The files people hand to each other: unsigned transactions as PSBTs,    *)
(* what the builders put into them, what the signing commands check before *)
(* they sign, and the check of a finished transaction.  No state.          *)
(*                                                                         *)
(* A signature is the message it signs.  As in BIP-341 the message commits *)
(* to the transaction, to the script and the sats the signer believes the  *)
(* coin to have, and to the leaf.  That a script is derived from other     *)
(* keys than the roster's is the same as that it belongs to another round. *)
(***************************************************************************)
EXTENDS VaultEconomics, SequencesExt

CONSTANTS
    Outpoints,
    OnChain        \* by outpoint: the script and the sats it really has

ASSUME CoinsOnChain ==
    \A o \in Outpoints : OnChain[o] \in [to : SUBSET Participants, sats : Nat]

-----------------------------------------------------------------------------
(* Scripts.                                                                *)

RecoveryPath == "recovery"

Leaf(kind, round, keys) == [kind |-> kind, round |-> round, keys |-> keys]

KeyPathOf(address) == Leaf(KeyPath, address, address)
RecoveryLeafOf(round) == Leaf(RecoveryPath, round, round)

(* A leaver's key has two leaves: one to withdraw with, one by which the   *)
(* signing service recognizes it.                                          *)
SoloLeaves(round, leaver) ==
    {Leaf(kind, round, {leaver}) : kind \in {PolicyLeaf, IdentificationLeaf}}

VaultTree(round) == {RecoveryLeafOf(round)} \cup UNION {SoloLeaves(round, p) : p \in round}

PathsOf(address) ==
    {KeyPathOf(address)} \cup IF IsVault(address) THEN VaultTree(address) ELSE {}

-----------------------------------------------------------------------------
(* The builders.                                                           *)

Psbt(coin, claimed, delay, leaves, outputs) ==
    [ tx      |-> [coin |-> coin, delay |-> delay, outputs |-> outputs],
      claimed |-> claimed,
      leaves  |-> leaves ]

(* In the canonical order, whatever the order the round was typed in.      *)
SplitOutputs(round, share) ==
    LET member == SetToSeq(round) IN
    [i \in 1..Cardinality(round) |-> Output(PayoutOf(member[i]), share)]

(* The sats of the outputs at these places.                                *)
SatsAt(outputs, places) == MapThenSumSet(LAMBDA i : outputs[i].sats, places)

Total(outputs) == SatsAt(outputs, DOMAIN outputs)

SoloPsbt(round, leaver, coin, sats) ==
    Psbt(coin, Output(round, sats), 0, SoloLeaves(round, leaver),
         SoloWithdrawal(round, leaver, sats).outputs)

CooperativePsbt(round, coin, sats) ==
    Psbt(coin, Output(round, sats), 0, {},
         SplitOutputs(round, Share(round, sats, CooperativeFee)))

RecoveryPsbt(round, coin, sats) ==
    Psbt(coin, Output(round, sats), RecoveryDelay, {RecoveryLeafOf(round)},
         SplitOutputs(round, Share(round, sats, RecoveryFee)))

SweepPsbt(p, coin, sats, destination, fee) ==
    Psbt(coin, Output(PayoutOf(p), sats), 0, {}, <<Output(destination, sats - fee)>>)

-----------------------------------------------------------------------------
(* What is checked before anything is signed.  "typed" is the coin as the  *)
(* operator vouches for it.                                                *)

SpendsTrusted(psbt, typed) ==
    psbt.tx.coin = typed.coin /\ psbt.claimed = typed.claimed

(* Everybody in the round gets an equal part and the miners get the fee    *)
(* and the remainder of the division.                                      *)
PaysEqually(psbt, round, sats, fee) ==
    /\ psbt.tx.outputs = SplitOutputs(round, Share(round, sats, fee))
    /\ sats - Total(psbt.tx.outputs) - fee \in 0..Cardinality(round) - 1

AuthorizedExit(round, psbt, typed) ==
    /\ round \in VaultRounds
    /\ typed.claimed.to = round
    /\ SpendsTrusted(psbt, typed)
    /\ CanBuildCooperative(round, typed.claimed.sats)
    /\ psbt = CooperativePsbt(round, typed.coin, typed.claimed.sats)
    /\ PaysEqually(psbt, round, typed.claimed.sats, CooperativeFee)

AuthorizedRecovery(round, vanished, psbt, typed) ==
    /\ round \in VaultRounds /\ vanished \in round
    /\ typed.claimed.to = round
    /\ SpendsTrusted(psbt, typed)
    /\ CanBuildRecovery(round, typed.claimed.sats)
    /\ psbt = RecoveryPsbt(round, typed.coin, typed.claimed.sats)
    /\ PaysEqually(psbt, round, typed.claimed.sats, RecoveryFee)

AuthorizedSweep(p, psbt, typed, destination, fee) ==
    /\ fee > 0 /\ typed.claimed.sats > fee
    /\ typed.claimed.to = PayoutOf(p)
    /\ SpendsTrusted(psbt, typed)
    /\ psbt = SweepPsbt(p, typed.coin, typed.claimed.sats, destination, fee)

-----------------------------------------------------------------------------
(* Finished transactions, and the independent check of one against the     *)
(* coin it is said to spend.                                               *)

Message(tx, claimed, leaf) == [tx |-> tx, claimed |-> claimed, leaf |-> leaf]

Signature(p, message) == [by |-> p, message |-> message]

Finished(tx, leaf, signatures) == [tx |-> tx, leaf |-> leaf, signatures |-> signatures]

Signers(spend) == {signature.by : signature \in spend.signatures}

(* One signature of all keys together, or one of the only key.             *)
KeysSatisfied(spend) == Signers(spend) = spend.leaf.keys

RecoverySatisfied(spend) ==
    /\ spend.tx.delay >= RecoveryDelay
    /\ Signers(spend) \subseteq spend.leaf.keys
    /\ Cardinality(Signers(spend)) = RecoveryThreshold(spend.leaf.round)

Verified(spend, coin) ==
    /\ spend.leaf \in PathsOf(coin.to)
    /\ \A signature \in spend.signatures :
          signature.message = Message(spend.tx, coin, spend.leaf)
    /\ IF spend.leaf.kind = RecoveryPath THEN RecoverySatisfied(spend) ELSE KeysSatisfied(spend)
    /\ Relays(coin.sats - Total(spend.tx.outputs))

-----------------------------------------------------------------------------
(* A PSBT as the policy of a withdrawal key sees it: only the leaf that    *)
(* withdraws counts as the key.                                            *)
PolicyView(psbt) ==
    LET policyLeaves == {leaf \in psbt.leaves : leaf.kind = PolicyLeaf}
        first == CHOOSE leaf \in policyLeaves : TRUE
    IN  Transaction(IF policyLeaves = {} THEN <<>>
                    ELSE <<first.round, CHOOSE p \in first.keys : TRUE>>,
                    psbt.tx.outputs)
=============================================================================
