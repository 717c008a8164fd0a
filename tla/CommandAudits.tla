---------------------------- MODULE CommandAudits ---------------------------
(***************************************************************************)
(* The commands that look at a confirmed transaction afterwards and say    *)
(* whether it is what was agreed.  "typed" is the coin it is said to have  *)
(* spent, "by" and "vanished" who is said to have done so.                 *)
(***************************************************************************)
EXTENDS CommandFiles

(* Outputs of exactly these sats to exactly this address.                  *)
MatchingOutputs(spend, output) == {i \in DOMAIN spend.tx.outputs : spend.tx.outputs[i] = output}

PaysEachOnce(spend, round, share) ==
    \A p \in round : Cardinality(MatchingOutputs(spend, Output(PayoutOf(p), share))) = 1

UsesKeyPath(spend) == spend.leaf.kind = KeyPath

(* live-solo-audit: the payout and the rest are exactly those the leaver   *)
(* would build, and the policy of the key allows them.                     *)
PassesSoloAudit(spend, typed, by) ==
    LET round == typed.claimed.to
        asked == SoloWithdrawal(round, by, typed.claimed.sats)
    IN  /\ spend.tx.coin = typed.coin
        /\ by \in round
        /\ spend.tx.outputs = asked.outputs
        /\ SatisfiesPolicy(Transaction(SoloPolicy(round, by).key, spend.tx.outputs),
                           SoloPolicy(round, by))

(* live-cooperative-audit: signed by one signature alone.                  *)
ExpectedRefund(typed) == Share(typed.claimed.to, typed.claimed.sats, CooperativeFee)

PassesExitAudit(spend, typed) ==
    /\ spend.tx.coin = typed.coin
    /\ UsesKeyPath(spend)
    /\ PaysEachOnce(spend, typed.claimed.to, ExpectedRefund(typed))

(* live-recovery-audit: who signed is not looked at.                       *)
ExpectedPart(typed) == Share(typed.claimed.to, typed.claimed.sats, RecoveryFee)

PassesRecoveryAudit(spend, typed, vanished) ==
    /\ spend.tx.coin = typed.coin
    /\ spend.tx.delay >= RecoveryDelay
    /\ Cardinality(RecoverySigners(typed.claimed.to, vanished)) >= RecoveryThreshold(typed.claimed.to)
    /\ PaysEachOnce(spend, typed.claimed.to, ExpectedPart(typed))

(* live-final-sweep-audit.                                                 *)
PassesSweepAudit(spend, typed, by) ==
    /\ spend.tx.coin = typed.coin
    /\ UsesKeyPath(spend)
    /\ Cardinality(MatchingOutputs(spend,
           Output(PayoutOf(by), typed.claimed.sats - FinalSweepFee))) = 1

PassesAudit(spend, typed) ==
    LET round == typed.claimed.to IN
    \/ IsVault(round) /\ PassesExitAudit(spend, typed)
    \/ IsVault(round) /\ \E vanished \in round : PassesRecoveryAudit(spend, typed, vanished)
    \/ IsVault(round) /\ \E p \in round : PassesSoloAudit(spend, typed, p)
    \/ ~IsVault(round) /\ \E p \in round : PassesSweepAudit(spend, typed, p)

-----------------------------------------------------------------------------
(* What the outputs pay to an address.                                     *)
PaidTo(address, outputs) == SatsAt(outputs, {i \in DOMAIN outputs : outputs[i].to = address})

(* What those in a vault agreed to, in terms of the coin that is there.    *)
AgreedSplit(spend, coin, fee) ==
    /\ \A p \in coin.to :
          PaidTo(PayoutOf(p), spend.tx.outputs) = (coin.sats - fee) \div Cardinality(coin.to)
    /\ Len(spend.tx.outputs) = Cardinality(coin.to)

AgreedLeave(spend, coin, p) ==
    /\ PaidTo(PayoutOf(p), spend.tx.outputs) =
          IF Cardinality(coin.to) = 3 THEN FirstWithdrawal ELSE SecondWithdrawal
    /\ PaidTo(coin.to \ {p}, spend.tx.outputs) >=
          IF Cardinality(coin.to) = 3 THEN RoundOneFloor ELSE RoundTwoFloor

AgreedSpend(report) ==
    LET spend == report.spend
        coin == OnChain[spend.tx.coin]
    IN  CASE spend.leaf.kind = RecoveryPath -> AgreedSplit(spend, coin, RecoveryFee)
          [] spend.leaf.kind = KeyPath /\ IsVault(coin.to) -> AgreedSplit(spend, coin, CooperativeFee)
          [] spend.leaf.kind = KeyPath /\ ~IsVault(coin.to) -> Signers(spend) = coin.to
          [] OTHER -> spend.leaf.kind = PolicyLeaf
                      /\ \A p \in Signers(spend) : AgreedLeave(spend, coin, p)

-----------------------------------------------------------------------------
(* What people may sign without this program: everybody together anything, *)
(* a leaver what the policy allows.                                        *)
OutsideSpends(coin) ==
    LET round == OnChain[coin].to
        sats == OnChain[coin].sats
        member == SetToSeq(round)
        parts == {Share(round, sats, fee) : fee \in {CooperativeFee, RecoveryFee, RecoveryFee + 3}}
        uneven == {[SplitOutputs(round, part) EXCEPT ![1].to = PayoutOf(member[2])] : part \in parts}
        leaving == {Withdrawal(round, p, sats, fee).outputs :
                       p \in round, fee \in {SoloFeeOf(round), SoloFeeBudget}}
        Spend(leaf, signers, outputs) ==
            LET tx == [coin |-> coin, delay |-> RecoveryDelay, outputs |-> outputs] IN
            Finished(tx, leaf, {Signature(p, Message(tx, OnChain[coin], leaf)) : p \in signers})
    IN  {Spend(KeyPathOf(round), round, outputs) :
            outputs \in {SplitOutputs(round, part) : part \in parts} \cup uneven \cup leaving}
        \cup {Spend(Leaf(PolicyLeaf, round, {p}), {p}, outputs) : p \in round, outputs \in leaving}

(* Everybody has an equal part less a committed fee, or has left or stayed *)
(* with what the schedule says.                                            *)
FairlyPaid(spend, coin) ==
    \/ \E fee \in {CooperativeFee, RecoveryFee} : \A p \in coin.to :
          PaidTo(PayoutOf(p), spend.tx.outputs) >= Share(coin.to, coin.sats, fee)
    \/ \E p \in coin.to : AgreedLeave(spend, coin, p)
=============================================================================
