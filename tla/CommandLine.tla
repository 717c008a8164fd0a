----------------------------- MODULE CommandLine ----------------------------
(***************************************************************************)
(* One participant's machine among the others': the processes that handle  *)
(* this participant's secret nonces (CommandSigning), and the transactions *)
(* that anyone can finish from the files that went around and audit when   *)
(* they are confirmed (CommandFiles, CommandAudits).                       *)
(* The message a nonce is made for is an exit that can be authorized.      *)
(***************************************************************************)
EXTENDS CommandSigning, CommandAudits

CONSTANT Me

ASSUME MyMessages ==
    Messages \subseteq {context \in ExitContexts : Me \in context.claimed.to}

(* The partial signatures of the others are theirs to give; this           *)
(* participant's are those the nonces have signed, one session each.       *)
HasMyPartial(context, session) ==
    \E n \in Nonces : boundTo[n] = context /\ session \in signed[n]

CanFinishExit(context) ==
    /\ \E session \in Sessions : HasMyPartial(context, session)
    /\ \E typed \in Typed :
          /\ AuthorizedExit(typed.claimed.to, context, typed)
          /\ Verified(ExitFile(context).spend, typed.claimed)

FinishedExits == {ExitFile(context) : context \in {c \in Messages : CanFinishExit(c)}}

-----------------------------------------------------------------------------
(* Properties.                                                             *)

(* A finished transaction the chain would accept pays what those in the    *)
(* vault agreed to; and one that was finished for the coin as it is, is    *)
(* accepted.                                                               *)
AsAgreed(report) ==
    LET coin == OnChain[report.spend.tx.coin] IN
    /\ Verified(report.spend, coin) => AgreedSpend(report)
    /\ report.claimed = coin => Verified(report.spend, coin)

(* All the others have signed, each against the one who is left out.       *)
AllAgainst(report) ==
    /\ Signers(report.spend) = RecoverySigners(report.spend.leaf.round, report.vanished)
    /\ \A share \in report.shares : share.vanished = report.vanished

FilesAsAgreed ==
    /\ \A report \in FinishedRecoveries : AsAgreed(report) /\ AllAgainst(report)
    /\ \A report \in FinishedSweeps \cup FinishedWithdrawals \cup LiveWithdrawals
                      \cup LocalWithdrawals \cup LocalRecoveries :
          AsAgreed(report)

(* What the audits can tell: they compare parts, so that a coin is not     *)
(* told from one that differs by no more than the fees, nor perhaps a      *)
(* vault from the shares of some in it.                                    *)
AllFees == SoloFeeBudget + CooperativeFee + RecoveryFee + 2

Telling(typed) ==
    LET coin == OnChain[typed.coin] IN
    /\ typed.claimed.to \subseteq coin.to => typed.claimed.to = coin.to
    /\ \/ typed.claimed.to # coin.to
       \/ typed.claimed.sats = coin.sats
       \/ typed.claimed.sats > coin.sats + AllFees
       \/ coin.sats > typed.claimed.sats + AllFees

(* An audit passes a transaction of this program exactly when it is told   *)
(* the coin as it was; and one that is told so passes nothing that leaves  *)
(* somebody with less than was agreed.                                     *)
AuditsAsAgreed ==
    /\ \A report \in FinishedRecoveries \cup FinishedSweeps \cup FinishedWithdrawals
                      \cup {ExitFile(context) : context \in ExitContexts} :
          LET coin == report.spend.tx.coin IN
          Verified(report.spend, OnChain[coin]) =>
              \A typed \in Typed : PassesAudit(report.spend, typed)
                                       <=> typed = [coin |-> coin, claimed |-> OnChain[coin]]
    /\ \A coin \in {o \in Outpoints : IsVault(OnChain[o].to)} : \A spend \in OutsideSpends(coin) :
          PassesAudit(spend, [coin |-> coin, claimed |-> OnChain[coin]])
              => FairlyPaid(spend, OnChain[coin])

(* What is finished of the exits is as agreed too, and none is finished    *)
(* for which this participant has not given up a nonce.                    *)
ExitsAsAgreed ==
    \A report \in FinishedExits :
        /\ AsAgreed(report)
        /\ \E n \in Nonces :
              /\ signed[n] # {} /\ boundTo[n].tx = report.spend.tx
              /\ \A path \in Paths : file[path] # n

(* Whatever was mistyped and whichever files were mixed up, what is        *)
(* finished is as agreed, and so the audits say; and no exit is finished   *)
(* for which this participant has not given up a nonce.                    *)
FinishedAsAgreed == FilesAsAgreed /\ AuditsAsAgreed /\ ExitsAsAgreed
=============================================================================
