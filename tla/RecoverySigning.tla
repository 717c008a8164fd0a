--------------------------- MODULE RecoverySigning --------------------------
(***************************************************************************)
(* Recovering the coin of a round one participant has vanished from.       *)
(* With the web application each signer looks at the chain in their own    *)
(* browser, registers what it saw with their passkey, and only then        *)
(* contributes a share; the last share finalizes the transaction.  With    *)
(* the command line the shares are exchanged by hand and nothing but the   *)
(* chain enforces the delay.                                               *)
(*                                                                         *)
(* The program records a coin as current as soon as it is the vault's coin *)
(* on the chain; how the record lags behind, and what a reorganization     *)
(* does to it, is the subject of VaultStore and ChainWatcher.  Time is not *)
(* modelled: an observation may at any moment still be two minutes old, or *)
(* no longer, and so may a proposal be an hour old.                        *)
(***************************************************************************)
EXTENDS VaultSpending

CONSTANT None

VARIABLES
    observation,   \* what each participant registered last of the coin
    ceremony,      \* the observation being registered: one at a time, for
                   \* those of two people touch different rows
    recovery       \* by vanished participant: the live proposal and its shares

signing == <<observation, ceremony, recovery>>

NoRecovery == [p \in Participants |-> None]

SigningInit ==
    /\ observation = [p \in Participants |-> None]
    /\ ceremony = None
    /\ recovery = NoRecovery

-----------------------------------------------------------------------------
(* Observations.                                                           *)

Seen(coinOf, blocks) == [round |-> coinOf, confirmations |-> blocks]

(* A browser asks a chain source for the coin it believes current, and     *)
(* believes only an unspent and confirmed one.                             *)
SeeCoin(p) ==
    /\ phase = "open" /\ ceremony = None
    /\ ceremony' = [who |-> p, seen |-> Seen(round, age), step |-> "seen"]
    /\ UNCHANGED <<spending, observation, recovery>>

(* The server gives out a challenge for an observation of the current coin.*)
OpenChallenge ==
    /\ ceremony # None /\ ceremony.step = "seen"
    /\ phase = "open" /\ ceremony.seen.round = round
    /\ ceremony.seen.confirmations > 0
    /\ ceremony' = [ceremony EXCEPT !.step = "challenged"]
    /\ UNCHANGED <<spending, observation, recovery>>

(* A challenge can be answered while its coin is current.                  *)
ChallengeStands ==
    /\ ceremony # None /\ ceremony.step = "challenged"
    /\ phase = "open" /\ ceremony.seen.round = round

(* The passkey has signed the challenge.                                   *)
FinishChallenge ==
    /\ ChallengeStands
    /\ observation' = [observation EXCEPT ![ceremony.who] = ceremony.seen]
    /\ ceremony' = None
    /\ UNCHANGED <<spending, recovery>>

AbandonCeremony ==
    /\ ceremony # None
    /\ ceremony' = None
    /\ UNCHANGED <<spending, observation, recovery>>

(* Mutant: an observation counts whichever coin it was of.                 *)
SawSomeCoin(p) == observation[p] # None

SawThisCoin(p) == observation[p] # None /\ observation[p].round = round

(* One block more than the chain asks.                                     *)
IsMature(seen) == seen.confirmations > RecoveryDelay

SawItMature(p) == SawThisCoin(p) /\ IsMature(observation[p])

-----------------------------------------------------------------------------
(* Proposals and shares.                                                   *)

ProposeRecovery(p, vanished) ==
    /\ IsOpenVault /\ vanished \in round
    /\ SawItMature(p)
    /\ recovery[vanished] = None
    /\ CanBuildRecovery(round, value)
    /\ p \in RecoverySigners(round, vanished)
    /\ recovery' = [recovery EXCEPT ![vanished] = [status |-> "collecting", shares |-> {}]]
    /\ UNCHANGED <<spending, observation, ceremony>>

(* A share is bound to the round, the leaf and the unsigned transaction.   *)
ValidShare(p, vanished) ==
    /\ IsOpenVault
    /\ p \in RecoverySigners(round, vanished)

(* The page signs after it has looked at the coin and registered what it   *)
(* saw, and only a proposal it can rebuild itself.                         *)
SignedOnPage(p, vanished) == SawItMature(p) /\ ValidShare(p, vanished)

(* The same share may be sent again, also after the last one.              *)
ContributeShare(p, vanished) ==
    /\ recovery[vanished] # None
    /\ SignedOnPage(p, vanished)
    /\ p \in RecoverySigners(round, vanished)
    /\ SawItMature(p)
    /\ LET shares == recovery[vanished].shares \cup {p}
           complete == Cardinality(shares) = RecoveryThreshold(round)
       IN  recovery' = [recovery EXCEPT ![vanished] =
               [status |-> IF complete THEN "finalized" ELSE "collecting", shares |-> shares]]
    /\ UNCHANGED <<spending, observation, ceremony>>

(* A proposal that expires before its broadcast is approved gives way to a *)
(* new one.                                                                *)
ExpireRecovery(vanished) ==
    /\ recovery[vanished] # None
    /\ recovery' = [recovery EXCEPT ![vanished] = None]
    /\ UNCHANGED <<spending, observation, ceremony>>

(* The finalized transaction, approved and sent, confirms.                 *)
ConfirmRecovery(vanished) ==
    /\ recovery[vanished] # None /\ recovery[vanished].status = "finalized"
    /\ Recover(recovery[vanished].shares)
    /\ recovery' = NoRecovery
    /\ UNCHANGED <<observation, ceremony>>

(* A recovery signed and aggregated with the command line: as many shares  *)
(* as the leaf asks, each of a different member of the round other than    *)
(* the vanished one.                                                       *)
CommandRecovery(signers, vanished) ==
    /\ IsOpenVault /\ vanished \in round
    /\ \A p \in signers : ValidShare(p, vanished)
    /\ Recover(signers)
    /\ recovery' = NoRecovery
    /\ UNCHANGED <<observation, ceremony>>

SigningNext ==
    \/ \E p \in Participants : SeeCoin(p)
    \/ OpenChallenge \/ FinishChallenge \/ AbandonCeremony
    \/ \E p, vanished \in Participants : ProposeRecovery(p, vanished)
    \/ \E p, vanished \in Participants : ContributeShare(p, vanished)
    \/ \E vanished \in Participants : ExpireRecovery(vanished) \/ ConfirmRecovery(vanished)
    \/ \E vanished \in Participants, signers \in SUBSET Participants :
          CommandRecovery(signers, vanished)

-----------------------------------------------------------------------------
(* Properties.                                                             *)

Sightings == [round : SUBSET Participants, confirmations : 1..RecoveryDelay + 1]

ASSUME NoneIsNoSighting == None \notin Sightings

SigningTypeOK ==
    /\ observation \in [Participants -> Sightings \cup {None}]
    /\ ceremony \in [who : Participants, seen : Sightings,
                     step : {"seen", "challenged"}] \cup {None}
    /\ recovery \in [Participants ->
          [status : {"collecting", "finalized"}, shares : SUBSET Participants] \cup {None}]

(* What the others have signed against a participant who is said to have   *)
(* vanished: only members of the round other than that one have, each      *)
(* after seeing this very coin unspent for longer than the delay, whatever *)
(* they saw of earlier coins and however long the ceremonies took; and the *)
(* transaction is complete exactly when the leaf is satisfied.             *)
RecoveryNeedsWitnesses ==
    \A vanished \in Participants :
        recovery[vanished] # None =>
            LET proposal == recovery[vanished] IN
            /\ IsOpenVault
            /\ proposal.shares \subseteq RecoverySigners(round, vanished)
            /\ proposal.shares # {} => age > RecoveryDelay
            /\ \A p \in proposal.shares :
                  /\ observation[p].round = round
                  /\ observation[p].confirmations > RecoveryDelay
            /\ proposal.status = "finalized"
                  <=> Cardinality(proposal.shares) = RecoveryThreshold(round)
=============================================================================
