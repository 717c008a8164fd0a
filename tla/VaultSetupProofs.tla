-------------------------- MODULE VaultSetupProofs --------------------------
(***************************************************************************)
(* Proofs about module VaultSetup, for any seats, any rounds to leave in   *)
(* and any economics.                                                      *)
(***************************************************************************)
EXTENDS VaultSetup, FiniteSetTheorems, TLAPS

USE DEF keyVars, rosterVars, readinessVars, setupVars, Nobody

(* The policy a key must have been compiled with.                          *)
FinalOver(s) == IF s[2] = Everyone THEN PairSlots ELSE {}

(* A registration under way carries a final policy.                        *)
ManifestsAreFinal ==
    \A p \in Participants :
        manifest[p] # None => manifest[p].policy.over = FinalOver(manifest[p].slot)

(* What is built, or on record, holds every key.                           *)
RosterIsWhole ==
    /\ roster # None => Registered = Slots /\ roster.keys = registered
    /\ \A p \in Participants :
           built[p] # None => Registered = Slots /\ built[p].keys = registered

(* Reviews and confirmations are of the roster on record, and a            *)
(* transaction past its count is alone and has counted everybody.          *)
CountsAreExact ==
    /\ roster # None <=> rosterStatus # "none"
    /\ \A p \in Participants :
        /\ review[p] # None => review[p] = roster
        /\ confirmations[p] # None => confirmations[p] = roster
        /\ confirming[p] # None =>
               /\ roster # None /\ confirming[p].digest = roster
               /\ confirmations[p] = None
               /\ confirming[p].counted = Confirmed \cup {p}
               /\ \A q \in Participants : confirming[q] # None => q = p

(* The vault's status says how many confirmed.                             *)
StatusIsExact ==
    /\ rosterStatus = "confirmed" <=> Confirmed = Participants
    /\ vault # "setup" <=> Confirmed = Participants

(* The same for the proofs.                                                *)
ProofsAreExact ==
    /\ proofs # {} => rosterStatus = "confirmed"
    /\ \A s \in proofs : SigbashSigns(s)
    /\ \A p \in Participants :
        proving[p] # None =>
            /\ rosterStatus = "confirmed"
            /\ SigbashSigns(proving[p].slot)
            /\ proving[p].counted = proofs \cup {proving[p].slot}
            /\ \A q \in Participants : proving[q] # None => q = p
    /\ vault = "ready" <=> proofs = Slots

(* The inductive invariant.                                                *)
SetupInv ==
    /\ SetupTypeOK
    /\ PoliciesAreFinal /\ ManifestsAreFinal
    /\ RosterIsWhole /\ CountsAreExact /\ StatusIsExact /\ ProofsAreExact

-----------------------------------------------------------------------------
(* There are finitely many slots, and at least one.                        *)
LEMMA SlotsFinite == IsFiniteSet(Slots) /\ Slots # {}
<1>1. \A p \in Participants : Leaves(p) \subseteq Rounds
  BY SetupAssumption DEF Leaves
<1>2. Slots \subseteq Participants \X Rounds
  BY <1>1 DEF Slots
<1>3. IsFiniteSet(Participants \X Rounds)
  BY SetupAssumption, FS_Product
<1>4. PICK p \in Participants : TRUE
  BY SetupAssumption
<1>5. Everyone \in Leaves(p)
  BY SetupAssumption DEF Leaves
<1>6. <<p, Everyone>> \in Slots
  BY <1>5 DEF Slots
<1> QED
  BY <1>2, <1>3, <1>6, FS_Subset

(* A count that is complete counted every slot.                            *)
LEMMA CountedAll ==
    ASSUME NEW counted \in SUBSET Slots, AllProven(counted)
    PROVE  counted = Slots
BY SlotsFinite, FS_Subset DEF AllProven

(* And the other way round.                                                *)
LEMMA CountedSome ==
    ASSUME NEW counted, counted = Slots
    PROVE  AllProven(counted)
BY DEF AllProven

(* It holds initially.                                                     *)
LEMMA InitInv == Init => SetupInv
<1> SUFFICES ASSUME Init PROVE SetupInv
  OBVIOUS
<1>1. SetupTypeOK
  BY DEF Init, SetupTypeOK
<1>2. Registered = {} /\ Confirmed = {}
  BY DEF Init, Registered, Confirmed
<1>3. PoliciesAreFinal /\ ManifestsAreFinal /\ RosterIsWhole
  BY <1>2 DEF Init, PoliciesAreFinal, ManifestsAreFinal, RosterIsWhole
<1>4. CountsAreExact
  BY <1>2 DEF Init, CountsAreExact
<1>5. StatusIsExact
  BY <1>2, SetupAssumption DEF Init, StatusIsExact
<1>6. ProofsAreExact
  BY SlotsFinite DEF Init, ProofsAreExact
<1> QED
  BY <1>1, <1>3, <1>4, <1>5, <1>6 DEF SetupInv

-----------------------------------------------------------------------------
(* The steps of the key phase change nothing after a roster was built.     *)
LEMMA KeysInv ==
    ASSUME SetupInv, NEW p \in Participants, KeyStep(p)
    PROVE  SetupInv'
<1> USE DEF SetupInv
<1>1. ASSUME CompleteEnvelope(p) \/ CompleteRecoveryEnvelope(p) PROVE SetupInv'
  <2>1. SetupTypeOK'
    BY <1>1 DEF SetupTypeOK, CompleteEnvelope, CompleteRecoveryEnvelope
  <2>2. UNCHANGED <<economics, registered, manifest, rosterVars, vault, readinessVars>>
    BY <1>1 DEF CompleteEnvelope, CompleteRecoveryEnvelope
  <2> QED
    BY <2>1, <2>2 DEF PoliciesAreFinal, ManifestsAreFinal, RosterIsWhole,
       CountsAreExact, StatusIsExact, ProofsAreExact, Registered, Confirmed, SigbashSigns
<1>2. ASSUME ReadManifest(p) PROVE SetupInv'
  <2>1. PICK s \in Missing(p) :
           /\ \/ s \in PairSlots
              \/ s \notin PairSlots /\ PairsAreFinal(p)
           /\ manifest' = [manifest EXCEPT ![p] = [slot |-> s, policy |-> Policy(s)]]
    BY <1>2 DEF ReadManifest
  <2>2. s \in Slots
    BY DEF Missing, SlotsOf
  <2>3. Policy(s) \in Policies
    BY DEF Policy, Policies, PairSlots, SetupTypeOK
  <2>4. SetupTypeOK'
    BY <1>2, <2>1, <2>2, <2>3 DEF SetupTypeOK, ReadManifest
  <2>5. Policy(s).over = FinalOver(s)
    BY <2>1, <2>2 DEF Policy, FinalOver, PairSlots, PairsAreFinal
  <2>6. ManifestsAreFinal'
    BY <2>1, <2>5 DEF ManifestsAreFinal, FinalOver, SetupTypeOK
  <2>7. UNCHANGED <<economics, registered, rosterVars, vault, readinessVars>>
    BY <1>2 DEF ReadManifest
  <2> QED
    BY <2>4, <2>6, <2>7 DEF PoliciesAreFinal, RosterIsWhole,
       CountsAreExact, StatusIsExact, ProofsAreExact, Registered, Confirmed, SigbashSigns
<1>3. ASSUME RegisterKey(p) PROVE SetupInv'
  <2> DEFINE s == manifest[p].slot
             policy == manifest[p].policy
  <2>1. s \in Slots /\ policy \in Policies /\ policy.over = FinalOver(s)
    BY <1>3 DEF RegisterKey, SetupTypeOK, ManifestsAreFinal
  <2>2. /\ manifest' = [manifest EXCEPT ![p] = None]
        /\ registered' = IF registered[s] = None
                         THEN [registered EXCEPT ![s] = policy] ELSE registered
        /\ UNCHANGED <<economics, keyed, recoverable, rosterVars, vault, readinessVars>>
    BY <1>3 DEF RegisterKey
  <2> HIDE DEF s, policy
  <2>3. SetupTypeOK'
    BY <2>1, <2>2 DEF SetupTypeOK
  <2>4. PoliciesAreFinal' /\ ManifestsAreFinal'
    BY <2>1, <2>2 DEF PoliciesAreFinal, ManifestsAreFinal, Registered, FinalOver, SetupTypeOK
  <2>5. Registered = Slots => registered' = registered
    BY <2>1, <2>2 DEF Registered
  <2>6. RosterIsWhole'
    BY <2>2, <2>5 DEF RosterIsWhole, Registered
  <2>7. rosterStatus = "confirmed" => registered' = registered
    BY <2>5 DEF CountsAreExact, RosterIsWhole
  <2> QED
    BY <2>2, <2>3, <2>4, <2>6, <2>7 DEF CountsAreExact, StatusIsExact, ProofsAreExact,
       Confirmed, SigbashSigns
<1>4. ASSUME AbandonRegistration(p) PROVE SetupInv'
  <2>1. SetupTypeOK' /\ ManifestsAreFinal'
    BY <1>4 DEF SetupTypeOK, ManifestsAreFinal, AbandonRegistration
  <2>2. UNCHANGED <<economics, registered, rosterVars, vault, readinessVars>>
    BY <1>4 DEF AbandonRegistration
  <2> QED
    BY <2>1, <2>2 DEF PoliciesAreFinal, RosterIsWhole,
       CountsAreExact, StatusIsExact, ProofsAreExact, Registered, Confirmed, SigbashSigns
<1> QED
  BY <1>1, <1>2, <1>3, <1>4 DEF KeyStep

-----------------------------------------------------------------------------
(* Building a roster and reviewing it.                                     *)
LEMMA BuildInv ==
    ASSUME SetupInv, NEW p \in Participants,
           \/ BuildRoster(p) \/ StoreRoster(p)
           \/ CreateRosterConfirmationChallenge(p) \/ ReviewExpires(p)
    PROVE  SetupInv'
<1> USE DEF SetupInv
<1>1. ASSUME BuildRoster(p) PROVE SetupInv'
  <2>1. Artifact \in Artifacts
    BY DEF Artifact, Artifacts, SetupTypeOK
  <2>2. SetupTypeOK'
    BY <1>1, <2>1 DEF BuildRoster, SetupTypeOK
  <2>3. RosterIsWhole'
    BY <1>1 DEF BuildRoster, RosterIsWhole, NothingMissing, Registered, Artifact, SetupTypeOK
  <2>4. UNCHANGED <<economics, keyVars, roster, rosterStatus, review,
                    confirmations, confirming, vault, readinessVars>>
    BY <1>1 DEF BuildRoster
  <2> QED
    BY <2>2, <2>3, <2>4 DEF PoliciesAreFinal, ManifestsAreFinal,
       CountsAreExact, StatusIsExact, ProofsAreExact, Registered, Confirmed, SigbashSigns
<1>2. ASSUME StoreRoster(p) PROVE SetupInv'
  <2>1. UNCHANGED <<economics, keyVars, review, confirmations, confirming,
                    vault, readinessVars>>
    BY <1>2 DEF StoreRoster
  <2>2. CASE roster # None
    <3>1. /\ built' = [built EXCEPT ![p] = None]
          /\ UNCHANGED <<roster, rosterStatus>>
      BY <1>2, <2>2 DEF StoreRoster, FirstRoster
    <3>2. SetupTypeOK' /\ RosterIsWhole'
      BY <2>1, <3>1 DEF SetupTypeOK, RosterIsWhole, Registered
    <3> QED
      BY <2>1, <3>1, <3>2 DEF PoliciesAreFinal, ManifestsAreFinal,
         CountsAreExact, StatusIsExact, ProofsAreExact, Registered, Confirmed, SigbashSigns
  <2>3. CASE roster = None
    <3>1. /\ built' = [built EXCEPT ![p] = None]
          /\ roster' = built[p] /\ rosterStatus' = "confirming"
          /\ built[p] \in Artifacts /\ built[p] # None
      BY <1>2, <2>3 DEF StoreRoster, FirstRoster, SetupTypeOK
    <3>2. RosterIsWhole'
      BY <2>1, <3>1 DEF RosterIsWhole, Registered, SetupTypeOK
    <3>3. SetupTypeOK'
      <4>1. \A s \in Slots : roster'.keys[s] # None
        BY <2>1, <3>1 DEF RosterIsWhole, Registered
      <4> QED
        BY <2>1, <3>1, <4>1 DEF SetupTypeOK
    <3>4. rosterStatus = "none" /\ proofs = {} /\ Confirmed # Participants
      BY <2>3 DEF CountsAreExact, ProofsAreExact, StatusIsExact
    <3>5. \A q \in Participants :
             review[q] = None /\ confirmations[q] = None /\ confirming[q] = None
      BY <2>3 DEF CountsAreExact
    <3>6. CountsAreExact'
      BY <2>1, <3>1, <3>5 DEF CountsAreExact
    <3>7. StatusIsExact'
      BY <2>1, <3>1, <3>4 DEF StatusIsExact, Confirmed
    <3>8. ProofsAreExact'
      BY <2>1, <3>1, <3>4 DEF ProofsAreExact
    <3> QED
      BY <2>1, <3>2, <3>3, <3>6, <3>7, <3>8 DEF PoliciesAreFinal, ManifestsAreFinal, Registered
  <2> QED
    BY <2>2, <2>3
<1>3. ASSUME CreateRosterConfirmationChallenge(p) \/ ReviewExpires(p) PROVE SetupInv'
  <2>1. UNCHANGED <<economics, keyVars, built, roster, rosterStatus,
                    confirmations, confirming, vault, readinessVars>>
    BY <1>3 DEF CreateRosterConfirmationChallenge, ReviewExpires
  <2>2. PICK r \in {roster, None} : review' = [review EXCEPT ![p] = r]
    BY <1>3 DEF CreateRosterConfirmationChallenge, ReviewExpires
  <2>3. SetupTypeOK' /\ CountsAreExact'
    BY <2>1, <2>2 DEF SetupTypeOK, CountsAreExact, Confirmed
  <2> QED
    BY <2>1, <2>3 DEF PoliciesAreFinal, ManifestsAreFinal, RosterIsWhole,
       StatusIsExact, ProofsAreExact, Registered, Confirmed, SigbashSigns
<1> QED
  BY <1>1, <1>2, <1>3

(* Confirming the roster: the row lock makes the count exact at its commit. *)
LEMMA ConfirmInv ==
    ASSUME SetupInv, NEW p \in Participants,
           CountConfirmations(p) \/ CommitConfirmation(p) \/ ConfirmationDies(p)
    PROVE  SetupInv'
<1> USE DEF SetupInv
<1>1. ASSUME CountConfirmations(p) PROVE SetupInv'
  <2> DEFINE row == [digest |-> roster, counted |-> Confirmed \cup {p}]
  <2>1. /\ UNCHANGED <<economics, keyVars, built, roster, rosterStatus, review,
                        confirmations, vault, readinessVars>>
        /\ confirming' = [confirming EXCEPT ![p] = row]
        /\ \A q \in Participants : confirming[q] = None
        /\ roster # None /\ confirmations[p] = None
    BY <1>1 DEF CountConfirmations, RosterFree
  <2>2. row \in [digest : Artifacts, counted : SUBSET Participants]
    BY <2>1 DEF SetupTypeOK, Confirmed
  <2>3. row.digest = roster /\ row.counted = Confirmed \cup {p}
    OBVIOUS
  <2> HIDE DEF row
  <2>4. SetupTypeOK'
    BY <2>1, <2>2 DEF SetupTypeOK
  <2>5. Confirmed' = Confirmed
    BY <2>1 DEF Confirmed
  <2>6. CountsAreExact'
    BY <2>1, <2>3, <2>5 DEF CountsAreExact, SetupTypeOK
  <2> QED
    BY <2>1, <2>4, <2>5, <2>6 DEF PoliciesAreFinal, ManifestsAreFinal, RosterIsWhole,
       StatusIsExact, ProofsAreExact, Registered, SigbashSigns
<1>2. ASSUME CommitConfirmation(p) PROVE SetupInv'
  <2>1. /\ UNCHANGED <<economics, keyVars, built, roster, readinessVars>>
        /\ confirming[p] # None
        /\ confirmations' = [confirmations EXCEPT ![p] = confirming[p].digest]
        /\ review' = [review EXCEPT ![p] = None]
        /\ confirming' = [confirming EXCEPT ![p] = None]
    BY <1>2 DEF CommitConfirmation
  <2>2. /\ roster # None /\ roster \in Artifacts /\ confirming[p].digest = roster
        /\ confirming[p].counted = Confirmed \cup {p} /\ p \notin Confirmed
        /\ \A q \in Participants : confirming[q] # None => q = p
    BY <2>1 DEF CountsAreExact, Confirmed, SetupTypeOK
  <2>3. Confirmed' = Confirmed \cup {p}
    BY <2>1, <2>2 DEF Confirmed, SetupTypeOK
  <2>4. rosterStatus \in {"confirming"} /\ vault = "setup"
    BY <2>2 DEF StatusIsExact, CountsAreExact, SetupTypeOK
  <2>5. IF Confirmed' = Participants
        THEN rosterStatus' = "confirmed" /\ vault' = "roster_confirmed"
        ELSE UNCHANGED <<rosterStatus, vault>>
    BY <1>2, <2>2, <2>3, <2>4 DEF CommitConfirmation
  <2>6. SetupTypeOK'
    BY <2>1, <2>2, <2>5 DEF SetupTypeOK
  <2>7. CountsAreExact'
    BY <2>1, <2>2, <2>4, <2>5 DEF CountsAreExact, SetupTypeOK
  <2>8. StatusIsExact'
    BY <2>3, <2>4, <2>5 DEF StatusIsExact
  <2>9. ProofsAreExact'
    BY <2>1, <2>4, <2>5 DEF ProofsAreExact, SigbashSigns
  <2> QED
    BY <2>1, <2>6, <2>7, <2>8, <2>9 DEF PoliciesAreFinal, ManifestsAreFinal, RosterIsWhole,
       Registered
<1>3. ASSUME ConfirmationDies(p) PROVE SetupInv'
  <2>1. /\ UNCHANGED <<economics, keyVars, built, roster, rosterStatus, review,
                        confirmations, vault, readinessVars>>
        /\ confirming' = [confirming EXCEPT ![p] = None]
    BY <1>3 DEF ConfirmationDies
  <2>2. SetupTypeOK' /\ CountsAreExact'
    BY <2>1 DEF SetupTypeOK, CountsAreExact, Confirmed
  <2> QED
    BY <2>1, <2>2 DEF PoliciesAreFinal, ManifestsAreFinal, RosterIsWhole,
       StatusIsExact, ProofsAreExact, Registered, Confirmed, SigbashSigns
<1> QED
  BY <1>1, <1>2, <1>3

-----------------------------------------------------------------------------
(* A step that only opens, answers or forgets challenges.                  *)
LEMMA ChallengesInv ==
    ASSUME SetupInv, SetupTypeOK',
           UNCHANGED <<economics, keyVars, rosterVars, vault, proofs, proving>>
    PROVE  SetupInv'
BY DEF SetupInv, PoliciesAreFinal, ManifestsAreFinal, RosterIsWhole,
   CountsAreExact, StatusIsExact, ProofsAreExact, Registered, Confirmed, SigbashSigns

(* Proving the keys: the vault's lock makes the count exact at its commit. *)
LEMMA ReadinessInv ==
    ASSUME SetupInv, NEW p \in Participants, ReadinessStep(p)
    PROVE  SetupInv'
<1> USE DEF SetupInv
<1>1. ASSUME CreateSigbashReadinessChallenge(p) PROVE SetupInv'
  <2>1. SetupTypeOK'
    BY <1>1 DEF SetupTypeOK, CreateSigbashReadinessChallenge, SlotsOf
  <2> QED
    BY <1>1, <2>1, ChallengesInv DEF CreateSigbashReadinessChallenge
<1>2. ASSUME CountProofs(p) PROVE SetupInv'
  <2>1. PICK s \in Slots :
           /\ SigbashSigns(s)
           /\ proving' = [proving EXCEPT ![p] = [slot |-> s, counted |-> proofs \cup {s}]]
    BY <1>2 DEF CountProofs, SlotsOf
  <2> DEFINE row == [slot |-> s, counted |-> proofs \cup {s}]
  <2>2. /\ UNCHANGED <<economics, keyVars, rosterVars, vault, open, answered, proofs>>
        /\ rosterStatus = "confirmed"
        /\ \A q \in Participants : proving[q] = None
    BY <1>2 DEF CountProofs, VaultFree
  <2>3. row \in [slot : Slots, counted : SUBSET Slots]
    BY DEF SetupTypeOK
  <2>4. row.slot = s /\ row.counted = proofs \cup {s}
    OBVIOUS
  <2>5. proving' = [proving EXCEPT ![p] = row]
    BY <2>1
  <2> HIDE DEF row
  <2>6. SetupTypeOK'
    BY <2>2, <2>3, <2>5 DEF SetupTypeOK
  <2>7. ProofsAreExact'
    BY <2>1, <2>2, <2>4, <2>5 DEF ProofsAreExact, SetupTypeOK, SigbashSigns
  <2> QED
    BY <2>2, <2>6, <2>7 DEF PoliciesAreFinal, ManifestsAreFinal, RosterIsWhole,
       CountsAreExact, StatusIsExact, Registered, Confirmed
<1>3. ASSUME CommitProof(p) PROVE SetupInv'
  <2> DEFINE s == proving[p].slot
  <2>1. /\ UNCHANGED <<economics, keyVars, rosterVars>>
        /\ proving[p] # None
        /\ proving' = [proving EXCEPT ![p] = None]
        /\ proofs' = proofs \cup {s}
        /\ \/ open' = open /\ answered' = answered
           \/ open' = open \ {s} /\ answered' = answered \cup {s}
        /\ vault' = IF AllProven(proving[p].counted) /\ vault = "roster_confirmed"
                    THEN "ready" ELSE vault
    BY <1>3 DEF CommitProof
  <2>2. /\ s \in Slots /\ SigbashSigns(s) /\ rosterStatus = "confirmed"
        /\ proving[p].counted = proofs \cup {s}
        /\ \A q \in Participants : proving[q] # None => q = p
    BY <2>1 DEF ProofsAreExact, SetupTypeOK
  <2>3. AllProven(proving[p].counted) <=> proofs' = Slots
    <3>1. proving[p].counted = proofs' /\ proofs' \subseteq Slots
      BY <2>1, <2>2 DEF SetupTypeOK
    <3> QED
      BY <3>1, CountedAll, CountedSome
  <2>4. vault \in {"roster_confirmed", "ready"}
    BY <2>2 DEF StatusIsExact, SetupTypeOK
  <2> HIDE DEF s
  <2>5. vault' = "ready" <=> proofs' = Slots
    <3>1. CASE vault = "ready"
      <4>1. proofs = Slots
        BY <3>1 DEF ProofsAreExact
      <4> QED
        BY <2>1, <2>2, <3>1, <4>1
    <3>2. CASE vault = "roster_confirmed"
      BY <2>1, <2>3, <3>2
    <3> QED
      BY <2>4, <3>1, <3>2
  <2>6. vault' # "setup" /\ vault # "setup" /\ vault' \in {"roster_confirmed", "ready"}
    BY <2>1, <2>4
  <2>7. SetupTypeOK'
    BY <2>1, <2>2, <2>6 DEF SetupTypeOK
  <2>8. ProofsAreExact'
    <3>1. \A t \in proofs' : SigbashSigns(t)'
      BY <2>1, <2>2 DEF ProofsAreExact, SigbashSigns
    <3>2. \A q \in Participants : proving'[q] = None
      BY <2>1, <2>2 DEF SetupTypeOK
    <3> QED
      BY <2>1, <2>2, <2>5, <3>1, <3>2 DEF ProofsAreExact
  <2>9. StatusIsExact'
    BY <2>1, <2>6 DEF StatusIsExact, Confirmed
  <2> QED
    BY <2>1, <2>7, <2>8, <2>9 DEF PoliciesAreFinal, ManifestsAreFinal, RosterIsWhole,
       CountsAreExact, Registered, Confirmed
<1>4. ASSUME ProofDies(p) PROVE SetupInv'
  <2>1. /\ UNCHANGED <<economics, keyVars, rosterVars, vault, open, answered, proofs>>
        /\ proving' = [proving EXCEPT ![p] = None]
    BY <1>4 DEF ProofDies
  <2>2. SetupTypeOK' /\ ProofsAreExact'
    BY <2>1 DEF SetupTypeOK, ProofsAreExact, SigbashSigns
  <2> QED
    BY <2>1, <2>2 DEF PoliciesAreFinal, ManifestsAreFinal, RosterIsWhole,
       CountsAreExact, StatusIsExact, Registered, Confirmed
<1> QED
  BY <1>1, <1>2, <1>3, <1>4 DEF ReadinessStep

(* New economics disturb nothing that is on record.                        *)
LEMMA ConfigureInv ==
    ASSUME SetupInv, NEW e \in Economics, Configure(e)
    PROVE  SetupInv'
<1>1. SetupTypeOK'
  BY DEF SetupInv, SetupTypeOK, Configure
<1>2. UNCHANGED <<keyVars, rosterVars, vault, readinessVars>>
  BY DEF Configure
<1> QED
  BY <1>1, <1>2 DEF SetupInv, PoliciesAreFinal, ManifestsAreFinal, RosterIsWhole,
     CountsAreExact, StatusIsExact, ProofsAreExact, Registered, Confirmed, SigbashSigns

(* Every step keeps it.                                                    *)
LEMMA StepInv == SetupInv /\ [Next]_setupVars => SetupInv'
<1> SUFFICES ASSUME SetupInv, [Next]_setupVars PROVE SetupInv'
  OBVIOUS
<1>1. CASE UNCHANGED setupVars
  BY <1>1 DEF SetupInv, SetupTypeOK, PoliciesAreFinal, ManifestsAreFinal, RosterIsWhole,
     CountsAreExact, StatusIsExact, ProofsAreExact, Registered, Confirmed, SigbashSigns
<1>2. ASSUME NEW e \in Economics, Configure(e) PROVE SetupInv'
  BY <1>2, ConfigureInv
<1>3. ASSUME NEW p \in Participants, KeyStep(p) PROVE SetupInv'
  BY <1>3, KeysInv
<1>4. ASSUME NEW p \in Participants, RosterStep(p) PROVE SetupInv'
  BY <1>4, BuildInv, ConfirmInv DEF RosterStep
<1>5. ASSUME NEW p \in Participants, ReadinessStep(p) PROVE SetupInv'
  BY <1>5, ReadinessInv
<1>6. ASSUME NEW s \in Slots, ReadinessExpires(s) PROVE SetupInv'
  <2>1. SetupTypeOK'
    BY <1>6 DEF SetupInv, SetupTypeOK, ReadinessExpires
  <2> QED
    BY <1>6, <2>1, ChallengesInv DEF ReadinessExpires
<1> QED
  BY <1>1, <1>2, <1>3, <1>4, <1>5, <1>6 DEF Next

(* The invariant holds in every reachable state.                           *)
THEOREM SetupInvariant == SetupSpec => []SetupInv
<1> QED
  BY InitInv, StepInv, PTL DEF SetupSpec

-----------------------------------------------------------------------------
(* Every variable of the setup stays in its type, and a roster on record   *)
(* names a key for every slot.                                             *)
THEOREM SetupTypeCorrect == SetupSpec => []SetupTypeOK
<1>1. SetupInv => SetupTypeOK
  BY DEF SetupInv
<1> QED
  BY <1>1, SetupInvariant, PTL

(* No registered policy was compiled over a placeholder key, however the   *)
(* participants' registrations interleave.                                 *)
THEOREM FinalPolicies == SetupSpec => []PoliciesAreFinal
<1>1. SetupInv => PoliciesAreFinal
  BY DEF SetupInv
<1> QED
  BY <1>1, SetupInvariant, PTL

(* There is one roster, it holds the registered keys, and whoever          *)
(* confirmed has confirmed it.                                             *)
THEOREM ExactRoster == SetupSpec => []RosterIsExact
<1>1. SetupInv => RosterIsExact
  BY DEF SetupInv, RosterIsWhole, CountsAreExact, RosterIsExact, Confirmed
<1> QED
  BY <1>1, SetupInvariant, PTL

(* Neither the last confirmation nor the last proof is lost to a race.     *)
THEOREM NoCountIsLost == SetupSpec => []LastOneMovesOn
<1>1. SetupInv => LastOneMovesOn
  BY DEF SetupInv, StatusIsExact, ProofsAreExact, LastOneMovesOn
<1> QED
  BY <1>1, SetupInvariant, PTL

(* A ready vault was confirmed by everybody and each of its keys is proven *)
(* to sign exits of the roster's economics.                                *)
THEOREM OnlyProvenIsReady == SetupSpec => []ReadyIsProven
<1>1. SetupInv => ReadyIsProven
  BY DEF SetupInv, StatusIsExact, ProofsAreExact, ReadyIsProven
<1> QED
  BY <1>1, SetupInvariant, PTL
=============================================================================
