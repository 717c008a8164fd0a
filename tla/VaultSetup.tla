----------------------------- MODULE VaultSetup -----------------------------
(***************************************************************************)
(* One vault from its empty seats to "ready": key material, the keys each  *)
(* participant registers with Sigbash, the immutable roster built from     *)
(* them, its unanimous confirmation, and one readiness proof for each key. *)
(*                                                                         *)
(* The pool runs transactions at READ COMMITTED.  The two transactions     *)
(* that count rows and then move the vault's status are two steps here,    *)
(* the statements up to the count and the rest up to the commit, so that   *)
(* the row locks they take matter.                                         *)
(***************************************************************************)
EXTENDS Naturals, Sequences, FiniteSets

CONSTANTS
    Participants, \* alice, bob, carol
    Rounds,       \* sets of participants who still share a vault
    Everyone,     \* the round of all participants
    LeaveRounds,  \* per participant, the rounds it can leave in, in order
    Economics,    \* the deposits configured, in that order
    Builders,     \* bound: whose requests may find no roster and build one
    Expiring,     \* bound: participants whose challenges may expire
    None

ASSUME SetupAssumption ==
    /\ IsFiniteSet(Participants) /\ Participants # {}
    /\ IsFiniteSet(Rounds)
    /\ Everyone \in Rounds
    /\ LeaveRounds \in [Participants -> Seq(Rounds)]
    /\ \A p \in Participants : \E i \in DOMAIN LeaveRounds[p] : LeaveRounds[p][i] = Everyone
    /\ Economics \subseteq Nat
    /\ Builders \subseteq Participants /\ Expiring \subseteq Participants

VARIABLES
    economics,     \* configuration of the running deployment
    keyed,         \* participant_key_material
    recoverable,   \* participants with a second working passkey
    registered,    \* participant_sigbash_keys: what each one's policy says
    manifest,      \* registrations under way
    built,         \* rosters built by requests under way
    roster,        \* vault_rosters.artifact_json and digest
    rosterStatus,  \* vault_rosters.status
    review,        \* open roster challenges: the digest each one carries
    confirmations, \* roster_confirmations
    confirming,    \* transactions holding the roster's row: what they count
    vault,         \* vaults.status
    open,          \* sigbash_readiness_challenges open and not expired
    answered,      \* those consumed and not expired
    proofs,        \* participant_sigbash_readiness_proofs
    proving        \* transactions holding the vault's row: what they count

keyVars == <<keyed, recoverable, registered, manifest>>
rosterVars == <<built, roster, rosterStatus, review, confirmations, confirming>>
readinessVars == <<open, answered, proofs, proving>>
setupVars == <<economics, keyVars, rosterVars, vault, readinessVars>>

(* participantLeaveRounds: a key of its own for each round one can leave in *)
Leaves(p) == {LeaveRounds[p][i] : i \in DOMAIN LeaveRounds[p]}
Slots == UNION {{p} \X Leaves(p) : p \in Participants}
PairSlots == {s \in Slots : s[2] # Everyone}
SlotsOf(p) == {s \in Slots : s[1] = p}

(* The first of p's rounds, in their order, whose slot is in S.            *)
FirstIn(p, S) ==
    LET at == CHOOSE i \in DOMAIN LeaveRounds[p] :
                  /\ <<p, LeaveRounds[p][i]>> \in S
                  /\ \A j \in DOMAIN LeaveRounds[p] :
                         j < i => <<p, LeaveRounds[p][j]>> \notin S
    IN <<p, LeaveRounds[p][at]>>

Nobody == [p \in Participants |-> None]

Init ==
    /\ economics \in Economics
    /\ keyed = {} /\ recoverable = {}
    /\ registered = [s \in Slots |-> None] /\ manifest = Nobody
    /\ built = Nobody /\ roster = None /\ rosterStatus = "none"
    /\ review = Nobody /\ confirmations = Nobody /\ confirming = Nobody
    /\ vault = "setup"
    /\ open = {} /\ answered = {} /\ proofs = {}
    /\ proving = Nobody

-----------------------------------------------------------------------------
(* Keys.                                                                   *)

(* Redeployed: what policies and a first roster are built with.  Once a    *)
(* roster is on record its own economics are used.  Bound: a deployment    *)
(* never goes back to earlier economics.                                   *)
Configure(e) ==
    /\ e > economics /\ roster = None
    /\ economics' = e
    /\ UNCHANGED <<keyVars, rosterVars, vault, readinessVars>>

CompleteEnvelope(p) ==
    /\ p \notin keyed
    /\ keyed' = keyed \cup {p}
    /\ UNCHANGED <<economics, recoverable, registered, manifest, rosterVars,
                   vault, readinessVars>>

CompleteRecoveryEnvelope(p) ==
    /\ p \in keyed \ recoverable
    /\ recoverable' = recoverable \cup {p}
    /\ UNCHANGED <<economics, keyed, registered, manifest, rosterVars, vault,
                   readinessVars>>

Registered == {s \in Slots : registered[s] # None}
Missing(p) == SlotsOf(p) \ Registered

(* Mutant: a participant waits only for its own pair keys.                 *)
FinalForOneself(p) == PairSlots \cap SlotsOf(p) \subseteq Registered

(* The destination of a round-one policy needs every pair round's keys.    *)
PairsAreFinal(p) == PairSlots \subseteq Registered

(* The canonical policy of a slot: the economics its payout is computed    *)
(* from, and the pair keys its destination is made of, placeholders        *)
(* standing for those not known yet.                                       *)
Policy(s) ==
    [economics |-> economics,
     over |-> IF s[2] = Everyone THEN PairSlots \cap Registered ELSE {}]

(* The registration's request finds what p registers next, and checks the  *)
(* policy the browser asked for against it.                                *)
ReadManifest(p) ==
    /\ keyed = Participants
    /\ manifest[p] = None
    /\ \E s \in Missing(p) :
        /\ \/ s \in PairSlots /\ s = FirstIn(p, Missing(p) \cap PairSlots)
           \/ s \notin PairSlots /\ Missing(p) \cap PairSlots = {} /\ PairsAreFinal(p)
        /\ manifest' = [manifest EXCEPT ![p] = [slot |-> s, policy |-> Policy(s)]]
    /\ UNCHANGED <<economics, keyed, recoverable, registered, rosterVars,
                   vault, readinessVars>>

(* recordLiveSigbashRegistration; the primary key refuses a second one.    *)
RegisterKey(p) ==
    /\ manifest[p] # None
    /\ registered' = IF registered[manifest[p].slot] = None
                     THEN [registered EXCEPT ![manifest[p].slot] = manifest[p].policy]
                     ELSE registered
    /\ manifest' = [manifest EXCEPT ![p] = None]
    /\ UNCHANGED <<economics, keyed, recoverable, rosterVars, vault, readinessVars>>

AbandonRegistration(p) ==
    /\ manifest[p] # None
    /\ manifest' = [manifest EXCEPT ![p] = None]
    /\ UNCHANGED <<economics, keyed, recoverable, registered, rosterVars,
                   vault, readinessVars>>

-----------------------------------------------------------------------------
(* The roster.                                                             *)

(* getOrCreateRoster's list of what is missing; the economics of the       *)
(* deployment are taken to be explicit and within the operator's cap.      *)
NothingMissing ==
    keyed = Participants /\ recoverable = Participants /\ Registered = Slots

Artifact == [economics |-> economics, keys |-> registered]

(* getOrCreateRoster found no roster and built one, under the economics of *)
(* the deployment that serves the request.                                 *)
BuildRoster(p) ==
    /\ p \in Builders
    /\ roster = None /\ built[p] = None
    /\ NothingMissing
    /\ built' = [built EXCEPT ![p] = Artifact]
    /\ UNCHANGED <<economics, keyVars, roster, rosterStatus, review,
                   confirmations, confirming, vault, readinessVars>>

(* Mutant: a later roster replaces the one on record.                      *)
LastRoster(artifact) == artifact

(* INSERT ... ON CONFLICT (vault_id) DO NOTHING.                           *)
FirstRoster(artifact) == IF roster = None THEN artifact ELSE roster

(* The insert; the request throws when another roster is already there.    *)
StoreRoster(p) ==
    /\ built[p] # None
    /\ roster' = FirstRoster(built[p])
    /\ rosterStatus' = IF roster = None THEN "confirming" ELSE rosterStatus
    /\ built' = [built EXCEPT ![p] = None]
    /\ UNCHANGED <<economics, keyVars, review, confirmations, confirming,
                   vault, readinessVars>>

CreateRosterConfirmationChallenge(p) ==
    /\ roster # None
    /\ confirmations[p] = None
    /\ review' = [review EXCEPT ![p] = roster]
    /\ UNCHANGED <<economics, keyVars, built, roster, rosterStatus,
                   confirmations, confirming, vault, readinessVars>>

ReviewExpires(p) ==
    /\ p \in Expiring /\ review[p] # None
    /\ review' = [review EXCEPT ![p] = None]
    /\ UNCHANGED <<economics, keyVars, built, roster, rosterStatus,
                   confirmations, confirming, vault, readinessVars>>

(* Mutant: the roster's row is read without FOR UPDATE.                    *)
RosterUnlocked(p) == confirming[p] = None

RosterFree(p) == \A q \in Participants : confirming[q] = None

Confirmed == {p \in Participants : confirmations[p] # None}

(* completeRosterConfirmation up to its count.                             *)
CountConfirmations(p) ==
    /\ review[p] # None
    /\ RosterFree(p)
    /\ roster = review[p]
    /\ confirmations[p] = None
    /\ confirming' = [confirming EXCEPT
                        ![p] = [digest |-> roster, counted |-> Confirmed \cup {p}]]
    /\ UNCHANGED <<economics, keyVars, built, roster, rosterStatus, review,
                   confirmations, vault, readinessVars>>

CommitConfirmation(p) ==
    /\ confirming[p] # None
    /\ confirmations' = [confirmations EXCEPT ![p] = confirming[p].digest]
    /\ review' = [review EXCEPT ![p] = None]
    /\ confirming' = [confirming EXCEPT ![p] = None]
    /\ IF confirming[p].counted = Participants
       THEN /\ rosterStatus' = "confirmed"
            /\ vault' = IF vault = "setup" THEN "roster_confirmed" ELSE vault
       ELSE UNCHANGED <<rosterStatus, vault>>
    /\ UNCHANGED <<economics, keyVars, built, roster, readinessVars>>

ConfirmationDies(p) ==
    /\ confirming[p] # None
    /\ confirming' = [confirming EXCEPT ![p] = None]
    /\ UNCHANGED <<economics, keyVars, built, roster, rosterStatus, review,
                   confirmations, vault, readinessVars>>

-----------------------------------------------------------------------------
(* Readiness.                                                              *)

(* The challenge for p's next round, or the one open for it already.  The  *)
(* round is read before the insert: a proof of it that commits in between  *)
(* leaves a challenge whose answer the proofs' primary key refuses, which  *)
(* changes nothing, so the two are one step.                               *)
CreateSigbashReadinessChallenge(p) ==
    /\ rosterStatus = "confirmed"
    /\ vault = "roster_confirmed"
    /\ \E s \in SlotsOf(p) \ proofs :
        /\ s = FirstIn(p, SlotsOf(p) \ proofs)
        /\ open' = open \cup {s}
    /\ UNCHANGED <<economics, keyVars, rosterVars, vault, answered, proofs, proving>>

(* Fifteen minutes pass.                                                   *)
ReadinessExpires(s) ==
    /\ s[1] \in Expiring
    /\ \/ s \in open /\ open' = open \ {s} /\ UNCHANGED answered
       \/ s \in answered /\ answered' = answered \ {s} /\ UNCHANGED open
    /\ UNCHANGED <<economics, keyVars, rosterVars, vault, proofs, proving>>

VaultFree(p) == \A q \in Participants : proving[q] = None

(* The service signs what the key's policy allows: an exit with exactly    *)
(* the payout the policy was compiled with.                                *)
SigbashSigns(s) == registered[s].economics = roster.economics

(* completeSigbashReadinessProof up to its count: a first answer, or the   *)
(* same answer again.                                                      *)
CountProofs(p) ==
    /\ rosterStatus = "confirmed"
    /\ VaultFree(p)
    /\ \E s \in SlotsOf(p) :
        /\ s \in answered \/ s \in open
        /\ SigbashSigns(s)
        /\ proving' = [proving EXCEPT ![p] = [slot |-> s, counted |-> proofs \cup {s}]]
    /\ UNCHANGED <<economics, keyVars, rosterVars, vault, open, answered, proofs>>

(* Mutant: one proof short.                                                *)
AllButOne(counted) == Cardinality(counted) + 1 >= Cardinality(Slots)

AllProven(counted) == Cardinality(counted) = Cardinality(Slots)

(* The rest of it, markVaultReadyIfComplete included.                      *)
CommitProof(p) ==
    /\ proving[p] # None
    /\ LET s == proving[p].slot IN
        /\ proofs' = proofs \cup {s}
        /\ IF s \in proofs
           THEN UNCHANGED <<open, answered>>
           ELSE /\ open' = open \ {s}
                /\ answered' = answered \cup {s}
        /\ vault' = IF AllProven(proving[p].counted) /\ vault = "roster_confirmed"
                    THEN "ready" ELSE vault
    /\ proving' = [proving EXCEPT ![p] = None]
    /\ UNCHANGED <<economics, keyVars, rosterVars>>

ProofDies(p) ==
    /\ proving[p] # None
    /\ proving' = [proving EXCEPT ![p] = None]
    /\ UNCHANGED <<economics, keyVars, rosterVars, vault, open, answered, proofs>>

-----------------------------------------------------------------------------
KeyStep(p) ==
    \/ CompleteEnvelope(p) \/ CompleteRecoveryEnvelope(p)
    \/ ReadManifest(p) \/ RegisterKey(p) \/ AbandonRegistration(p)

RosterStep(p) ==
    \/ BuildRoster(p) \/ StoreRoster(p)
    \/ CreateRosterConfirmationChallenge(p) \/ ReviewExpires(p)
    \/ CountConfirmations(p) \/ CommitConfirmation(p) \/ ConfirmationDies(p)

ReadinessStep(p) ==
    \/ CreateSigbashReadinessChallenge(p)
    \/ CountProofs(p) \/ CommitProof(p) \/ ProofDies(p)

Next ==
    \/ \E e \in Economics : Configure(e)
    \/ \E p \in Participants : KeyStep(p) \/ RosterStep(p) \/ ReadinessStep(p)
    \/ \E s \in Slots : ReadinessExpires(s)

SetupSpec == Init /\ [][Next]_setupVars

-----------------------------------------------------------------------------
Policies == [economics : Economics, over : SUBSET Slots]
Artifacts == [economics : Economics, keys : [Slots -> Policies \cup {None}]]

SetupTypeOK ==
    /\ economics \in Economics
    /\ keyed \subseteq Participants /\ recoverable \subseteq keyed
    /\ registered \in [Slots -> Policies \cup {None}]
    /\ manifest \in [Participants -> [slot : Slots, policy : Policies] \cup {None}]
    /\ built \in [Participants -> Artifacts \cup {None}]
    /\ roster \in Artifacts \cup {None}
    /\ roster # None => \A s \in Slots : roster.keys[s] # None
    /\ rosterStatus \in {"none", "confirming", "confirmed"}
    /\ review \in [Participants -> Artifacts \cup {None}]
    /\ confirmations \in [Participants -> Artifacts \cup {None}]
    /\ confirming \in
           [Participants -> [digest : Artifacts, counted : SUBSET Participants] \cup {None}]
    /\ vault \in {"setup", "roster_confirmed", "ready"}
    /\ open \subseteq Slots /\ answered \subseteq proofs /\ proofs \subseteq Slots
    /\ proving \in [Participants -> [slot : Slots, counted : SUBSET Slots] \cup {None}]

(* Every registered policy was compiled over the final keys it depends on, *)
(* never over a placeholder, although the request that registers it read   *)
(* them before others registered theirs.                                   *)
PoliciesAreFinal ==
    \A s \in Registered :
        registered[s].over = IF s[2] = Everyone THEN PairSlots ELSE {}

(* Everybody confirms one artifact, the one on record, and that artifact   *)
(* holds every key as it is registered, however many requests built one    *)
(* under whatever economics.                                               *)
RosterIsExact ==
    /\ roster # None => roster.keys = registered
    /\ \A p \in Confirmed : confirmations[p] = roster

(* The last two confirmations may be under way together, and so may the    *)
(* last two proofs: whichever commits last moves the vault on.             *)
LastOneMovesOn ==
    /\ Confirmed = Participants => vault # "setup"
    /\ proofs = Slots => vault = "ready"

(* A vault can only be funded when everybody confirmed its roster and each *)
(* key has proven to sign exits of that roster's economics, although the   *)
(* deployment may have changed them between keys, or before the roster.    *)
ReadyIsProven ==
    /\ vault # "setup" => rosterStatus = "confirmed" /\ Confirmed = Participants
    /\ vault = "ready" => \A s \in Slots : s \in proofs /\ SigbashSigns(s)
=============================================================================
