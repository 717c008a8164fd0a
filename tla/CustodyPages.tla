---------------------------- MODULE CustodyPages ----------------------------
(***************************************************************************)
(* How one participant creates its Sigbash organization and the immutable  *)
(* key of every round it can leave in, from any of its browser tabs.  The  *)
(* secrets live in an append-only history of encrypted bundles; a key that *)
(* is about to be created is saved as pending first, and a key is made     *)
(* public only with its recovery kit saved.                                *)
(*                                                                         *)
(* A tab works on the bundle it unlocked, so two tabs interleave; it may   *)
(* stop at every step, which is also what a refused request, a lost answer *)
(* or an expired lease makes of it.  A lease allows twelve writes, a tab   *)
(* makes two at most.  A key stands for itself with its recovery kit.      *)
(***************************************************************************)
EXTENDS SigbashOrganization, Sequences, SequencesExt

CONSTANTS
    Pages,
    PairRounds,  \* the pair rounds of this participant, in the plan's order
    RoundOne,
    Terms,       \* economics a deployment may run with
    MaxRevision  \* revisions a history may hold

Rounds == {RoundOne} \cup Range(PairRounds)

(* participantLeaveRounds: round one, then the pairs; a key's index is its *)
(* position.                                                               *)
LeaveRounds == <<RoundOne>> \o PairRounds
IndexOf(r) == (CHOOSE n \in DOMAIN LeaveRounds : LeaveRounds[n] = r) - 1

ASSUME CustodyAssumption ==
    /\ PairRounds \in Seq(Rounds)
    /\ RoundOne \notin Range(PairRounds)
    /\ {IndexOf(r) : r \in Rounds} \subseteq Indexes

(* Of three participants each is in two pairs; a history holds the first   *)
(* bundle and two snapshots of every key.                                  *)
ASSUME RoomAssumption ==
    /\ Len(PairRounds) <= 2
    /\ MaxRevision \in Nat /\ MaxRevision >= 7

Policies == [round : Rounds, terms : Terms]
Keys == [org : Orgs, round : Rounds, policy : Policies]

ASSUME AbsenceAssumption == None \notin Orgs \cup Rounds \cup Policies \cup Keys

VARIABLES
    history,    \* participant_sigbash_custody_versions, decrypted
    drawn,      \* credentials that were generated
    registered, \* participant_sigbash_keys of this participant
    othersDone, \* the pair keys of the others are registered
    terms,      \* the deployment's economics
    page        \* what every tab is doing

custody == <<history, drawn, registered, othersDone, terms, page>>

PolicyOf(r, t) == [round |-> r, terms |-> t]

NoBundle == [org |-> None, keys |-> {}, pending |-> None]
Rest == [step |-> "idle", bundle |-> NoBundle, revision |-> 0,
         round |-> None, policy |-> None, key |-> None]

Latest == IF history = <<>> THEN NoBundle ELSE Last(history)

CustodyInit ==
    /\ history = <<>> /\ drawn = {}
    /\ registered = [r \in Rounds |-> None]
    /\ othersDone = FALSE /\ terms \in Terms
    /\ page = [q \in Pages |-> Rest]

Goes(q, rest) == page' = [page EXCEPT ![q] = rest]
At(q, step) == page[q].step = step

-----------------------------------------------------------------------------
(* The custody store.                                                      *)

(* completeSigbashCustodyAuthorization: a lease with the history as it is. *)
Unlocked == [Rest EXCEPT !.step = "unlocked", !.bundle = Latest,
                         !.revision = Len(history) + 1]

(* Mutant: the revision is taken from the table when it is written.        *)
AppendAnyway(revision, bundle) ==
    /\ Len(history) < MaxRevision
    /\ history' = Append(history, bundle)

(* appendSigbashCustodyEnvelope: the revision after the newest one only.   *)
AppendRevision(revision, bundle) ==
    /\ revision <= MaxRevision
    /\ revision = Len(history) + 1
    /\ history' = Append(history, bundle)

KeyFor(bundle, r) == {k \in bundle.keys : k.round = r}

(* validateSigbashCustodyBundle: one key of its own organization for a     *)
(* round at most, and nothing pending that is there already.               *)
ValidBundle(bundle) ==
    /\ Cardinality(bundle.keys) <= 3
    /\ \A k \in bundle.keys : k.org = bundle.org /\ KeyFor(bundle, k.round) = {k}
    /\ bundle.pending # None => KeyFor(bundle, bundle.pending) = {}

(* The two snapshots of a key: pending, and complete with its kit.         *)
Pending(bundle, r) == [bundle EXCEPT !.pending = r]
Completed(bundle, key) == [bundle EXCEPT !.keys = @ \cup {key}, !.pending = None]

(* encryptSigbashCustodyBundle, and what it made is saved.                 *)
Save(q, bundle) == ValidBundle(bundle) /\ AppendRevision(page[q].revision, bundle)

-----------------------------------------------------------------------------
(* The provisioning manifest.                                              *)

Missing == {n \in DOMAIN PairRounds : registered[PairRounds[n]] = None}

(* planSigbashProvisioning: own pair keys first, round one when all pair   *)
(* keys of the vault are registered.                                       *)
NextRound ==
    IF Missing # {} THEN PairRounds[Min(Missing)]
    ELSE IF registered[RoundOne] = None /\ othersDone THEN RoundOne
    ELSE None

-----------------------------------------------------------------------------
(* The page.                                                               *)

AuthorizeCustody(q) ==
    /\ At(q, "idle")
    /\ Goes(q, Unlocked)
    /\ UNCHANGED <<history, drawn, registered, othersDone, terms, service>>

(* openCustody: the first bundle holds fresh credentials.                  *)
OpenCustody(q) ==
    /\ At(q, "unlocked") /\ page[q].bundle = NoBundle
    /\ \E o \in Orgs \ drawn :
        /\ drawn' = drawn \cup {o}
        /\ Save(q, [NoBundle EXCEPT !.org = o])
    /\ Goes(q, Rest)
    /\ UNCHANGED <<registered, othersDone, terms, service>>

(* What is next, and what was begun, must agree unless the key is there.   *)
Agrees(bundle, r) == bundle.pending \in {None, r} \/ KeyFor(bundle, r) # {}

(* registerNextRoundKey.                                                   *)
ReadManifest(q) ==
    LET r == NextRound IN
    /\ At(q, "unlocked") /\ page[q].bundle # NoBundle
    /\ r # None
    /\ Agrees(page[q].bundle, r)
    /\ Goes(q, [page[q] EXCEPT !.step = "manifest", !.round = r,
                               !.policy = PolicyOf(r, terms)])
    /\ UNCHANGED <<history, drawn, registered, othersDone, terms, service>>

(* assertCompiledPolicy, of the page and of the server: an immutable key   *)
(* is refused unless it was made for the very policy that is asked for.    *)
Compiled(key, policy) == key.policy = policy

(* The register request: the lease, the manifest as it is now, the policy  *)
(* the key was compiled for.                                               *)
Register(key, policy) ==
    LET r == key.round IN
    /\ NextRound = r
    /\ policy = PolicyOf(r, terms) /\ Compiled(key, policy)
    /\ registered' = [registered EXCEPT ![r] = key]

(* A key that was protected and never published.                           *)
PublishProtected(q) ==
    /\ At(q, "manifest")
    /\ \E key \in KeyFor(page[q].bundle, page[q].round) : Register(key, page[q].policy)
    /\ Goes(q, Rest)
    /\ UNCHANGED <<history, drawn, othersDone, terms, service>>

Begins(q) ==
    /\ At(q, "manifest")
    /\ KeyFor(page[q].bundle, page[q].round) = {}

(* Mutant: the pending key is saved whether or not it is on record.        *)
ReserveAgain(q) ==
    LET b == Pending(page[q].bundle, page[q].round) IN
    /\ Begins(q)
    /\ page[q].revision < MaxRevision
    /\ Save(q, b)
    /\ Goes(q, [page[q] EXCEPT !.step = "reserved", !.bundle = b, !.revision = @ + 1])
    /\ UNCHANGED <<drawn, registered, othersDone, terms, service>>

(* Room for both snapshots, or for the one that is left.                   *)
HasRoom(bundle, revision) ==
    IF bundle.pending = None THEN revision < MaxRevision ELSE revision <= MaxRevision

(* The pending key is on record, with room for the completed one, before   *)
(* the service is asked for anything.                                      *)
Reserve(q) ==
    LET b == Pending(page[q].bundle, page[q].round) IN
    /\ Begins(q)
    /\ HasRoom(page[q].bundle, page[q].revision)
    /\ \/ /\ page[q].bundle.pending = None
          /\ Save(q, b)
          /\ Goes(q, [page[q] EXCEPT !.step = "reserved", !.bundle = b, !.revision = @ + 1])
       \/ /\ page[q].bundle.pending # None
          /\ Goes(q, [page[q] EXCEPT !.step = "reserved"])
          /\ UNCHANGED history
    /\ UNCHANGED <<drawn, registered, othersDone, terms, service>>

(* readProvisioningKeys: the refusal of an organization without a key is   *)
(* accepted for the first slot of a bundle without keys.                   *)
FirstSlot(bundle, r) == IndexOf(r) = 0 /\ bundle.keys = {}

MayList(bundle, r) == Answers(bundle.org) \/ FirstSlot(bundle, r)

KeyAt(o, r) == [org |-> o, round |-> r, policy |-> live[o][IndexOf(r)]]

(* listKeys finds the key a lost answer left behind, or none.              *)
ListKeys(q) ==
    LET o == page[q].bundle.org
        r == page[q].round IN
    /\ At(q, "reserved")
    /\ MayList(page[q].bundle, r)
    /\ Goes(q, IF IndexOf(r) \in Occupied(o)
               THEN [page[q] EXCEPT !.step = "created", !.key = KeyAt(o, r)]
               ELSE [page[q] EXCEPT !.step = "absent"])
    /\ UNCHANGED <<history, drawn, registered, othersDone, terms, service>>

CreateKey(q) ==
    LET o == page[q].bundle.org
        r == page[q].round IN
    /\ At(q, "absent")
    /\ \/ /\ Creates(o, IndexOf(r), page[q].policy)
          /\ Goes(q, [page[q] EXCEPT !.step = "created",
                         !.key = [org |-> o, round |-> r, policy |-> page[q].policy]])
       \/ /\ CreationLost(o, IndexOf(r), page[q].policy)
          /\ Goes(q, Rest)
    /\ UNCHANGED <<history, drawn, registered, othersDone, terms>>

(* assertCompiledPolicy, exportRecoveryKit and the completed bundle.       *)
ProtectKey(q) ==
    LET b == Completed(page[q].bundle, page[q].key) IN
    /\ At(q, "created")
    /\ Compiled(page[q].key, page[q].policy)
    /\ Save(q, b)
    /\ Goes(q, [page[q] EXCEPT !.step = "protected", !.bundle = b])
    /\ UNCHANGED <<drawn, registered, othersDone, terms, service>>

PublishRegistration(q) ==
    /\ At(q, "protected")
    /\ Register(page[q].key, page[q].policy)
    /\ Goes(q, Rest)
    /\ UNCHANGED <<history, drawn, othersDone, terms, service>>

(* Every error, a closed tab, a lost answer, the end of the lease.         *)
StopPage(q) ==
    /\ ~At(q, "idle")
    /\ Goes(q, Rest)
    /\ UNCHANGED <<history, drawn, registered, othersDone, terms, service>>

-----------------------------------------------------------------------------
(* Around the page.                                                        *)

OthersFinish ==
    /\ ~othersDone
    /\ othersDone' = TRUE
    /\ UNCHANGED <<history, drawn, registered, terms, page, service>>

(* A deployment with other economics.                                      *)
Redeploy ==
    /\ terms' \in Terms \ {terms}
    /\ UNCHANGED <<history, drawn, registered, othersDone, page, service>>

CustodyNext ==
    \/ \E q \in Pages :
        \/ AuthorizeCustody(q) \/ OpenCustody(q) \/ ReadManifest(q)
        \/ PublishProtected(q) \/ Reserve(q) \/ ListKeys(q) \/ CreateKey(q)
        \/ ProtectKey(q) \/ PublishRegistration(q) \/ StopPage(q)
    \/ OthersFinish \/ Redeploy
    \/ LateCreation /\ UNCHANGED custody

-----------------------------------------------------------------------------
(* Properties.                                                             *)

(* The newest bundle gives the participant the means to use, or to go on   *)
(* creating, the key at this index of this organization.                   *)
Recoverable(o, i, policy) ==
    /\ Latest.org = o
    /\ \E r \in Rounds :
        /\ IndexOf(r) = i
        /\ \/ [org |-> o, round |-> r, policy |-> policy] \in Latest.keys
           \/ Latest.pending = r

(* Whatever the service has created or may yet create for a page belongs   *)
(* to the credentials on record, and is on record itself.                  *)
PageKeysAreRecoverable ==
    /\ \A o \in Orgs, i \in Indexes : live[o][i] # None => Recoverable(o, i, live[o][i])
    /\ \A r \in late : live[r.org][r.index] = None => Recoverable(r.org, r.index, r.policy)

(* A registered key is the live key and its recovery kit is on record.     *)
RegisteredAreProtected ==
    \A r \in Rounds : registered[r] # None =>
        /\ registered[r].round = r
        /\ registered[r] \in Latest.keys
        /\ registered[r] = KeyAt(Latest.org, r)

(* The policy of the key that is live where the next one belongs, if any.  *)
Left == live[Latest.org][IndexOf(NextRound)]

(* Under these economics the next key's policy is not another than that of *)
(* the key left there.                                                     *)
Undisputed(t) == Left \in {None, PolicyOf(NextRound, t)}

(* An attempt that unlocks the newest bundle now, undisturbed under these  *)
(* economics, gets through every check of the page and of the server.      *)
Passes(t) ==
    LET r == NextRound
        b == Latest
        policy == PolicyOf(r, t)
        key == [org |-> b.org, round |-> r, policy |-> IF Left = None THEN policy ELSE Left] IN
    /\ Agrees(b, r)
    /\ \A k \in KeyFor(b, r) : Compiled(k, policy)
    /\ KeyFor(b, r) = {} =>
           /\ HasRoom(b, Len(history) + 1)
           /\ MayList(b, r)
           /\ ValidBundle(Pending(b, r))
           /\ Compiled(key, policy) /\ ValidBundle(Completed(b, key))

(* Whatever earlier attempts have left, the next one gets through under    *)
(* economics that do not contradict the key left at the service, and there *)
(* are such economics: those the key was made for.                         *)
PageCanGoOn ==
    history # <<>> /\ NextRound # None =>
        /\ \E t \in Terms : Undisputed(t)
        /\ \A t \in Terms : Undisputed(t) => Passes(t)
=============================================================================
