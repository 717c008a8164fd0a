--------------------------- MODULE OperatorSetup ----------------------------
(***************************************************************************)
(* sigbash-live-setup, the operator's command that creates one immutable   *)
(* key for every slot (a participant and a round it can leave in), for all *)
(* participants with one set of credentials.  The command may die at any   *)
(* step and is run again until it has finished; what a run knows is what   *)
(* it read from the two files, the journal of recovery kits and the        *)
(* checkpoint of finished slots, to which it appends a line at a time.     *)
(* One run at a time.                                                      *)
(***************************************************************************)
EXTENDS SigbashOrganization, Sequences, FiniteSets

CONSTANTS
    SlotOrder, \* the slots [who, round] in the order of the command
    Operator   \* the credentials it uses

Slots == {SlotOrder[n] : n \in DOMAIN SlotOrder}

ASSUME OperatorAssumption ==
    /\ Operator \in Orgs
    /\ SlotOrder \in Seq(Slots)
    /\ None \notin Slots /\ None \notin Indexes
    /\ IsFiniteSet(Indexes)
    /\ \A i \in Indexes : i < Cardinality(Indexes)
    /\ Len(SlotOrder) <= Cardinality(Indexes)

VARIABLES
    journal,    \* recovery-kits.jsonl: the index of the key of a slot
    checkpoint, \* setup-checkpoint.jsonl: the same, of a finished slot
    run         \* [step, n: the slot under way, index: its key]

files == <<journal, checkpoint>>
operator == <<files, run>>

Stopped == [step |-> "stopped", n |-> 1, index |-> None]

OperatorInit ==
    /\ journal = [s \in Slots |-> None]
    /\ checkpoint = [s \in Slots |-> None]
    /\ run = Stopped

Done(s) == checkpoint[s] # None
Slot == SlotOrder[run.n]
Step(step) == run.step = step
Proceed(step, index) == run' = [run EXCEPT !.step = step, !.index = index]

-----------------------------------------------------------------------------
(* The journal and the checkpoint.                                         *)

(* readSigbashRecoveryJournal: no key is the key of two slots of one       *)
(* participant; and every finished slot has a kit of its very key.         *)
FilesAreSound ==
    /\ \A s, t \in Slots :
           s.who = t.who /\ journal[s] # None /\ journal[s] = journal[t] => s = t
    /\ \A s \in Slots : Done(s) => journal[s] = checkpoint[s]

(* findMatchingSigbashKey, which refuses more than one.                    *)
Matching(policy) == {i \in Occupied(Operator) : live[Operator][i] = policy}

(* The live key of a slot whose kit is in the journal must be that key.    *)
KitFits(s) == journal[s] # None => journal[s] \in Matching(s)

(* firstUnusedSigbashKeyIndex.                                             *)
FirstUnused ==
    CHOOSE i \in Indexes \ Occupied(Operator) :
        \A j \in Indexes \ Occupied(Operator) : i <= j

(* readProvisioningKeys: the refusal is accepted of a participant without  *)
(* a key on file.                                                          *)
NewParticipant(s) == \A t \in Slots : t.who = s.who => journal[t] = None /\ ~Done(t)

-----------------------------------------------------------------------------
(* The command.                                                            *)

StartRun ==
    /\ Step("stopped")
    /\ FilesAreSound
    /\ run' = [Stopped EXCEPT !.step = "slot"]
    /\ UNCHANGED <<files, service>>

SkipSlot ==
    /\ Step("slot") /\ run.n <= Len(SlotOrder)
    /\ Done(Slot)
    /\ run' = [run EXCEPT !.n = @ + 1]
    /\ UNCHANGED <<files, service>>

(* registerKey: the slot's key is looked for before one is created.        *)
LookForKey ==
    /\ Step("slot") /\ run.n <= Len(SlotOrder)
    /\ ~Done(Slot)
    /\ Answers(Operator) \/ NewParticipant(Slot)
    /\ Cardinality(Matching(Slot)) <= 1
    /\ KitFits(Slot)
    /\ \/ \E i \in Matching(Slot) : Proceed("created", i)
       \/ /\ Matching(Slot) = {}
          /\ Occupied(Operator) # Indexes
          /\ Proceed("absent", FirstUnused)
    /\ UNCHANGED <<files, service>>

CreateSlotKey ==
    /\ Step("absent")
    /\ \/ Creates(Operator, run.index, Slot) /\ Proceed("created", run.index)
       \/ CreationLost(Operator, run.index, Slot) /\ Proceed("unsure", run.index)
       \/ /\ run.index \in Occupied(Operator)
          /\ Proceed("unsure", run.index)
          /\ UNCHANGED service
    /\ UNCHANGED files

(* createKeyWithReconciledOutcome: only the key that was asked for, at the *)
(* index it was asked for, ends the doubt; otherwise the run fails.        *)
ReconcileOutcome ==
    /\ Step("unsure")
    /\ Answers(Operator)
    /\ Matching(Slot) = {run.index}
    /\ Proceed("created", run.index)
    /\ UNCHANGED <<files, service>>

(* The key is not on file for another slot of the participant.             *)
KitIsNew(s, i) == \A t \in Slots : t.who = s.who => journal[t] # i

(* exportRecoveryKit and appendSigbashRecoveryRecord.                      *)
StoreKit ==
    /\ Step("created")
    /\ \/ /\ journal[Slot] = None
          /\ KitIsNew(Slot, run.index)
          /\ journal' = [journal EXCEPT ![Slot] = run.index]
       \/ journal[Slot] # None /\ UNCHANGED journal
    /\ Proceed("kept", run.index)
    /\ UNCHANGED <<checkpoint, service>>

(* Mutant: the checkpoint is written before the kit is kept.               *)
CheckpointFirst ==
    /\ run.step \in {"created", "kept"}
    /\ checkpoint' = [checkpoint EXCEPT ![Slot] = run.index]
    /\ run' = [run EXCEPT !.step = "slot", !.n = @ + 1, !.index = None]
    /\ UNCHANGED <<journal, service>>

CheckpointSlot ==
    /\ Step("kept")
    /\ checkpoint' = [checkpoint EXCEPT ![Slot] = run.index]
    /\ run' = [run EXCEPT !.step = "slot", !.n = @ + 1, !.index = None]
    /\ UNCHANGED <<journal, service>>

(* The end of the run: it has finished, or an error or a crash stops it.   *)
StopRun ==
    /\ ~Step("stopped")
    /\ run' = Stopped
    /\ UNCHANGED <<files, service>>

OperatorNext ==
    \/ StartRun \/ SkipSlot \/ LookForKey \/ CreateSlotKey \/ ReconcileOutcome
    \/ StoreKit \/ CheckpointSlot \/ StopRun
    \/ LateCreation /\ UNCHANGED operator

-----------------------------------------------------------------------------
(* Properties.                                                             *)

(* The first slot that is not finished: the one a next run comes to.       *)
UnderWay == {s \in Slots : ~Done(s) /\
    \E n \in DOMAIN SlotOrder : SlotOrder[n] = s /\ \A m \in 1..(n - 1) : Done(SlotOrder[m])}

(* Every live key is a slot's only one, and the next run finds it in the   *)
(* checkpoint or comes to its slot; so will it every key that may yet be   *)
(* created.                                                                *)
OperatorKeysAreRecoverable ==
    /\ \A i, j \in Occupied(Operator) : live[Operator][i] = live[Operator][j] => i = j
    /\ \A i \in Occupied(Operator) :
           checkpoint[live[Operator][i]] = i \/ live[Operator][i] \in UnderWay
    /\ \A r \in late : live[r.org][r.index] = None =>
           r.policy \in UnderWay /\ Matching(r.policy) = {}

(* A finished slot has its recovery kit, of the live key.                  *)
FinishedAreProtected ==
    \A s \in Slots : Done(s) => journal[s] = checkpoint[s] /\ checkpoint[s] \in Matching(s)

(* No check on the way of a next run refuses it: of the files, of the keys *)
(* it finds, of the index it asks for, or of the kit it stores.            *)
RunCanGoOn ==
    /\ FilesAreSound
    /\ \A s \in UnderWay :
           /\ Cardinality(Matching(s)) <= 1 /\ KitFits(s)
           /\ Answers(Operator) \/ NewParticipant(s)
           /\ Matching(s) = {} => Occupied(Operator) # Indexes
           /\ journal[s] = None =>
                  \A i \in Matching(s) \cup (Indexes \ Occupied(Operator)) : KitIsNew(s, i)
=============================================================================
