------------------------- MODULE SigbashKeysProofs --------------------------
(***************************************************************************)
(* Proofs about module SigbashKeys, for any number of slots, tabs, terms   *)
(* and revisions that a history of three keys fits in.  Each of the two    *)
(* clients has an invariant of its own: OInv for the operator's command,   *)
(* CInv for the tabs.                                                      *)
(***************************************************************************)
EXTENDS SigbashKeys, SequenceTheorems, FiniteSetTheorems, FunctionTheorems,
        WellFoundedInduction, TLAPS

(* A set of numbers that is not empty has a smallest one.                  *)
LEMMA Smallest ==
    ASSUME NEW S \in SUBSET Nat, S # {}
    PROVE  \E n \in S : \A m \in S : n <= m
<1>1. PICK n \in S : \A m \in S : ~(<<m, n>> \in OpToRel(<, Nat))
  BY NatLessThanWellFounded, WFMin
<1>2. \A m \in S : ~(m < n)
  BY <1>1 DEF OpToRel
<1> QED
  BY <1>2

-----------------------------------------------------------------------------
(* The operator's command.                                                 *)

(* What the command's files, its run and the service know of each other.   *)
OperatorTypes ==
    /\ live \in [Orgs -> [Indexes -> Slots \cup {None}]]
    /\ late \subseteq [org : {Operator}, index : Indexes, policy : Slots]
    /\ journal \in [Slots -> Indexes \cup {None}]
    /\ checkpoint \in [Slots -> Indexes \cup {None}]
    /\ run \in [step : {"stopped", "slot", "absent", "unsure", "created", "kept"},
                n : 1 .. Len(SlotOrder) + 1, index : Indexes \cup {None}]

(* Every key on file is the live key of its slot, every live key is its    *)
(* slot's only one and on file or under way; a creation that may still be  *)
(* carried out is of the slot under way, at the index every run will ask   *)
(* for as long as it is not.                                               *)
FilesOK ==
    /\ \A i, j \in Occupied(Operator) : live[Operator][i] = live[Operator][j] => i = j
    /\ \A i \in Occupied(Operator) :
           checkpoint[live[Operator][i]] = i \/ live[Operator][i] \in UnderWay
    /\ \A s \in Slots : journal[s] # None => journal[s] \in Matching(s)
    /\ \A s \in Slots : Done(s) => journal[s] = checkpoint[s]
    /\ \A r \in late : live[Operator][r.index] = None =>
           r.policy \in UnderWay /\ Matching(r.policy) = {} /\ r.index = FirstUnused

(* The run is at the first slot that is not finished, and what it believes *)
(* of the key is what the service holds, or would.                         *)
RunOK ==
    /\ run.step # "stopped" => \A m \in 1 .. (run.n - 1) : Done(SlotOrder[m])
    /\ run.step \in {"absent", "unsure", "created", "kept"} =>
           run.n <= Len(SlotOrder) /\ ~Done(Slot) /\ run.index \in Indexes
    /\ run.step \in {"absent", "unsure"} =>
           IF Matching(Slot) = {} THEN run.index = FirstUnused ELSE Matching(Slot) = {run.index}
    /\ run.step \in {"created", "kept"} => Matching(Slot) = {run.index}
    /\ run.step = "kept" => journal[Slot] = run.index

(* The invariant of the command.                                           *)
OInv == OperatorTypes /\ FilesOK /\ RunOK

(* What the proofs need of the constants.                                  *)
LEMMA OperatorConstants ==
    /\ Operator \in Orgs /\ Indexes \subseteq Nat
    /\ None \notin Slots /\ None \notin Indexes
    /\ Len(SlotOrder) \in Nat /\ DOMAIN SlotOrder = 1 .. Len(SlotOrder)
    /\ \A n \in 1 .. Len(SlotOrder) : SlotOrder[n] \in Slots
BY OperatorAssumption, OrganizationAssumption DEF Slots

(* While an index is free, the command has one to ask for.                 *)
LEMMA FirstUnusedIsFree ==
    ASSUME Occupied(Operator) # Indexes
    PROVE  FirstUnused \in Indexes \ Occupied(Operator)
<1> DEFINE Free == Indexes \ Occupied(Operator)
<1>1. Free \in SUBSET Nat /\ Free # {}
  BY OperatorConstants DEF Occupied
<1>2. \E i \in Free : \A j \in Free : i <= j
  BY <1>1, Smallest
<1> QED
  BY <1>2 DEF FirstUnused

(* There is one slot under way at most, and a run comes to it.             *)
LEMMA OneUnderWay ==
    ASSUME NEW s \in UnderWay, NEW t \in UnderWay
    PROVE  s = t
<1>1. PICK m \in 1 .. Len(SlotOrder) :
         SlotOrder[m] = s /\ \A k \in 1 .. (m - 1) : Done(SlotOrder[k])
  BY OperatorConstants DEF UnderWay
<1>2. PICK n \in 1 .. Len(SlotOrder) :
         SlotOrder[n] = t /\ \A k \in 1 .. (n - 1) : Done(SlotOrder[k])
  BY OperatorConstants DEF UnderWay
<1>3. ~Done(s) /\ ~Done(t)
  BY DEF UnderWay
<1>4. m <= n /\ n <= m
  BY <1>1, <1>2, <1>3, OperatorConstants
<1> QED
  BY <1>1, <1>2, <1>4, OperatorConstants

(* The slot a run is at has no finished key.                               *)
LEMMA RunIsUnderWay ==
    ASSUME OInv, run.step # "stopped", run.n <= Len(SlotOrder), ~Done(Slot)
    PROVE  Slot \in UnderWay
<1>1. run.n \in 1 .. Len(SlotOrder)
  BY OperatorConstants DEF OInv, OperatorTypes
<1> QED
  BY <1>1, OperatorConstants DEF OInv, RunOK, UnderWay, Slot

(* The service creates the key of the slot under way.                      *)
LEMMA CreatedKey ==
    ASSUME OperatorTypes, NEW i \in Indexes, NEW s \in Slots,
           live[Operator][i] = None, live' = [live EXCEPT ![Operator][i] = s]
    PROVE  /\ Occupied(Operator)' = Occupied(Operator) \cup {i}
           /\ Matching(s)' = Matching(s) \cup {i}
           /\ \A t \in Slots : t # s => Matching(t)' = Matching(t)
           /\ \A j \in Indexes : j # i => live'[Operator][j] = live[Operator][j]
           /\ live'[Operator][i] = s
           /\ live' \in [Orgs -> [Indexes -> Slots \cup {None}]]
<1>1. live'[Operator] = [live[Operator] EXCEPT ![i] = s]
  BY OperatorConstants DEF OperatorTypes
<1>2. live[Operator] \in [Indexes -> Slots \cup {None}]
  BY OperatorConstants DEF OperatorTypes
<1>3. /\ live'[Operator][i] = s
      /\ \A j \in Indexes : j # i => live'[Operator][j] = live[Operator][j]
  BY <1>1, <1>2
<1>4. Occupied(Operator)' = Occupied(Operator) \cup {i}
  BY <1>3, OperatorConstants DEF Occupied
<1>5. live' \in [Orgs -> [Indexes -> Slots \cup {None}]]
  BY <1>1, <1>2, OperatorConstants DEF OperatorTypes
<1>6. \A t \in Slots : Matching(t)' = {j \in Occupied(Operator) \cup {i} : live'[Operator][j] = t}
  BY <1>4 DEF Matching
<1>7. i \notin Occupied(Operator) /\ Occupied(Operator) \subseteq Indexes
  BY DEF Occupied
<1>8. Matching(s)' = Matching(s) \cup {i}
  BY <1>3, <1>6, <1>7 DEF Matching
<1>9. ASSUME NEW t \in Slots, t # s PROVE Matching(t)' = Matching(t)
  BY <1>3, <1>6, <1>7, <1>9 DEF Matching
<1> QED
  BY <1>3, <1>4, <1>5, <1>8, <1>9

(* A key that is created at the first free index belongs to the slot under *)
(* way, and to no other.                                                   *)
LEMMA CreatedKeyOnFile ==
    ASSUME OInv, NEW s \in UnderWay, Matching(s) = {}, Occupied(Operator) # Indexes,
           live' = [live EXCEPT ![Operator][FirstUnused] = s],
           late' \subseteq late, UNCHANGED files
    PROVE  FilesOK' /\ Matching(s)' = {FirstUnused} /\ live' \in [Orgs -> [Indexes -> Slots \cup {None}]]
<1> DEFINE i == FirstUnused
<1>1. i \in Indexes /\ live[Operator][i] = None
  BY FirstUnusedIsFree DEF Occupied
<1>2. s \in Slots
  BY DEF UnderWay
<1>3. /\ Occupied(Operator)' = Occupied(Operator) \cup {i}
      /\ Matching(s)' = {i}
      /\ \A t \in Slots : t # s => Matching(t)' = Matching(t)
      /\ \A j \in Indexes : j # i => live'[Operator][j] = live[Operator][j]
      /\ live'[Operator][i] = s
      /\ live' \in [Orgs -> [Indexes -> Slots \cup {None}]]
  BY <1>1, <1>2, CreatedKey DEF OInv
<1> HIDE DEF i
<1>4. UnderWay' = UnderWay
  BY DEF UnderWay, files, Done
<1>5. \A j \in Occupied(Operator) : live'[Operator][j] = live[Operator][j] /\ live[Operator][j] # s
  BY <1>1, <1>3 DEF Occupied, Matching
<1>6. \A j, k \in Occupied(Operator)' : live'[Operator][j] = live'[Operator][k] => j = k
  BY <1>3, <1>5 DEF OInv, FilesOK
<1>7. \A j \in Occupied(Operator)' :
         checkpoint'[live'[Operator][j]] = j \/ live'[Operator][j] \in UnderWay'
  BY <1>3, <1>4, <1>5 DEF OInv, FilesOK, files
<1>8. \A t \in Slots : journal'[t] # None => journal'[t] \in Matching(t)'
  BY <1>3 DEF OInv, FilesOK, files
<1>9. \A t \in Slots : Done(t)' => journal'[t] = checkpoint'[t]
  BY DEF OInv, FilesOK, files, Done
<1>10. \A r \in late' : live'[Operator][r.index] # None
  <2> SUFFICES ASSUME NEW r \in late' PROVE live'[Operator][r.index] # None
    OBVIOUS
  <2>1. r \in late /\ r.index \in Indexes
    BY DEF OInv, OperatorTypes
  <2>2. CASE live[Operator][r.index] = None
    BY <1>2, <1>3, <2>1, <2>2, OperatorConstants DEF OInv, FilesOK, i
  <2>3. CASE live[Operator][r.index] # None
    BY <1>1, <1>3, <2>1, <2>3
  <2> QED
    BY <2>2, <2>3
<1> QED
  BY <1>3, <1>6, <1>7, <1>8, <1>9, <1>10 DEF FilesOK, i

(* A creation whose client gave up is carried out.                         *)
LEMMA LateKeyOnFile ==
    ASSUME OInv, LateCreation, UNCHANGED operator
    PROVE  OInv'
<1>1. PICK r \in late :
         /\ live[r.org][r.index] = None
         /\ live' = [live EXCEPT ![r.org][r.index] = r.policy]
         /\ late' = late \ {r}
  BY DEF LateCreation
<1>2. r.org = Operator /\ r.index \in Indexes /\ r.policy \in Slots
  BY DEF OInv, OperatorTypes
<1>3. r.policy \in UnderWay /\ Matching(r.policy) = {} /\ r.index = FirstUnused
  BY <1>1, <1>2 DEF OInv, FilesOK
<1>4. Occupied(Operator) # Indexes
  BY <1>1, <1>2 DEF Occupied
<1>5. /\ FilesOK' /\ Matching(r.policy)' = {FirstUnused}
      /\ live' \in [Orgs -> [Indexes -> Slots \cup {None}]]
  BY <1>1, <1>2, <1>3, <1>4, CreatedKeyOnFile DEF operator
<1>6. OperatorTypes'
  BY <1>1, <1>5 DEF OInv, OperatorTypes, operator, files
<1>7. RunOK'
  <2>1. Slot' = Slot /\ run' = run /\ \A s \in Slots : Done(s)' = Done(s)
    BY DEF operator, files, Slot, Done
  <2>2. run.step # "stopped" => \A m \in 1 .. (run.n - 1) : Done(SlotOrder[m])'
    BY <2>1 DEF OInv, RunOK, Done, operator, files
  <2>3. CASE run.step \in {"absent", "unsure", "created", "kept"}
    <3>1. run.n <= Len(SlotOrder) /\ ~Done(Slot) /\ run.index \in Indexes /\ Slot \in UnderWay
      BY <2>3, RunIsUnderWay DEF OInv, RunOK
    <3>2. Slot = r.policy
      BY <1>3, <3>1, OneUnderWay
    <3>3. run.step \in {"absent", "unsure"} /\ run.index = FirstUnused
      BY <1>3, <2>3, <3>2 DEF OInv, RunOK
    <3>4. Matching(Slot)' = {run.index}
      BY <1>5, <2>1, <3>2, <3>3
    <3>5. ~Done(Slot)'
      BY <2>1, <3>1 DEF Done, operator, files
    <3> QED
      BY <2>1, <2>2, <3>1, <3>3, <3>4, <3>5 DEF RunOK
  <2>4. CASE run.step \notin {"absent", "unsure", "created", "kept"}
    BY <2>1, <2>2, <2>4 DEF RunOK
  <2> QED
    BY <2>3, <2>4
<1> QED
  BY <1>5, <1>6, <1>7 DEF OInv

(* The command asks for a key, and is answered or not.                     *)
LEMMA CreateSlotKeyStep ==
    ASSUME OInv, CreateSlotKey
    PROVE  OInv'
<1>1. /\ run.step = "absent" /\ run.n <= Len(SlotOrder) /\ ~Done(Slot)
      /\ run.index \in Indexes
      /\ UNCHANGED files
  BY DEF OInv, RunOK, CreateSlotKey, Step
<1>2. Slot \in UnderWay /\ Slot \in Slots
  BY <1>1, RunIsUnderWay DEF UnderWay
<1>3. live[Operator][run.index] = None =>
         Matching(Slot) = {} /\ run.index = FirstUnused /\ Occupied(Operator) # Indexes
  BY <1>1, OperatorConstants DEF OInv, RunOK, Matching, Occupied
<1>4. \A m \in 1 .. (run.n - 1) : Done(SlotOrder[m])'
  BY <1>1 DEF OInv, RunOK, Done, files
<1>5. ASSUME NEW step, Proceed(step, run.index)
      PROVE  run'.step = step /\ run'.n = run.n /\ run'.index = run.index /\ Slot' = Slot
  BY <1>5 DEF Proceed, OInv, OperatorTypes, Slot
<1>6. ~Done(Slot) /\ (Slot' = Slot => ~Done(Slot)')
  BY <1>1 DEF Done, files
<1>7. ASSUME NEW step \in {"created", "unsure"}, Proceed(step, run.index)
      PROVE  run' \in [step : {"stopped", "slot", "absent", "unsure", "created", "kept"},
                       n : 1 .. Len(SlotOrder) + 1, index : Indexes \cup {None}]
  BY <1>7 DEF Proceed, OInv, OperatorTypes
<1>8. ASSUME Creates(Operator, run.index, Slot), Proceed("created", run.index)
      PROVE  OInv'
  <2>1. /\ FilesOK' /\ Matching(Slot)' = {run.index}
        /\ live' \in [Orgs -> [Indexes -> Slots \cup {None}]]
    <3>1. live[Operator][run.index] = None
          /\ live' = [live EXCEPT ![Operator][run.index] = Slot] /\ late' = late
      BY <1>8 DEF Creates
    <3>2. live' = [live EXCEPT ![Operator][FirstUnused] = Slot] /\ late' \subseteq late
      BY <1>3, <3>1
    <3>3. PICK s \in UnderWay : s = Slot
      BY <1>2
    <3>4. /\ FilesOK' /\ Matching(s)' = {FirstUnused}
          /\ live' \in [Orgs -> [Indexes -> Slots \cup {None}]]
      BY <1>1, <1>3, <3>1, <3>2, <3>3, CreatedKeyOnFile
    <3>5. Slot' = s /\ FirstUnused = run.index
      BY <1>3, <1>5, <1>8, <3>1, <3>3
    <3> QED
      BY <3>4, <3>5 DEF Matching
  <2>2. OperatorTypes'
    BY <1>1, <1>7, <1>8, <2>1 DEF OInv, OperatorTypes, Creates, files
  <2>3. RunOK'
    BY <1>1, <1>4, <1>5, <1>6, <1>8, <2>1 DEF RunOK
  <2> QED
    BY <2>1, <2>2, <2>3 DEF OInv
<1>9. ASSUME CreationLost(Operator, run.index, Slot), Proceed("unsure", run.index)
      PROVE  OInv'
  <2>1. \A s \in Slots : Matching(s)' = Matching(s)
    BY <1>9 DEF CreationLost, Matching, Occupied
  <2>2. FirstUnused' = FirstUnused /\ UnderWay' = UnderWay /\ Occupied(Operator)' = Occupied(Operator)
    BY <1>1, <1>9 DEF CreationLost, FirstUnused, Occupied, UnderWay, Done, files
  <2>3. OperatorTypes'
    BY <1>1, <1>2, <1>7, <1>9 DEF OInv, OperatorTypes, CreationLost, files
  <2>4. \A r \in late' : live'[Operator][r.index] = None =>
           r.policy \in UnderWay' /\ Matching(r.policy)' = {} /\ r.index = FirstUnused'
    <3> SUFFICES ASSUME NEW r \in late', live'[Operator][r.index] = None
                 PROVE  r.policy \in UnderWay' /\ Matching(r.policy)' = {} /\ r.index = FirstUnused'
      OBVIOUS
    <3>1. CASE r \in late
      <4>1. r.policy \in UnderWay /\ Matching(r.policy) = {} /\ r.index = FirstUnused
        BY <1>9, <3>1 DEF OInv, FilesOK, CreationLost
      <4> QED
        BY <1>9, <2>2, <4>1 DEF Matching, CreationLost
    <3>2. CASE r \notin late
      <4>1. r = [org |-> Operator, index |-> run.index, policy |-> Slot]
        BY <1>9, <3>2 DEF CreationLost
      <4>2. r.policy = Slot /\ r.index = run.index /\ live[Operator][run.index] = None
        BY <1>9, <4>1 DEF CreationLost
      <4>3. Matching(Slot) = {} /\ run.index = FirstUnused
        BY <1>3, <4>2
      <4> QED
        BY <1>2, <1>9, <2>2, <4>2, <4>3 DEF Matching, CreationLost
    <3> QED
      BY <3>1, <3>2
  <2>5. FilesOK'
    BY <1>1, <1>9, <2>1, <2>2, <2>4 DEF OInv, FilesOK, CreationLost, files, Done
  <2>6. RunOK'
    BY <1>1, <1>2, <1>4, <1>5, <1>6, <1>9, <2>1, <2>2 DEF OInv, RunOK
  <2> QED
    BY <2>3, <2>5, <2>6 DEF OInv
<1>10. ASSUME Proceed("unsure", run.index), UNCHANGED service
       PROVE  OInv'
  <2>1. /\ \A s \in Slots : Matching(s)' = Matching(s)
        /\ FirstUnused' = FirstUnused /\ UnderWay' = UnderWay
        /\ Occupied(Operator)' = Occupied(Operator)
    BY <1>1, <1>10 DEF Matching, FirstUnused, Occupied, UnderWay, Done, files, service
  <2>2. OperatorTypes'
    BY <1>1, <1>7, <1>10 DEF OInv, OperatorTypes, service, files
  <2>3. FilesOK'
    BY <1>1, <1>10 DEF OInv, FilesOK, Matching, FirstUnused, Occupied, UnderWay, Done, files, service
  <2>4. RunOK'
    BY <1>1, <1>2, <1>4, <1>5, <1>6, <1>10, <2>1 DEF OInv, RunOK
  <2> QED
    BY <2>2, <2>3, <2>4 DEF OInv
<1> QED
  BY <1>8, <1>9, <1>10 DEF CreateSlotKey

(* The service and the checkpoint stay, and with them all that is said of  *)
(* the keys.                                                               *)
LEMMA SameKeys ==
    ASSUME UNCHANGED <<service, checkpoint>>
    PROVE  /\ \A s \in Slots : Matching(s)' = Matching(s) /\ Done(s)' = Done(s)
           /\ FirstUnused' = FirstUnused /\ UnderWay' = UnderWay
           /\ Occupied(Operator)' = Occupied(Operator)
BY DEF Matching, FirstUnused, Occupied, UnderWay, Done, service

(* Where service and files stay, what they know of each other does.        *)
LEMMA SameFiles ==
    ASSUME OInv, UNCHANGED <<service, files>>
    PROVE  FilesOK'
BY DEF OInv, FilesOK, Matching, FirstUnused, Occupied, UnderWay, Done, files, service

(* A run starts, goes on to the next slot, or stops.                       *)
LEMMA BetweenSlotsStep ==
    ASSUME OInv, StartRun \/ SkipSlot \/ StopRun
    PROVE  OInv'
<1>1. UNCHANGED <<service, files>>
  BY DEF StartRun, SkipSlot, StopRun
<1>2. ASSUME StartRun \/ StopRun PROVE OInv'
  <2>1. run' \in {Stopped, [Stopped EXCEPT !.step = "slot"]}
    BY <1>2 DEF StartRun, StopRun
  <2>2. run'.n = 1 /\ run'.step \in {"stopped", "slot"} /\ run'.index = None
    BY <2>1 DEF Stopped
  <2>3. OperatorTypes'
    BY <1>1, <2>1, OperatorConstants DEF OInv, OperatorTypes, service, files, Stopped
  <2>4. RunOK'
    BY <2>2 DEF RunOK
  <2> QED
    BY <1>1, <2>3, <2>4, SameFiles DEF OInv
<1>3. ASSUME SkipSlot PROVE OInv'
  <2>1. /\ run.step = "slot" /\ run.n <= Len(SlotOrder) /\ Done(Slot)
        /\ run' = [run EXCEPT !.n = @ + 1]
    BY <1>3 DEF SkipSlot, Step
  <2>2. run'.step = "slot" /\ run'.n = run.n + 1 /\ run.n \in Nat
    BY <2>1, OperatorConstants DEF OInv, OperatorTypes
  <2>3. OperatorTypes'
    <3>1. run.n + 1 \in 1 .. Len(SlotOrder) + 1
      BY <2>1, <2>2, OperatorConstants DEF OInv, OperatorTypes
    <3>2. run' \in [step : {"stopped", "slot", "absent", "unsure", "created", "kept"},
                    n : 1 .. Len(SlotOrder) + 1, index : Indexes \cup {None}]
      BY <2>1, <3>1 DEF OInv, OperatorTypes
    <3> QED
      BY <1>1, <3>2 DEF OInv, OperatorTypes, service, files
  <2>4. \A m \in 1 .. run.n : Done(SlotOrder[m])'
    BY <1>1, <2>1, <2>2 DEF OInv, RunOK, Slot, Done, files
  <2>5. RunOK'
    BY <2>2, <2>4 DEF RunOK
  <2> QED
    BY <1>1, <2>3, <2>5, SameFiles DEF OInv
<1> QED
  BY <1>2, <1>3

(* A run looks for the key of its slot and finds it, or decides to ask     *)
(* for one; it learns that the key in doubt is there after all.            *)
LEMMA LookingStep ==
    ASSUME OInv, LookForKey \/ ReconcileOutcome
    PROVE  OInv'
<1>1. UNCHANGED <<service, files>> /\ UNCHANGED checkpoint
  BY DEF LookForKey, ReconcileOutcome, files
<1>2. /\ run.step \in {"slot", "unsure"} /\ run.n <= Len(SlotOrder) /\ ~Done(Slot)
  BY DEF OInv, RunOK, LookForKey, ReconcileOutcome, Step
<1>3. Matching(Slot) \subseteq Indexes
  BY DEF Matching, Occupied
<1>4. PICK step \in {"created", "absent"}, i \in Indexes :
         /\ run' = [run EXCEPT !.step = step, !.index = i]
         /\ IF step = "created" THEN Matching(Slot) = {i}
                                ELSE Matching(Slot) = {} /\ i = FirstUnused
  <2>1. CASE ReconcileOutcome
    BY <1>3, <2>1 DEF ReconcileOutcome, Proceed
  <2>2. CASE LookForKey /\ \E i \in Matching(Slot) : Proceed("created", i)
    <3>1. PICK i \in Matching(Slot) : Proceed("created", i)
      BY <2>2
    <3>2. \A j, k \in Matching(Slot) : j = k
      BY DEF Matching, OInv, FilesOK
    <3> QED
      BY <1>3, <3>1, <3>2 DEF Proceed
  <2>3. CASE LookForKey /\ Matching(Slot) = {} /\ Occupied(Operator) # Indexes
             /\ Proceed("absent", FirstUnused)
    BY <2>3, FirstUnusedIsFree DEF Proceed
  <2> QED
    BY <2>1, <2>2, <2>3 DEF LookForKey
<1>5. /\ run'.step = step /\ run'.index = i /\ run'.n = run.n /\ Slot' = Slot
      /\ run' \in [step : {"stopped", "slot", "absent", "unsure", "created", "kept"},
                   n : 1 .. Len(SlotOrder) + 1, index : Indexes \cup {None}]
  BY <1>4 DEF OInv, OperatorTypes, Slot
<1>6. OperatorTypes'
  BY <1>1, <1>5 DEF OInv, OperatorTypes, service, files
<1>7. Matching(Slot)' = Matching(Slot) /\ FirstUnused' = FirstUnused /\ ~Done(Slot)'
  BY <1>1, <1>2, <1>5, SameKeys DEF Matching, Done, Occupied, service
<1>8. \A m \in 1 .. (run'.n - 1) : Done(SlotOrder[m])'
  BY <1>1, <1>2, <1>5 DEF OInv, RunOK, Done
<1>9. RunOK'
  BY <1>2, <1>4, <1>5, <1>7, <1>8 DEF RunOK
<1> QED
  BY <1>1, <1>6, <1>9, SameFiles DEF OInv

(* The recovery kit is stored, unless it was before.                       *)
LEMMA StoreKitStep ==
    ASSUME OInv, StoreKit
    PROVE  OInv'
<1>1. /\ run.step = "created" /\ run.n <= Len(SlotOrder) /\ ~Done(Slot)
      /\ run.index \in Indexes /\ Matching(Slot) = {run.index}
      /\ UNCHANGED <<checkpoint, service>>
  BY DEF OInv, RunOK, StoreKit, Step
<1>2. Slot \in UnderWay /\ Slot \in Slots
  BY <1>1, RunIsUnderWay DEF UnderWay
<1>3. /\ run'.step = "kept" /\ run'.index = run.index /\ run'.n = run.n /\ Slot' = Slot
      /\ run' \in [step : {"stopped", "slot", "absent", "unsure", "created", "kept"},
                   n : 1 .. Len(SlotOrder) + 1, index : Indexes \cup {None}]
  BY DEF StoreKit, Proceed, OInv, OperatorTypes, Slot
<1>4. journal' \in [Slots -> Indexes \cup {None}] /\ journal'[Slot] = run.index
      /\ \A s \in Slots : s # Slot => journal'[s] = journal[s]
  <2>1. CASE journal' = [journal EXCEPT ![Slot] = run.index]
    BY <1>1, <1>2, <2>1 DEF OInv, OperatorTypes
  <2>2. CASE journal[Slot] # None /\ UNCHANGED journal
    BY <1>1, <1>2, <2>2 DEF OInv, OperatorTypes, FilesOK
  <2> QED
    BY <2>1, <2>2 DEF StoreKit
<1>5. OperatorTypes'
  BY <1>1, <1>3, <1>4 DEF OInv, OperatorTypes, service
<1>6. \A s \in Slots : Matching(s)' = Matching(s)
  BY <1>1, SameKeys
<1>7. \A s \in Slots : journal'[s] # None => journal'[s] \in Matching(s)'
  BY <1>1, <1>4, <1>6 DEF OInv, FilesOK
<1>8. \A s \in Slots : Done(s)' => journal'[s] = checkpoint'[s]
  BY <1>1, <1>4 DEF OInv, FilesOK, Done
<1>9. FilesOK'
  BY <1>1, <1>7, <1>8 DEF OInv, FilesOK, Matching, FirstUnused, Occupied, UnderWay, Done, service
<1>10. Matching(Slot)' = Matching(Slot) /\ ~Done(Slot)'
  BY <1>1, <1>3 DEF Matching, Done, Occupied, service
<1>11. \A m \in 1 .. (run'.n - 1) : Done(SlotOrder[m])'
  BY <1>1, <1>3 DEF OInv, RunOK, Done
<1>12. RunOK'
  BY <1>1, <1>3, <1>4, <1>10, <1>11 DEF RunOK
<1> QED
  BY <1>5, <1>9, <1>12 DEF OInv

(* The slot is finished, and the run goes on to the next.                  *)
LEMMA CheckpointSlotStep ==
    ASSUME OInv, CheckpointSlot
    PROVE  OInv'
<1>1. /\ run.step = "kept" /\ run.n <= Len(SlotOrder) /\ ~Done(Slot)
      /\ run.index \in Indexes /\ Matching(Slot) = {run.index}
      /\ journal[Slot] = run.index
      /\ UNCHANGED <<journal, service>>
  BY DEF OInv, RunOK, CheckpointSlot, Step
<1>2. Slot \in UnderWay /\ Slot \in Slots
  BY <1>1, RunIsUnderWay DEF UnderWay
<1>3. /\ checkpoint' \in [Slots -> Indexes \cup {None}] /\ checkpoint'[Slot] = run.index
      /\ \A s \in Slots : s # Slot => checkpoint'[s] = checkpoint[s]
  BY <1>1, <1>2 DEF CheckpointSlot, OInv, OperatorTypes
<1>4. /\ run'.step = "slot" /\ run'.n = run.n + 1 /\ run.n \in Nat
      /\ run' \in [step : {"stopped", "slot", "absent", "unsure", "created", "kept"},
                   n : 1 .. Len(SlotOrder) + 1, index : Indexes \cup {None}]
  <2>1. run.n \in 1 .. Len(SlotOrder) + 1
    BY DEF OInv, OperatorTypes
  <2>2. run.n \in Nat /\ run.n + 1 \in 1 .. Len(SlotOrder) + 1
    BY <1>1, <2>1, OperatorConstants
  <2>3. run' = [run EXCEPT !.step = "slot", !.n = run.n + 1, !.index = None]
    BY DEF CheckpointSlot
  <2> QED
    BY <2>2, <2>3 DEF OInv, OperatorTypes
<1>5. OperatorTypes'
  BY <1>1, <1>3, <1>4 DEF OInv, OperatorTypes, service
<1>6. /\ \A s \in Slots : Matching(s)' = Matching(s)
      /\ Occupied(Operator)' = Occupied(Operator)
  BY <1>1 DEF Matching, Occupied, service
<1>7. \A i \in Occupied(Operator) : live[Operator][i] \in Slots
  BY OperatorConstants DEF Occupied, OInv, OperatorTypes
<1>8. \A i \in Occupied(Operator) : checkpoint'[live[Operator][i]] = i
  <2> SUFFICES ASSUME NEW i \in Occupied(Operator)
               PROVE  checkpoint'[live[Operator][i]] = i
    OBVIOUS
  <2>1. CASE live[Operator][i] = Slot
    BY <1>1, <1>3, <2>1 DEF Matching
  <2>2. CASE live[Operator][i] # Slot
    BY <1>2, <1>3, <1>7, <2>2, OneUnderWay DEF OInv, FilesOK
  <2> QED
    BY <2>1, <2>2
<1>9. \A r \in late : live[Operator][r.index] # None
  BY <1>1, <1>2, OneUnderWay DEF OInv, FilesOK
<1>10. \A s \in Slots : Done(s)' => journal'[s] = checkpoint'[s]
  BY <1>1, <1>3 DEF OInv, FilesOK, Done
<1>11. FilesOK'
  BY <1>1, <1>6, <1>8, <1>9, <1>10 DEF OInv, FilesOK, service
<1>12. \A m \in 1 .. run.n : Done(SlotOrder[m])'
  <2> SUFFICES ASSUME NEW m \in 1 .. run.n PROVE Done(SlotOrder[m])'
    OBVIOUS
  <2>1. SlotOrder[m] = Slot \/ Done(SlotOrder[m])
    BY <1>1, <1>4 DEF OInv, RunOK, Slot
  <2>2. SlotOrder[m] \in Slots
    BY <1>1, <1>4, OperatorConstants
  <2> QED
    BY <1>1, <1>3, <2>1, <2>2, OperatorConstants DEF Done
<1>13. RunOK'
  BY <1>4, <1>12 DEF RunOK
<1> QED
  BY <1>5, <1>11, <1>13 DEF OInv

(* Every step of the command, its death and a late creation keep OInv.     *)
LEMMA OperatorStep ==
    ASSUME OInv, OperatorNext \/ UNCHANGED <<service, operator>>
    PROVE  OInv'
<1>1. ASSUME UNCHANGED <<service, operator>> PROVE OInv'
  BY <1>1 DEF OInv, OperatorTypes, FilesOK, RunOK, Slot, Matching, FirstUnused, Occupied,
     UnderWay, Done, operator, files, service
<1> QED
  BY <1>1, BetweenSlotsStep, LookingStep, CreateSlotKeyStep, StoreKitStep,
     CheckpointSlotStep, LateKeyOnFile DEF OperatorNext

(* No keys, no files, no run.                                              *)
LEMMA OperatorInitOK == ServiceInit /\ OperatorInit => OInv
<1> SUFFICES ASSUME ServiceInit, OperatorInit PROVE OInv
  OBVIOUS
<1>1. OperatorTypes
  BY OperatorConstants DEF ServiceInit, OperatorInit, OperatorTypes, Stopped
<1>2. Occupied(Operator) = {}
  BY OperatorConstants DEF ServiceInit, Occupied
<1>3. FilesOK
  BY <1>2 DEF ServiceInit, OperatorInit, FilesOK, Done
<1>4. RunOK
  BY DEF OperatorInit, RunOK, Stopped
<1> QED
  BY <1>1, <1>3, <1>4 DEF OInv

(* A slot without a key has an index left for one: the others' keys take   *)
(* one each.                                                               *)
LEMMA RoomForSlot ==
    ASSUME OInv, NEW s \in Slots, Matching(s) = {}
    PROVE  Occupied(Operator) # Indexes
<1> SUFFICES ASSUME Occupied(Operator) = Indexes PROVE FALSE
  OBVIOUS
<1> DEFINE f == live[Operator]
           Others == Slots \ {s}
<1>1. f \in [Indexes -> Slots \cup {None}]
  BY OperatorConstants DEF OInv, OperatorTypes
<1>2. \A i \in Indexes : f[i] \in Others
  BY <1>1 DEF Occupied, Matching
<1>3. f \in Injection(Indexes, Others)
  BY <1>1, <1>2, Fun_IsInj DEF OInv, FilesOK
<1>4. IsFiniteSet(Slots) /\ Cardinality(Slots) \in Nat /\ Cardinality(Slots) <= Len(SlotOrder)
  <2>1. SlotOrder \in [1 .. Len(SlotOrder) -> Slots]
    BY OperatorConstants, OperatorAssumption
  <2>2. \A x \in Slots : \E n \in 1 .. Len(SlotOrder) : SlotOrder[n] = x
    BY OperatorConstants DEF Slots
  <2>3. SlotOrder \in Surjection(1 .. Len(SlotOrder), Slots)
    BY <2>1, <2>2, Fun_IsSurj
  <2>4. ExistsSurjection(1 .. Len(SlotOrder), Slots)
    BY <2>3, Fun_ExistsSurj
  <2>5. IsFiniteSet(Slots)
    BY <2>4, FS_NatSurjection, OperatorConstants
  <2> QED
    BY <2>4, <2>5, FS_SurjCardinalityBound, FS_CardinalityType, OperatorConstants
<1>5. IsFiniteSet(Others) /\ Cardinality(Others) = Cardinality(Slots) - 1
  BY <1>4, FS_RemoveElement
<1> HIDE DEF f, Others
<1>6. Cardinality(Indexes) <= Cardinality(Others)
  BY <1>3, <1>5, FS_Injection
<1>7. Cardinality(Indexes) \in Nat /\ Len(SlotOrder) <= Cardinality(Indexes)
  BY OperatorAssumption, FS_CardinalityType
<1> QED
  BY <1>4, <1>5, <1>6, <1>7, OperatorConstants

(* What OInv says of the properties of the command.                        *)
LEMMA OperatorPromises ==
    ASSUME OInv
    PROVE  OperatorKeysAreRecoverable /\ FinishedAreProtected /\ RunCanGoOn
<1>1. OperatorKeysAreRecoverable
  BY DEF OInv, OperatorTypes, FilesOK, OperatorKeysAreRecoverable
<1>2. FinishedAreProtected
  BY DEF OInv, FilesOK, FinishedAreProtected, Done
<1>3. FilesAreSound
  BY DEF OInv, FilesOK, FilesAreSound, Matching
<1>4. ASSUME NEW s \in UnderWay
      PROVE  /\ Cardinality(Matching(s)) <= 1 /\ KitFits(s)
             /\ Answers(Operator) \/ NewParticipant(s)
             /\ Matching(s) = {} => Occupied(Operator) # Indexes
             /\ journal[s] = None =>
                    \A i \in Matching(s) \cup (Indexes \ Occupied(Operator)) : KitIsNew(s, i)
  <2>1. s \in Slots
    BY DEF UnderWay
  <2>2. KitFits(s)
    BY <2>1 DEF OInv, FilesOK, KitFits
  <2>3. Cardinality(Matching(s)) <= 1
    <3>1. CASE Matching(s) = {}
      BY <3>1, FS_EmptySet
    <3>2. CASE Matching(s) # {}
      <4>1. PICK i \in Matching(s) : TRUE
        BY <3>2
      <4>2. Matching(s) = {i}
        BY DEF OInv, FilesOK, Matching
      <4> QED
        BY <4>2, FS_Singleton
    <3> QED
      BY <3>1, <3>2
  <2>4. Answers(Operator) \/ NewParticipant(s)
    <3>1. CASE Occupied(Operator) = {}
      BY <3>1 DEF OInv, FilesOK, NewParticipant, Matching, Done
    <3> QED
      BY <3>1 DEF Answers
  <2>5. Matching(s) = {} => Occupied(Operator) # Indexes
    BY <2>1, RoomForSlot
  <2>6. ASSUME journal[s] = None, NEW i \in Matching(s) \cup (Indexes \ Occupied(Operator)),
               NEW x \in Slots, journal[x] = i
        PROVE  FALSE
    <3>1. i # None /\ i \in Matching(x)
      BY <2>6, OperatorConstants DEF Matching, Occupied, OInv, FilesOK
    <3>2. i \in Occupied(Operator) /\ live[Operator][i] = x /\ live[Operator][i] = s
      BY <2>6, <3>1 DEF Matching
    <3> QED
      BY <2>6, <3>1, <3>2
  <2> QED
    BY <2>2, <2>3, <2>4, <2>5, <2>6 DEF KitIsNew
<1> QED
  BY <1>1, <1>2, <1>3, <1>4 DEF RunCanGoOn

-----------------------------------------------------------------------------
(* The tabs of a participant.                                              *)

(* What a tab encrypts and the server keeps.                               *)
Bundles == [org : Orgs, keys : SUBSET Keys, pending : Rounds \cup {None}]

(* What a tab holds.                                                       *)
PageRecords ==
    [step : {"idle", "unlocked", "manifest", "reserved", "absent", "created", "protected"},
     bundle : Bundles \cup {NoBundle}, revision : Nat, round : Rounds \cup {None},
     policy : Policies \cup {None}, key : Keys \cup {None}]

(* Types of what the tabs, the server and the service hold; a key's policy *)
(* is one of the round its index belongs to.                               *)
CustodyTypes ==
    /\ live \in [Orgs -> [Indexes -> Policies \cup {None}]]
    /\ late \subseteq [org : Orgs, index : Indexes, policy : Policies]
    /\ \A o \in Orgs, i \in Indexes : live[o][i] # None => IndexOf(live[o][i].round) = i
    /\ \A l \in late : IndexOf(l.policy.round) = l.index
    /\ history \in Seq(Bundles)
    /\ registered \in [Rounds -> Keys \cup {None}]
    /\ othersDone \in BOOLEAN
    /\ terms \in Terms
    /\ page \in [Pages -> PageRecords]

(* The newest bundle holds live keys of its own organization, one a round  *)
(* at most, and what it has pending is not one of them.                    *)
LatestOK ==
    /\ IsFiniteSet(Latest.keys)
    /\ \A k \in Latest.keys :
           /\ k.org = Latest.org
           /\ live[k.org][IndexOf(k.round)] = k.policy
           /\ KeyFor(Latest, k.round) = {k}
    /\ Latest.pending # None => KeyFor(Latest, Latest.pending) = {}

(* What is registered is protected.                                        *)
PublicOK ==
    \A r \in Rounds : registered[r] # None =>
        registered[r].round = r /\ registered[r] \in Latest.keys

(* The manifest asks for the key that is pending, and the history holds    *)
(* the first bundle and the snapshots of every key, and no more.           *)
HistoryFits ==
    /\ Latest.pending # None => Latest.pending = NextRound
    /\ history # <<>> =>
           Len(history) = 1 + 2 * Cardinality(Latest.keys)
                            + (IF Latest.pending = None THEN 0 ELSE 1)

(* A round is still on record: pending, or its key is there.               *)
OnRecord(r) == Latest.pending = r \/ KeyFor(Latest, r) # {}

(* The tab knows its round and its policy.                                 *)
Chose(p) == p.step \in {"manifest", "reserved", "absent", "created", "protected"}
(* The tab has the round pending in a saved bundle.                        *)
Reserved(p) == p.step \in {"reserved", "absent", "created"}
(* The tab holds a key of its round.                                       *)
HasKey(p) == p.step \in {"created", "protected"}

(* What a tab unlocked is the newest bundle or an older one, and nothing   *)
(* an older one promised has been dropped since.                           *)
BundleOK(p) ==
    /\ p.bundle.keys \subseteq Latest.keys
    /\ p.bundle # NoBundle => p.bundle.org = Latest.org
    /\ p.bundle.pending # None => OnRecord(p.bundle.pending)
    /\ p.revision <= Len(history) + 1
    /\ p.revision = Len(history) + 1 => p.bundle = Latest

(* A tab's round is what the manifest asks for, or was registered since.   *)
RoundOK(p) ==
    /\ p.bundle # NoBundle
    /\ p.round \in Rounds /\ p.policy \in Policies /\ p.policy.round = p.round
    /\ p.round = NextRound \/ registered[p.round] # None

(* What a tab has done before each step.                                   *)
StepOK(p) ==
    /\ p.step = "idle" => p = Rest
    /\ Chose(p) => RoundOK(p)
    /\ p.step = "manifest" =>
           p.bundle.pending \in {None, p.round} \/ KeyFor(p.bundle, p.round) # {}
    /\ Reserved(p) => p.bundle.pending = p.round
    /\ HasKey(p) => p.key \in Keys /\ p.key = KeyAt(Latest.org, p.round)
    /\ p.step = "protected" => p.revision <= Len(history) /\ p.key \in Latest.keys

(* A tab at rest holds nothing; any other is right about its bundle.       *)
PageOK(p) == StepOK(p) /\ (p.step # "idle" => BundleOK(p))

(* The invariant of the tabs: where any of them is, a key it made or may   *)
(* still make is recoverable from the newest bundle, and the round pending *)
(* there is the one the manifest asks for.                                 *)
CInv ==
    /\ CustodyTypes
    /\ LatestOK
    /\ PublicOK
    /\ PageKeysAreRecoverable
    /\ HistoryFits
    /\ \A q \in Pages : PageOK(page[q])

(* What the proofs need of the constants.                                  *)
LEMMA CustodyConstants ==
    /\ None \notin Orgs /\ None \notin Rounds /\ None \notin Policies /\ None \notin Keys
    /\ \A r \in Rounds : IndexOf(r) \in Indexes
    /\ RoundOne \in Rounds
    /\ PairRounds \in Seq(Rounds) /\ NoBundle \notin Bundles
BY AbsenceAssumption, CustodyAssumption DEF Rounds, NoBundle, Bundles

(* The manifest asks for a round of the participant's, or for none.        *)
LEMMA NextRoundIs == NextRound \in Rounds \cup {None}
<1>1. CASE Missing # {}
  <2>1. Missing \in SUBSET Nat
    BY CustodyConstants DEF Missing
  <2>2. \E n \in Missing : \A m \in Missing : n <= m
    BY <1>1, <2>1, Smallest
  <2>3. Min(Missing) \in DOMAIN PairRounds
    BY <2>2 DEF Min, Missing
  <2> QED
    BY <1>1, <2>3, CustodyConstants DEF NextRound
<1> QED
  BY <1>1, CustodyConstants DEF NextRound

(* The newest bundle, of a history that has one.                           *)
LEMMA LatestIs ==
    ASSUME history \in Seq(Bundles)
    PROVE  /\ Len(history) \in Nat
           /\ history = <<>> <=> Len(history) = 0
           /\ IF history = <<>> THEN Latest = NoBundle ELSE Latest \in Bundles
<1>1. CASE history # <<>>
  <2>1. Len(history) \in Nat /\ Len(history) # 0 /\ Len(history) \in 1 .. Len(history)
    BY <1>1, EmptySeq
  <2>2. history[Len(history)] \in Bundles
    BY <2>1, ElementOfSeq
  <2> QED
    BY <1>1, <2>1, <2>2 DEF Latest, Last
<1> QED
  BY <1>1, EmptySeq DEF Latest

(* A page moves, and nothing else does.                                    *)
LEMMA PageMoves ==
    ASSUME CInv, NEW q \in Pages, NEW p \in PageRecords, PageOK(p),
           page' = [page EXCEPT ![q] = p],
           UNCHANGED <<history, registered, othersDone, terms, service>>
    PROVE  CInv'
<1>1. ASSUME NEW x PROVE PageOK(x)' <=> PageOK(x)
  BY DEF PageOK, StepOK, BundleOK, RoundOK, OnRecord, Chose, Reserved, HasKey, NextRound,
     Missing, KeyAt, Latest, service
<1>2. CustodyTypes'
  BY DEF CInv, CustodyTypes, service
<1>3. Latest' = Latest /\ NextRound' = NextRound /\ live' = live /\ late' = late
  BY DEF Latest, NextRound, Missing, service
<1>4. LatestOK' /\ PublicOK'
  BY <1>3 DEF CInv, LatestOK, PublicOK
<1>5. PageKeysAreRecoverable'
  BY <1>3 DEF CInv, PageKeysAreRecoverable, Recoverable
<1>6. HistoryFits'
  BY <1>3 DEF CInv, HistoryFits
<1>7. ASSUME NEW x \in Pages PROVE PageOK(page[x])'
  <2>1. PICK y : y = page'[x]
    OBVIOUS
  <2>2. PageOK(y)
    BY <2>1 DEF CInv, CustodyTypes
  <2>3. PageOK(y)'
    BY <1>1, <2>2
  <2> QED
    BY <2>1, <2>3 DEF PageOK, StepOK, BundleOK, RoundOK
<1> QED
  BY <1>2, <1>4, <1>5, <1>6, <1>7 DEF CInv

(* The steps that move a page and nothing else.                            *)
LEMMA RestIsOK == CInv => Rest \in PageRecords /\ PageOK(Rest)
BY DEF PageRecords, Rest, PageOK, StepOK, Chose, Reserved, HasKey

(* A tab unlocks the newest bundle.                                        *)
LEMMA AuthorizeCustodyStep ==
    ASSUME CInv, NEW q \in Pages, AuthorizeCustody(q)
    PROVE  CInv'
<1>1. history \in Seq(Bundles)
  BY DEF CInv, CustodyTypes
<1>2. Latest \in Bundles \cup {NoBundle} /\ Len(history) \in Nat
  BY <1>1, LatestIs
<1>3. /\ Unlocked.step = "unlocked" /\ Unlocked.bundle = Latest
      /\ Unlocked.revision = Len(history) + 1
      /\ Unlocked \in PageRecords
  <2>1. Rest \in PageRecords
    BY RestIsOK
  <2>2. Len(history) + 1 \in Nat
    BY <1>2
  <2> QED
    BY <1>2, <2>1, <2>2 DEF PageRecords, Unlocked
<1>4. PageOK(Unlocked)
  BY <1>3 DEF PageOK, StepOK, BundleOK, Chose, Reserved, HasKey, OnRecord
<1> QED
  BY <1>3, <1>4, PageMoves DEF AuthorizeCustody, Goes

(* What the manifest asks of one tab it asks of all of them.               *)
LEMMA ReadManifestStep ==
    ASSUME CInv, NEW q \in Pages, ReadManifest(q)
    PROVE  CInv'
<1> DEFINE r == NextRound
           p == [page[q] EXCEPT !.step = "manifest", !.round = r, !.policy = PolicyOf(r, terms)]
<1>1. page[q] \in PageRecords /\ PageOK(page[q]) /\ page[q].step = "unlocked"
  BY DEF CInv, CustodyTypes, ReadManifest, At
<1>2. r \in Rounds /\ PolicyOf(r, terms) \in Policies
  BY NextRoundIs DEF ReadManifest, PolicyOf, Policies, CInv, CustodyTypes
<1>3. /\ p.step = "manifest" /\ p.round = r /\ p.policy = PolicyOf(r, terms)
      /\ p.bundle = page[q].bundle /\ p.revision = page[q].revision
      /\ p \in PageRecords
  BY <1>1, <1>2 DEF PageRecords
<1>4. /\ p.bundle # NoBundle
      /\ p.bundle.pending \in {None, r} \/ KeyFor(p.bundle, r) # {}
      /\ page' = [page EXCEPT ![q] = p]
      /\ UNCHANGED <<history, registered, othersDone, terms, service>>
  BY <1>3 DEF ReadManifest, Goes, Agrees
<1> HIDE DEF p, r
<1>5. StepOK(p)
  BY <1>2, <1>3, <1>4 DEF StepOK, Chose, Reserved, HasKey, RoundOK, PolicyOf, r
<1>6. BundleOK(p)
  BY <1>1, <1>3 DEF BundleOK, PageOK
<1> QED
  BY <1>3, <1>4, <1>5, <1>6, PageMoves DEF PageOK

(* A key that is found is that of the round, at its index.                 *)
LEMMA ListKeysStep ==
    ASSUME CInv, NEW q \in Pages, ListKeys(q)
    PROVE  CInv'
<1> DEFINE o == page[q].bundle.org
           r == page[q].round
<1>1. page[q] \in PageRecords /\ PageOK(page[q]) /\ page[q].step = "reserved"
  BY DEF CInv, CustodyTypes, ListKeys, At
<1>2. page[q].bundle \in Bundles /\ r \in Rounds /\ o = Latest.org /\ o \in Orgs
  BY <1>1 DEF PageOK, StepOK, BundleOK, Chose, RoundOK, PageRecords, Bundles
<1>3. PICK p \in {[page[q] EXCEPT !.step = "created", !.key = KeyAt(o, r)],
                 [page[q] EXCEPT !.step = "absent"]} :
         /\ page' = [page EXCEPT ![q] = p]
         /\ IF IndexOf(r) \in Occupied(o)
            THEN p = [page[q] EXCEPT !.step = "created", !.key = KeyAt(o, r)]
            ELSE p = [page[q] EXCEPT !.step = "absent"]
  BY DEF ListKeys, Goes
<1>4. IndexOf(r) \in Occupied(o) => KeyAt(o, r) \in Keys
  BY <1>2, CustodyConstants DEF KeyAt, Keys, Occupied, CInv, CustodyTypes
<1>5. /\ p \in PageRecords
      /\ p.round = r /\ p.policy = page[q].policy
      /\ p.bundle = page[q].bundle /\ p.revision = page[q].revision
      /\ \/ p.step = "absent"
         \/ p.step = "created" /\ p.key = KeyAt(Latest.org, r) /\ p.key \in Keys
  BY <1>1, <1>2, <1>3, <1>4 DEF PageRecords
<1>6. StepOK(p)
  BY <1>1, <1>5 DEF PageOK, StepOK, Chose, Reserved, HasKey, RoundOK
<1>7. BundleOK(p)
  BY <1>1, <1>5 DEF BundleOK, PageOK
<1>8. UNCHANGED <<history, registered, othersDone, terms, service>>
  BY DEF ListKeys
<1> QED
  BY <1>3, <1>5, <1>6, <1>7, <1>8, PageMoves DEF PageOK

(* A revision is saved: it drops no key and nothing pending of the newest. *)
Extends(b) ==
    /\ Latest.keys \subseteq b.keys
    /\ history # <<>> => b.org = Latest.org
    /\ \A r \in Rounds : OnRecord(r) => b.pending = r \/ KeyFor(b, r) # {}

(* The bundle saved last is the newest.                                    *)
LEMMA AppendedIsLatest ==
    ASSUME history \in Seq(Bundles), NEW b \in Bundles, history' = Append(history, b)
    PROVE  /\ history' \in Seq(Bundles) /\ history' # <<>>
           /\ Len(history') = Len(history) + 1 /\ Latest' = b
<1>1. /\ history' \in Seq(Bundles) /\ Len(history') = Len(history) + 1
      /\ history'[Len(history')] = b
  BY AppendProperties
<1>2. Len(history) \in Nat /\ Len(history') # 0
  BY <1>1, LenProperties
<1>3. history' # <<>>
  BY <1>2, EmptySeq
<1> QED
  BY <1>1, <1>3 DEF Latest, Last

(* A saved bundle that drops nothing leaves the other tabs right.          *)
LEMMA OtherPagesAfterSave ==
    ASSUME CInv, NEW b \in Bundles, Extends(b), history' = Append(history, b),
           NEW x \in Pages, page'[x] = page[x],
           UNCHANGED <<registered, othersDone, service>>
    PROVE  PageOK(page[x])'
<1>1. PICK y \in PageRecords : y = page[x]
  BY DEF CInv, CustodyTypes
<1>2. PageOK(y)
  BY <1>1 DEF CInv
<1>3. history \in Seq(Bundles)
  BY DEF CInv, CustodyTypes
<1>4. Len(history') = Len(history) + 1 /\ Latest' = b /\ Len(history) \in Nat
  BY <1>3, AppendedIsLatest, LatestIs
<1>5. y.step # "idle" /\ y.bundle # NoBundle => b.org = Latest.org
  <2> SUFFICES ASSUME y.step # "idle", y.bundle # NoBundle PROVE b.org = Latest.org
    OBVIOUS
  <2>1. y.bundle \in Bundles /\ y.bundle.org = Latest.org
    BY <1>2 DEF PageOK, BundleOK, PageRecords
  <2>2. Latest # NoBundle
    BY <2>1, CustodyConstants DEF Bundles, NoBundle
  <2> QED
    BY <1>3, <2>2, LatestIs DEF Extends
<1>6. ASSUME y.step # "idle" PROVE BundleOK(y)'
  <2>1. BundleOK(y) /\ y.revision \in Nat
    BY <1>2, <1>6 DEF PageOK, PageRecords
  <2>2. y.bundle.keys \subseteq b.keys
    BY <2>1 DEF BundleOK, Extends
  <2>3. y.bundle # NoBundle => y.bundle.org = b.org
    BY <1>5, <1>6, <2>1 DEF BundleOK
  <2>4. y.bundle.pending # None => y.bundle.pending \in Rounds
    BY DEF PageRecords, Bundles, NoBundle
  <2>5. y.bundle.pending # None => b.pending = y.bundle.pending \/ KeyFor(b, y.bundle.pending) # {}
    BY <2>1, <2>4 DEF BundleOK, Extends
  <2>6. y.bundle.pending # None => OnRecord(y.bundle.pending)'
    BY <1>4, <2>5 DEF OnRecord, KeyFor
  <2>7. y.revision <= Len(history') + 1 /\ y.revision # Len(history') + 1
    BY <1>4, <2>1 DEF BundleOK
  <2> QED
    BY <1>4, <2>2, <2>3, <2>6, <2>7 DEF BundleOK
<1>7. NextRound' = NextRound /\ live' = live /\ registered' = registered
  BY DEF NextRound, Missing, service
<1>8. Chose(y) => RoundOK(y)'
  BY <1>2, <1>7 DEF PageOK, StepOK, RoundOK
<1>9. HasKey(y) => y.key \in Keys /\ y.key = KeyAt(b.org, y.round)
  BY <1>2, <1>5 DEF PageOK, StepOK, RoundOK, HasKey, Chose
<1>10. y.step = "protected" => y.revision <= Len(history') /\ y.key \in b.keys
  <2>1. y.revision \in Nat
    BY DEF PageRecords
  <2> QED
    BY <1>2, <1>4, <2>1 DEF PageOK, StepOK, Extends
<1>11. StepOK(y)'
  BY <1>2, <1>4, <1>7, <1>8, <1>9, <1>10
     DEF PageOK, StepOK, KeyAt, Chose, Reserved, HasKey
<1>12. PageOK(y)'
  BY <1>6, <1>11 DEF PageOK
<1> QED
  BY <1>1, <1>12 DEF PageOK, StepOK, BundleOK, RoundOK

(* What every save keeps.                                                  *)
LEMMA SaveKeeps ==
    ASSUME CInv, NEW q \in Pages, NEW b \in Bundles, NEW p \in PageRecords, Extends(b),
           history' = Append(history, b), page' = [page EXCEPT ![q] = p],
           UNCHANGED <<registered, othersDone, terms, service>>
    PROVE  /\ CustodyTypes' /\ PublicOK'
           /\ Latest' = b /\ Len(history') = Len(history) + 1 /\ history' # <<>>
           /\ NextRound' = NextRound
           /\ page'[q] = p
           /\ \A x \in Pages \ {q} : PageOK(page[x])'
<1>1. /\ history' \in Seq(Bundles) /\ history' # <<>>
      /\ Len(history') = Len(history) + 1 /\ Latest' = b
  BY AppendedIsLatest DEF CInv, CustodyTypes
<1>2. CustodyTypes'
  BY <1>1 DEF CInv, CustodyTypes, service
<1>3. PublicOK'
  BY <1>1 DEF CInv, PublicOK, Extends
<1>4. ASSUME NEW x \in Pages \ {q} PROVE PageOK(page[x])'
  BY OtherPagesAfterSave DEF CInv, CustodyTypes
<1>5. NextRound' = NextRound
  BY DEF NextRound, Missing
<1>6. page'[q] = p
  BY DEF CInv, CustodyTypes
<1> QED
  BY <1>1, <1>2, <1>3, <1>4, <1>5, <1>6

(* The first bundle names the organization.                                *)
LEMMA OpenCustodyStep ==
    ASSUME CInv, NEW q \in Pages, OpenCustody(q)
    PROVE  CInv'
<1>1. page[q] \in PageRecords /\ PageOK(page[q]) /\ page[q].step = "unlocked"
      /\ page[q].bundle = NoBundle
  BY DEF CInv, CustodyTypes, OpenCustody, At
<1>2. PICK o \in Orgs : Save(q, [NoBundle EXCEPT !.org = o])
  BY DEF OpenCustody
<1> DEFINE b == [org |-> o, keys |-> {}, pending |-> None]
<1>3. [NoBundle EXCEPT !.org = o] = b
  BY DEF NoBundle
<1>4. history' = Append(history, b) /\ page[q].revision = Len(history) + 1
  BY <1>2, <1>3 DEF Save, AppendRevision
<1>5. history \in Seq(Bundles)
  BY DEF CInv, CustodyTypes
<1>6. Latest = NoBundle
  BY <1>1, <1>4 DEF PageOK, BundleOK
<1>7. history = <<>> /\ Len(history) = 0
  BY <1>5, <1>6, LatestIs, CustodyConstants
<1>8. b \in Bundles /\ b.keys = {} /\ b.pending = None /\ b.org = o
  BY DEF Bundles
<1> HIDE DEF b
<1>9. Extends(b)
  BY <1>6, <1>7, CustodyConstants DEF Extends, OnRecord, KeyFor, NoBundle
<1>10. Rest \in PageRecords /\ page' = [page EXCEPT ![q] = Rest]
       /\ UNCHANGED <<registered, othersDone, terms, service>>
  BY RestIsOK DEF OpenCustody, Goes
<1>11. /\ CustodyTypes' /\ PublicOK'
       /\ Latest' = b /\ Len(history') = Len(history) + 1 /\ history' # <<>>
       /\ NextRound' = NextRound
       /\ page'[q] = Rest
       /\ \A x \in Pages \ {q} : PageOK(page[x])'
  BY <1>4, <1>8, <1>9, <1>10, SaveKeeps
<1>12. PageOK(page[q])'
  BY <1>11 DEF PageOK, StepOK, Rest, Chose, Reserved, HasKey
<1>13. LatestOK'
  BY <1>8, <1>11, FS_EmptySet DEF LatestOK
<1>14. PageKeysAreRecoverable'
  <2>1. Latest.org = None
    BY <1>6 DEF NoBundle
  <2>2. \A p \in Orgs, i \in Indexes : live[p][i] = None
    BY <2>1, CustodyConstants DEF CInv, PageKeysAreRecoverable, Recoverable
  <2>3. \A r \in late : live[r.org][r.index] # None
    BY <2>1, CustodyConstants DEF CInv, CustodyTypes, PageKeysAreRecoverable, Recoverable
  <2>4. late = {}
    BY <2>2, <2>3 DEF CInv, CustodyTypes
  <2> QED
    BY <1>10, <2>2, <2>4 DEF PageKeysAreRecoverable, service
<1>15. HistoryFits'
  <2>1. Cardinality(b.keys) = 0
    BY <1>8, FS_EmptySet
  <2>2. Cardinality(Latest.keys)' = Cardinality(b.keys) /\ Latest'.pending = None
    BY <1>8, <1>11
  <2>3. Len(history') = 1
    BY <1>7, <1>11
  <2> QED
    BY <2>1, <2>2, <2>3 DEF HistoryFits
<1> QED
  BY <1>11, <1>12, <1>13, <1>14, <1>15 DEF CInv

(* A tab that chose a round and works on the newest bundle finds the round *)
(* still next: had it been registered since, its key would be there.       *)
LEMMA CurrentRoundIsNext ==
    ASSUME CInv, NEW q \in Pages, Chose(page[q]), page[q].step # "idle",
           page[q].revision = Len(history) + 1, KeyFor(Latest, page[q].round) = {}
    PROVE  /\ page[q].bundle = Latest /\ Latest \in Bundles /\ history # <<>>
           /\ page[q].round \in Rounds /\ page[q].round = NextRound
<1>1. page[q] \in PageRecords /\ StepOK(page[q]) /\ BundleOK(page[q]) /\ RoundOK(page[q])
  BY DEF CInv, CustodyTypes, PageOK, StepOK
<1>2. page[q].bundle = Latest /\ page[q].bundle # NoBundle /\ page[q].round \in Rounds
  BY <1>1 DEF BundleOK, RoundOK
<1>3. registered[page[q].round] = None
  BY <1>2 DEF CInv, PublicOK, KeyFor
<1>4. page[q].round = NextRound
  BY <1>1, <1>3 DEF RoundOK
<1>5. Latest \in Bundles /\ history # <<>>
  BY <1>2, LatestIs DEF CInv, CustodyTypes
<1> QED
  BY <1>2, <1>4, <1>5

(* A round is pending before any key of it is asked for.                   *)
LEMMA ReserveStep ==
    ASSUME CInv, NEW q \in Pages, Reserve(q)
    PROVE  CInv'
<1> DEFINE r == page[q].round
           b == [page[q].bundle EXCEPT !.pending = r]
<1>1. page[q] \in PageRecords /\ PageOK(page[q]) /\ page[q].step = "manifest"
  BY DEF CInv, CustodyTypes, Reserve, Begins, At
<1>2. /\ page[q].bundle \in Bundles /\ r \in Rounds /\ KeyFor(page[q].bundle, r) = {}
      /\ RoundOK(page[q]) /\ BundleOK(page[q])
  BY <1>1 DEF PageOK, StepOK, Chose, RoundOK, PageRecords, Reserve, Begins
<1>3. UNCHANGED <<registered, othersDone, terms, service>>
  BY DEF Reserve
<1>4. ASSUME page[q].bundle.pending = None, Save(q, b),
             Goes(q, [page[q] EXCEPT !.step = "reserved", !.bundle = b, !.revision = @ + 1])
      PROVE  CInv'
  <2>1. page[q].revision = Len(history) + 1 /\ history' = Append(history, b) /\ ValidBundle(b)
    BY <1>4 DEF Save, AppendRevision
  <2>2. page[q].bundle = Latest
    BY <1>2, <2>1 DEF BundleOK
  <2>3. Latest \in Bundles /\ history # <<>> /\ r = NextRound
    BY <1>1, <1>2, <2>1, <2>2, CurrentRoundIsNext DEF Chose
  <2>4. /\ b \in Bundles /\ b.keys = Latest.keys /\ b.org = Latest.org /\ b.pending = r
        /\ Latest.pending = None
    BY <1>2, <1>4, <2>2 DEF Bundles
  <2> HIDE DEF b
  <2>5. PICK p \in PageRecords :
           /\ p.step = "reserved" /\ p.bundle = b /\ p.revision = page[q].revision + 1
           /\ p.round = r /\ p.policy = page[q].policy
           /\ page' = [page EXCEPT ![q] = p]
    <3> DEFINE p == [page[q] EXCEPT !.step = "reserved", !.bundle = b, !.revision = @ + 1]
    <3>1. page[q].revision + 1 \in Nat
      BY <1>1 DEF PageRecords
    <3>2. /\ p \in PageRecords
          /\ p.step = "reserved" /\ p.bundle = b /\ p.revision = page[q].revision + 1
          /\ p.round = r /\ p.policy = page[q].policy
      BY <1>1, <2>4, <3>1 DEF PageRecords
    <3> QED
      BY <1>4, <3>2 DEF Goes
  <2>7. Extends(b)
    BY <2>4, CustodyConstants DEF Extends, OnRecord, KeyFor
  <2>8. /\ CustodyTypes' /\ PublicOK'
        /\ Latest' = b /\ Len(history') = Len(history) + 1 /\ history' # <<>>
        /\ NextRound' = NextRound
        /\ page'[q] = p
        /\ \A x \in Pages \ {q} : PageOK(page[x])'
    BY <1>3, <2>1, <2>4, <2>5, <2>7, SaveKeeps
  <2>9. KeyFor(b, r) = {} /\ b # NoBundle
    BY <1>2, <2>2, <2>4, CustodyConstants DEF KeyFor
  <2>10. PageOK(page[q])'
    <3>1. RoundOK(p)'
      BY <1>2, <1>3, <2>5, <2>8, <2>9 DEF RoundOK
    <3>2. StepOK(p)'
      BY <2>4, <2>5, <3>1 DEF StepOK, Chose, Reserved, HasKey
    <3>3. p.revision = Len(history') + 1
      BY <2>1, <2>5, <2>8
    <3>4. BundleOK(p)'
      BY <2>4, <2>5, <2>8, <3>3, LatestIs DEF BundleOK, OnRecord, CustodyTypes
    <3>5. PICK y : y = page'[q]
      OBVIOUS
    <3>6. StepOK(y)' /\ BundleOK(y)'
      BY <2>8, <3>2, <3>4, <3>5 DEF StepOK, BundleOK, RoundOK
    <3> QED
      BY <3>5, <3>6 DEF PageOK, StepOK, BundleOK, RoundOK
  <2>11. LatestOK'
    BY <1>3, <2>2, <2>4, <2>8, <2>9 DEF CInv, LatestOK, KeyFor, service
  <2>12. PageKeysAreRecoverable'
    BY <1>3, <2>4, <2>8, CustodyConstants DEF CInv, PageKeysAreRecoverable, Recoverable, service
  <2>13. HistoryFits'
    <3>1. Cardinality(Latest.keys) \in Nat
      BY FS_CardinalityType DEF CInv, LatestOK
    <3>2. Cardinality(Latest.keys)' = Cardinality(Latest.keys) /\ Latest'.pending = r
      BY <2>4, <2>8
    <3>3. Len(history) = 1 + 2 * Cardinality(Latest.keys)
      BY <2>3, <2>4, <3>1, CustodyConstants DEF CInv, HistoryFits
    <3>4. Len(history') = 1 + 2 * Cardinality(Latest.keys) + 1
      BY <2>8, <3>1, <3>3
    <3> QED
      BY <1>2, <2>3, <2>8, <3>2, <3>4, CustodyConstants DEF HistoryFits
  <2> QED
    BY <2>8, <2>10, <2>11, <2>12, <2>13 DEF CInv
<1>5. ASSUME page[q].bundle.pending # None, Goes(q, [page[q] EXCEPT !.step = "reserved"]),
             UNCHANGED history
      PROVE  CInv'
  <2> DEFINE p == [page[q] EXCEPT !.step = "reserved"]
  <2>1. page[q].bundle.pending = r
    BY <1>1, <1>2, <1>5 DEF PageOK, StepOK
  <2>2. /\ p \in PageRecords /\ p.step = "reserved" /\ p.bundle = page[q].bundle
        /\ p.revision = page[q].revision /\ p.round = r /\ p.policy = page[q].policy
        /\ page' = [page EXCEPT ![q] = p]
    BY <1>1, <1>5 DEF PageRecords, Goes
  <2> HIDE DEF p
  <2>3. PageOK(p)
    BY <1>2, <2>1, <2>2 DEF PageOK, StepOK, BundleOK, RoundOK, Chose, Reserved, HasKey
  <2> QED
    BY <1>3, <1>5, <2>2, <2>3, PageMoves
<1> QED
  BY <1>4, <1>5 DEF Reserve, Pending

(* The key replaces the pending round in one bundle.                       *)
LEMMA ProtectKeyStep ==
    ASSUME CInv, NEW q \in Pages, ProtectKey(q)
    PROVE  CInv'
<1>1. page[q] \in PageRecords /\ PageOK(page[q]) /\ page[q].step = "created"
  BY DEF CInv, CustodyTypes, ProtectKey, At
<1>2. PICK r \in Rounds, key \in Keys :
         /\ page[q].round = r /\ page[q].key = key
         /\ key = KeyAt(Latest.org, r)
  BY <1>1 DEF PageOK, StepOK, Chose, HasKey, RoundOK
<1>3. /\ key.org = Latest.org /\ key.round = r /\ key.policy = live[Latest.org][IndexOf(r)]
      /\ key.policy # None
  BY <1>2, CustodyConstants DEF KeyAt, Keys
<1> DEFINE b0 == [page[q].bundle EXCEPT !.keys = @ \cup {page[q].key}, !.pending = None]
<1>4. /\ page[q].revision = Len(history) + 1 /\ history' = Append(history, b0)
      /\ ValidBundle(b0)
      /\ page' = [page EXCEPT ![q] = [page[q] EXCEPT !.step = "protected", !.bundle = b0]]
      /\ UNCHANGED <<registered, othersDone, terms, service>>
  BY DEF ProtectKey, Completed, Save, AppendRevision, Goes
<1>5. /\ page[q].bundle = Latest /\ Latest \in Bundles /\ Latest.pending = r
      /\ RoundOK(page[q])
  BY <1>1, <1>2, <1>4 DEF PageOK, StepOK, BundleOK, RoundOK, Chose, Reserved, PageRecords
<1>6. PICK b \in Bundles :
         /\ b = b0 /\ b.keys = Latest.keys \cup {key} /\ b.org = Latest.org /\ b.pending = None
  <2> DEFINE c == [Latest EXCEPT !.keys = @ \cup {key}, !.pending = None]
  <2>1. c = b0
    BY <1>2, <1>5
  <2>2. c \in Bundles /\ c.keys = Latest.keys \cup {key} /\ c.org = Latest.org /\ c.pending = None
    BY <1>5 DEF Bundles
  <2> HIDE DEF b0, c
  <2> QED
    BY <2>1, <2>2
<1>7. KeyFor(Latest, r) = {} /\ key \notin Latest.keys
  BY <1>3, <1>5, CustodyConstants DEF CInv, LatestOK, KeyFor
<1>8. Extends(b)
  BY <1>3, <1>5, <1>6 DEF Extends, OnRecord, KeyFor
<1>9. PICK p \in PageRecords :
         /\ p.step = "protected" /\ p.bundle = b /\ p.revision = page[q].revision
         /\ p.round = r /\ p.policy = page[q].policy /\ p.key = key
         /\ page' = [page EXCEPT ![q] = p]
  <2> DEFINE p == [page[q] EXCEPT !.step = "protected", !.bundle = b]
  <2>1. /\ p \in PageRecords
        /\ p.step = "protected" /\ p.bundle = b /\ p.revision = page[q].revision
        /\ p.round = r /\ p.policy = page[q].policy /\ p.key = key
    BY <1>1, <1>2, <1>6 DEF PageRecords
  <2> QED
    BY <1>4, <1>6, <2>1
<1>10. /\ CustodyTypes' /\ PublicOK'
       /\ Latest' = b /\ Len(history') = Len(history) + 1 /\ history' # <<>>
       /\ NextRound' = NextRound
       /\ page'[q] = p
       /\ \A x \in Pages \ {q} : PageOK(page[x])'
  BY <1>4, <1>6, <1>8, <1>9, SaveKeeps
<1> HIDE DEF b0
<1>11. Len(history) \in Nat
  BY LatestIs DEF CInv, CustodyTypes
<1>12. PageOK(page[q])'
  <2>1. RoundOK(p)'
    BY <1>2, <1>4, <1>5, <1>6, <1>9, <1>10, CustodyConstants DEF RoundOK
  <2>2. HasKey(p) => p.key \in Keys /\ p.key = KeyAt(Latest.org, p.round)'
    BY <1>2, <1>4, <1>6, <1>9, <1>10 DEF KeyAt, service
  <2>3. p.revision <= Len(history') /\ p.key \in Latest'.keys
    BY <1>4, <1>6, <1>9, <1>10, <1>11
  <2>4. StepOK(p)'
    BY <1>9, <2>1, <2>2, <2>3 DEF StepOK, Chose, Reserved, HasKey
  <2>5. p.revision # Len(history') + 1 /\ p.revision <= Len(history') + 1
    BY <1>4, <1>9, <1>10, <1>11
  <2>6. BundleOK(p)'
    BY <1>6, <1>9, <1>10, <2>5 DEF BundleOK
  <2>7. PICK y : y = page'[q]
    OBVIOUS
  <2>8. StepOK(y)' /\ BundleOK(y)'
    BY <1>10, <2>4, <2>6, <2>7 DEF StepOK, BundleOK, RoundOK
  <2> QED
    BY <2>7, <2>8 DEF PageOK, StepOK, BundleOK, RoundOK
<1>13. IsFiniteSet(Latest.keys) /\ Cardinality(Latest.keys) \in Nat
  BY FS_CardinalityType DEF CInv, LatestOK
<1>14. IsFiniteSet(b.keys) /\ Cardinality(b.keys) = Cardinality(Latest.keys) + 1
  BY <1>6, <1>7, <1>13, FS_AddElement
<1>15. LatestOK'
  <2>1. \A k \in b.keys : k.org = b.org /\ KeyFor(b, k.round) = {k}
    BY <1>4, <1>6 DEF ValidBundle
  <2>2. \A k \in b.keys : live[k.org][IndexOf(k.round)] = k.policy
    BY <1>3, <1>6 DEF CInv, LatestOK
  <2> QED
    BY <1>4, <1>6, <1>10, <1>14, <2>1, <2>2 DEF LatestOK, KeyFor, service
<1>16. PageKeysAreRecoverable'
  <2>1. ASSUME NEW o \in Orgs, NEW i \in Indexes, live[o][i] # None
        PROVE  Recoverable(o, i, live[o][i])'
    <3>1. Latest.org = o /\ b.org = o
      BY <1>6, <2>1 DEF CInv, PageKeysAreRecoverable, Recoverable
    <3>2. PICK t \in Rounds : IndexOf(t) = i /\
             ([org |-> o, round |-> t, policy |-> live[o][i]] \in Latest.keys \/ Latest.pending = t)
      BY <2>1 DEF CInv, PageKeysAreRecoverable, Recoverable
    <3>3. [org |-> o, round |-> t, policy |-> live[o][i]] \in b.keys
      BY <1>2, <1>5, <1>6, <3>1, <3>2 DEF KeyAt
    <3> QED
      BY <1>4, <1>10, <3>1, <3>2, <3>3 DEF Recoverable, service
  <2>2. ASSUME NEW l \in late, live[l.org][l.index] = None
        PROVE  Recoverable(l.org, l.index, l.policy)'
    <3>1. Latest.org = l.org /\ b.org = l.org
      BY <1>6, <2>2 DEF CInv, PageKeysAreRecoverable, Recoverable
    <3>2. PICK t \in Rounds : IndexOf(t) = l.index /\
             ([org |-> l.org, round |-> t, policy |-> l.policy] \in Latest.keys \/ Latest.pending = t)
      BY <2>2 DEF CInv, PageKeysAreRecoverable, Recoverable
    <3>3. [org |-> l.org, round |-> t, policy |-> l.policy] \in b.keys
      BY <1>3, <1>5, <1>6, <2>2, <3>1, <3>2
    <3> QED
      BY <1>10, <3>1, <3>2, <3>3 DEF Recoverable
  <2> QED
    BY <1>4, <2>1, <2>2 DEF PageKeysAreRecoverable, Recoverable, service
<1>17. HistoryFits'
  <2>1. Len(history) = 1 + 2 * Cardinality(Latest.keys) + 1
    BY <1>5, <1>13, LatestIs, CustodyConstants DEF CInv, CustodyTypes, HistoryFits
  <2>2. Cardinality(Latest.keys)' = Cardinality(Latest.keys) + 1 /\ Latest'.pending = None
    BY <1>6, <1>10, <1>14
  <2>3. Len(history') = 1 + 2 * (Cardinality(Latest.keys) + 1) + 0
    BY <1>10, <1>13, <2>1
  <2> QED
    BY <2>2, <2>3 DEF HistoryFits
<1> QED
  BY <1>10, <1>12, <1>15, <1>16, <1>17 DEF CInv

(* The service creates keys and changes none.                              *)
LEMMA ServiceGrows ==
    ASSUME CInv, live' \in [Orgs -> [Indexes -> Policies \cup {None}]],
           \A o \in Orgs, i \in Indexes : live[o][i] # None => live'[o][i] = live[o][i],
           UNCHANGED <<history, registered, othersDone>>
    PROVE  /\ LatestOK' /\ PublicOK' /\ HistoryFits'
           /\ Latest' = Latest /\ NextRound' = NextRound
           /\ \A p \in PageRecords : PageOK(p) => PageOK(p)'
<1>1. Latest' = Latest /\ NextRound' = NextRound
  BY DEF Latest, NextRound, Missing
<1>2. PublicOK' /\ HistoryFits'
  BY <1>1 DEF CInv, PublicOK, HistoryFits
<1>3. Latest \in Bundles \cup {NoBundle}
  BY LatestIs DEF CInv, CustodyTypes
<1>4. ASSUME NEW k \in Latest.keys
      PROVE  live'[k.org][IndexOf(k.round)] = k.policy
  <2>1. k \in Keys
    BY <1>3 DEF Bundles, NoBundle
  <2>2. k.org \in Orgs /\ IndexOf(k.round) \in Indexes /\ k.policy # None
    BY <2>1, CustodyConstants DEF Keys
  <2> QED
    BY <2>2 DEF CInv, LatestOK
<1>5. LatestOK'
  BY <1>1, <1>4 DEF CInv, LatestOK
<1>6. ASSUME NEW p \in PageRecords, PageOK(p) PROVE PageOK(p)'
  <2>1. HasKey(p) => p.key = KeyAt(Latest.org, p.round)'
    <3> SUFFICES ASSUME HasKey(p) PROVE p.key = KeyAt(Latest.org, p.round)'
      OBVIOUS
    <3>1. p.round \in Rounds /\ p.key \in Keys /\ p.key = KeyAt(Latest.org, p.round)
      BY <1>6 DEF PageOK, StepOK, HasKey, Chose, RoundOK
    <3>2. p.key.policy # None /\ Latest.org \in Orgs /\ IndexOf(p.round) \in Indexes
      BY <3>1, CustodyConstants DEF Keys, KeyAt
    <3> QED
      BY <1>1, <3>1, <3>2 DEF KeyAt
  <2>2. StepOK(p)'
    BY <1>1, <1>6, <2>1 DEF PageOK, StepOK, RoundOK, Chose, Reserved, HasKey
  <2>3. p.step # "idle" => BundleOK(p)'
    BY <1>1, <1>6 DEF PageOK, BundleOK, OnRecord
  <2> QED
    BY <2>2, <2>3 DEF PageOK
<1> QED
  BY <1>1, <1>2, <1>5, <1>6

(* What a tab asks the service for is on record, should it be created.     *)
LEMMA AskedIsOnRecord ==
    ASSUME CInv, NEW q \in Pages, page[q].step = "absent"
    PROVE  LET o == page[q].bundle.org
               r == page[q].round
           IN  /\ page[q].bundle \in Bundles /\ o \in Orgs /\ o = Latest.org
               /\ r \in Rounds /\ IndexOf(r) \in Indexes
               /\ page[q].policy \in Policies /\ page[q].policy.round = r
               /\ live[o][IndexOf(r)] = None =>
                      Latest.pending = r /\ Recoverable(o, IndexOf(r), page[q].policy)
<1> DEFINE o == page[q].bundle.org
           r == page[q].round
<1>1. page[q] \in PageRecords /\ StepOK(page[q]) /\ BundleOK(page[q])
  BY DEF CInv, CustodyTypes, PageOK
<1>2. /\ page[q].bundle \in Bundles /\ o \in Orgs /\ o = Latest.org
      /\ r \in Rounds /\ page[q].policy \in Policies /\ page[q].policy.round = r
      /\ page[q].bundle.pending = r
  BY <1>1 DEF StepOK, BundleOK, RoundOK, Chose, Reserved, PageRecords, Bundles
<1>3. OnRecord(r)
  BY <1>1, <1>2, CustodyConstants DEF BundleOK
<1>4. live[o][IndexOf(r)] = None => Latest.pending = r
  <2> SUFFICES ASSUME NEW k \in KeyFor(Latest, r) PROVE live[o][IndexOf(r)] # None
    BY <1>3 DEF OnRecord
  <2>1. k \in Latest.keys /\ k.round = r
    BY DEF KeyFor
  <2>2. k.org = o /\ live[o][IndexOf(r)] = k.policy
    BY <1>2, <2>1 DEF CInv, LatestOK
  <2>3. k \in Keys
    BY <2>1, LatestIs DEF CInv, CustodyTypes, Bundles, NoBundle
  <2> QED
    BY <2>2, <2>3, CustodyConstants DEF Keys
<1> QED
  BY <1>2, <1>4, CustodyConstants DEF Recoverable

(* A key is made only for the pending round, at its index.                 *)
LEMMA CreateKeyStep ==
    ASSUME CInv, NEW q \in Pages, CreateKey(q)
    PROVE  CInv'
<1>1. page[q] \in PageRecords /\ PageOK(page[q]) /\ page[q].step = "absent"
      /\ UNCHANGED <<history, registered, othersDone, terms>>
  BY DEF CInv, CustodyTypes, CreateKey, At
<1>2. PICK o \in Orgs, r \in Rounds, policy \in Policies :
         /\ o = page[q].bundle.org /\ o = Latest.org
         /\ r = page[q].round /\ policy = page[q].policy
         /\ IndexOf(r) \in Indexes /\ policy.round = r
         /\ live[o][IndexOf(r)] = None =>
                Latest.pending = r /\ Recoverable(o, IndexOf(r), policy)
  BY <1>1, AskedIsOnRecord
<1>3. Latest' = Latest
  BY <1>1 DEF Latest
<1>4. ASSUME Creates(o, IndexOf(r), policy),
             Goes(q, [page[q] EXCEPT !.step = "created",
                         !.key = [org |-> o, round |-> r, policy |-> policy]])
      PROVE  CInv'
  <2>1. /\ live[o][IndexOf(r)] = None /\ late' = late
        /\ live' = [live EXCEPT ![o][IndexOf(r)] = policy]
    BY <1>4 DEF Creates
  <2>2. live \in [Orgs -> [Indexes -> Policies \cup {None}]]
    BY DEF CInv, CustodyTypes
  <2>3. /\ live' \in [Orgs -> [Indexes -> Policies \cup {None}]]
        /\ live'[o][IndexOf(r)] = policy
        /\ \A x \in Orgs, i \in Indexes :
              live'[x][i] = live[x][i] \/ (x = o /\ i = IndexOf(r) /\ live'[x][i] = policy)
    BY <1>2, <2>1, <2>2
  <2>4. \A x \in Orgs, i \in Indexes : live[x][i] # None => live'[x][i] = live[x][i]
    BY <2>1, <2>3
  <2>5. /\ LatestOK' /\ PublicOK' /\ HistoryFits'
        /\ Latest' = Latest /\ NextRound' = NextRound
        /\ \A p \in PageRecords : PageOK(p) => PageOK(p)'
    BY <1>1, <2>3, <2>4, ServiceGrows
  <2>6. [org |-> o, round |-> r, policy |-> policy] \in Keys
    BY DEF Keys
  <2>7. PICK p \in PageRecords :
           /\ p.step = "created" /\ p.key = [org |-> o, round |-> r, policy |-> policy]
           /\ p.bundle = page[q].bundle /\ p.revision = page[q].revision
           /\ p.round = r /\ p.policy = policy
           /\ page' = [page EXCEPT ![q] = p]
    <3> DEFINE p == [page[q] EXCEPT !.step = "created",
                         !.key = [org |-> o, round |-> r, policy |-> policy]]
    <3>1. /\ p \in PageRecords
          /\ p.step = "created" /\ p.key = [org |-> o, round |-> r, policy |-> policy]
          /\ p.bundle = page[q].bundle /\ p.revision = page[q].revision
          /\ p.round = r /\ p.policy = policy
      BY <1>1, <1>2, <2>6 DEF PageRecords
    <3> QED
      BY <1>4, <3>1 DEF Goes
  <2>8. CustodyTypes'
    <3>1. \A x \in Orgs, i \in Indexes : live'[x][i] # None => IndexOf(live'[x][i].round) = i
      BY <1>2, <2>3 DEF CInv, CustodyTypes
    <3> QED
      BY <1>1, <2>1, <2>3, <2>7, <3>1 DEF CInv, CustodyTypes
  <2>9. PageKeysAreRecoverable'
    <3>1. ASSUME NEW x \in Orgs, NEW i \in Indexes, live'[x][i] # None
          PROVE  Recoverable(x, i, live[x][i])'
      <4>1. Recoverable(x, i, live'[x][i])
        BY <1>2, <2>1, <2>3, <3>1 DEF CInv, PageKeysAreRecoverable
      <4> QED
        BY <1>3, <4>1 DEF Recoverable
    <3>2. ASSUME NEW l \in late, live'[l.org][l.index] = None
          PROVE  Recoverable(l.org, l.index, l.policy)'
      <4>1. live[l.org][l.index] = None
        BY <2>4, <3>2 DEF CInv, CustodyTypes
      <4>2. Recoverable(l.org, l.index, l.policy)
        BY <4>1 DEF CInv, PageKeysAreRecoverable
      <4> QED
        BY <1>3, <4>2 DEF Recoverable
    <3> QED
      BY <2>1, <3>1, <3>2 DEF PageKeysAreRecoverable, Recoverable
  <2>10. PageOK(p)'
    <3>1. page[q].step # "idle" /\ BundleOK(page[q]) /\ RoundOK(page[q])
          /\ page[q].bundle.pending = r
      BY <1>1, <1>2 DEF PageOK, StepOK, Chose, Reserved
    <3>2. p.key \in Keys /\ p.key = KeyAt(Latest.org, p.round)'
      BY <1>2, <2>3, <2>5, <2>6, <2>7 DEF KeyAt
    <3>3. RoundOK(p)'
      BY <1>1, <1>2, <2>5, <2>7, <3>1 DEF RoundOK
    <3>4. StepOK(p)'
      BY <2>7, <3>1, <3>2, <3>3 DEF StepOK, Chose, Reserved, HasKey
    <3>5. BundleOK(p)'
      BY <1>1, <2>5, <2>7, <3>1 DEF BundleOK, OnRecord
    <3> QED
      BY <3>4, <3>5 DEF PageOK
  <2>11. ASSUME NEW x \in Pages PROVE PageOK(page[x])'
    <3>1. PICK y \in PageRecords : y = page'[x]
      BY <2>8 DEF CustodyTypes
    <3>2. y = p \/ (x # q /\ y = page[x])
      BY <2>7, <3>1 DEF CInv, CustodyTypes
    <3>3. PageOK(y)'
      BY <2>5, <2>10, <3>2 DEF CInv
    <3> QED
      BY <3>1, <3>3 DEF PageOK, StepOK, BundleOK, RoundOK
  <2> QED
    BY <2>5, <2>8, <2>9, <2>11 DEF CInv
<1>5. ASSUME CreationLost(o, IndexOf(r), policy), Goes(q, Rest)
      PROVE  CInv'
  <2>1. /\ live[o][IndexOf(r)] = None /\ live' = live
        /\ late' = late \cup {[org |-> o, index |-> IndexOf(r), policy |-> policy]}
        /\ page' = [page EXCEPT ![q] = Rest]
    BY <1>5 DEF CreationLost, Goes
  <2>2. live \in [Orgs -> [Indexes -> Policies \cup {None}]]
    BY DEF CInv, CustodyTypes
  <2>3. /\ LatestOK' /\ PublicOK' /\ HistoryFits'
        /\ \A p \in PageRecords : PageOK(p) => PageOK(p)'
    BY <1>1, <2>1, <2>2, ServiceGrows
  <2>4. CustodyTypes'
    BY <1>1, <1>2, <2>1, RestIsOK DEF CInv, CustodyTypes
  <2>5. PageKeysAreRecoverable'
    <3>1. ASSUME NEW l \in late', live'[l.org][l.index] = None
          PROVE  Recoverable(l.org, l.index, l.policy)'
      <4>1. Recoverable(l.org, l.index, l.policy)
        BY <1>2, <2>1, <3>1 DEF CInv, PageKeysAreRecoverable
      <4> QED
        BY <1>3, <4>1 DEF Recoverable
    <3>2. ASSUME NEW x \in Orgs, NEW i \in Indexes, live'[x][i] # None
          PROVE  Recoverable(x, i, live[x][i])'
      BY <1>3, <2>1, <3>2 DEF CInv, PageKeysAreRecoverable, Recoverable
    <3> QED
      BY <3>1, <3>2 DEF PageKeysAreRecoverable, Recoverable
  <2>6. ASSUME NEW x \in Pages PROVE PageOK(page[x])'
    <3>1. PICK y \in PageRecords : y = page'[x]
      BY <2>4 DEF CustodyTypes
    <3>2. y = Rest \/ y = page[x]
      BY <2>1, <3>1 DEF CInv, CustodyTypes
    <3>3. PageOK(y)'
      BY <2>3, <3>2, RestIsOK DEF CInv
    <3> QED
      BY <3>1, <3>3 DEF PageOK, StepOK, BundleOK, RoundOK
  <2> QED
    BY <2>3, <2>4, <2>5, <2>6 DEF CInv
<1> QED
  BY <1>2, <1>4, <1>5 DEF CreateKey

(* A creation carried out after its request was given up makes the key the *)
(* next attempt asks for.                                                  *)
LEMMA LateCreationStep ==
    ASSUME CInv, LateCreation, UNCHANGED custody
    PROVE  CInv'
<1>1. PICK r \in late :
         /\ live[r.org][r.index] = None
         /\ live' = [live EXCEPT ![r.org][r.index] = r.policy]
         /\ late' = late \ {r}
  BY DEF LateCreation
<1>2. /\ r.org \in Orgs /\ r.index \in Indexes /\ r.policy \in Policies
      /\ live \in [Orgs -> [Indexes -> Policies \cup {None}]]
  BY DEF CInv, CustodyTypes
<1>3. /\ live' \in [Orgs -> [Indexes -> Policies \cup {None}]]
      /\ \A x \in Orgs, i \in Indexes :
            live'[x][i] = live[x][i] \/ (x = r.org /\ i = r.index /\ live'[x][i] = r.policy)
  BY <1>1, <1>2
<1>4. \A x \in Orgs, i \in Indexes : live[x][i] # None => live'[x][i] = live[x][i]
  BY <1>1, <1>3
<1>5. /\ LatestOK' /\ PublicOK' /\ HistoryFits' /\ Latest' = Latest
      /\ \A p \in PageRecords : PageOK(p) => PageOK(p)'
  BY <1>3, <1>4, ServiceGrows DEF custody
<1>6. CustodyTypes'
  BY <1>1, <1>3 DEF CInv, CustodyTypes, custody
<1>7. PageKeysAreRecoverable'
  <2>1. ASSUME NEW x \in Orgs, NEW i \in Indexes, live'[x][i] # None
        PROVE  Recoverable(x, i, live[x][i])'
    <3>1. Recoverable(x, i, live'[x][i])
      BY <1>1, <1>3, <2>1 DEF CInv, PageKeysAreRecoverable
    <3> QED
      BY <1>5, <3>1 DEF Recoverable
  <2>2. ASSUME NEW l \in late', live'[l.org][l.index] = None
        PROVE  Recoverable(l.org, l.index, l.policy)'
    <3>1. l \in late /\ live[l.org][l.index] = None
      BY <1>1, <1>4, <2>2 DEF CInv, CustodyTypes
    <3>2. Recoverable(l.org, l.index, l.policy)
      BY <3>1 DEF CInv, PageKeysAreRecoverable
    <3> QED
      BY <1>5, <3>2 DEF Recoverable
  <2> QED
    BY <2>1, <2>2 DEF PageKeysAreRecoverable, Recoverable
<1>8. ASSUME NEW x \in Pages PROVE PageOK(page[x])'
  <2>1. PICK y \in PageRecords : y = page'[x] /\ y = page[x]
    BY DEF CInv, CustodyTypes, custody
  <2>2. PageOK(y)'
    BY <1>5, <2>1 DEF CInv
  <2> QED
    BY <2>1, <2>2 DEF PageOK, StepOK, BundleOK, RoundOK
<1> QED
  BY <1>5, <1>6, <1>7, <1>8 DEF CInv

(* What the manifest asks for changes, and every tab's round is still what *)
(* it asks for or has been registered.                                     *)
LEMMA ManifestMoves ==
    ASSUME CInv, CustodyTypes', PublicOK',
           UNCHANGED <<history, service>>,
           Latest.pending # None => NextRound' = Latest.pending,
           \A x \in Pages : page'[x] = page[x] \/ page'[x] = Rest,
           \A r \in Rounds : r = NextRound \/ registered[r] # None
                                => r = NextRound' \/ registered'[r] # None
    PROVE  CInv'
<1>1. Latest' = Latest
  BY DEF Latest
<1>2. LatestOK' /\ PageKeysAreRecoverable' /\ HistoryFits'
  BY <1>1 DEF CInv, LatestOK, PageKeysAreRecoverable, Recoverable, HistoryFits, service
<1>3. ASSUME NEW x \in Pages PROVE PageOK(page[x])'
  <2>1. PICK y : y = page'[x]
    OBVIOUS
  <2>2. PageOK(y)
    BY <2>1, RestIsOK DEF CInv
  <2>3. Chose(y) => RoundOK(y)'
    BY <2>2 DEF PageOK, StepOK, RoundOK
  <2>4. StepOK(y)'
    BY <1>1, <2>2, <2>3 DEF PageOK, StepOK, Chose, Reserved, HasKey, KeyAt, service
  <2>5. y.step # "idle" => BundleOK(y)'
    BY <1>1, <2>2 DEF PageOK, BundleOK, OnRecord
  <2> QED
    BY <2>1, <2>4, <2>5 DEF PageOK, StepOK, BundleOK, RoundOK
<1> QED
  BY <1>2, <1>3 DEF CInv

(* Only a protected key is registered.                                     *)
LEMMA RegisterStep ==
    ASSUME CInv, NEW q \in Pages, NEW key \in Latest.keys, NEW policy, Register(key, policy),
           Goes(q, Rest), UNCHANGED <<history, othersDone, terms, service>>
    PROVE  CInv'
<1>1. key \in Keys /\ key.round \in Rounds /\ key # None
  BY LatestIs, CustodyConstants DEF CInv, CustodyTypes, Bundles, NoBundle, Keys
<1>2. NextRound = key.round /\ registered' = [registered EXCEPT ![key.round] = key]
  BY DEF Register
<1>3. CustodyTypes'
  BY <1>1, <1>2, RestIsOK DEF CInv, CustodyTypes, service, Goes
<1>4. Latest' = Latest
  BY DEF Latest
<1>5. PublicOK'
  BY <1>1, <1>2, <1>4 DEF CInv, CustodyTypes, PublicOK
<1>6. Latest.pending = None
  <2>1. KeyFor(Latest, key.round) = {key}
    BY DEF CInv, LatestOK
  <2> QED
    BY <1>2, <2>1 DEF CInv, LatestOK, HistoryFits
<1>7. \A x \in Pages : page'[x] = page[x] \/ page'[x] = Rest
  BY DEF CInv, CustodyTypes, Goes
<1>8. \A r \in Rounds : r = NextRound \/ registered[r] # None => registered'[r] # None
  BY <1>1, <1>2 DEF CInv, CustodyTypes
<1> QED
  BY <1>3, <1>5, <1>6, <1>7, <1>8, ManifestMoves

(* The two ways a key comes to be published: it was protected before, or   *)
(* this tab has just protected it.                                         *)
LEMMA PublishStep ==
    ASSUME CInv, NEW q \in Pages, PublishProtected(q) \/ PublishRegistration(q)
    PROVE  CInv'
<1>1. page[q] \in PageRecords /\ PageOK(page[q])
  BY DEF CInv, CustodyTypes
<1>2. PICK key \in Latest.keys : Register(key, page[q].policy)
  <2>1. CASE PublishProtected(q)
    BY <1>1, <2>1 DEF PublishProtected, KeyFor, At, PageOK, BundleOK
  <2>2. CASE PublishRegistration(q)
    BY <1>1, <2>2 DEF PublishRegistration, At, PageOK, StepOK
  <2> QED
    BY <2>1, <2>2
<1>3. Goes(q, Rest) /\ UNCHANGED <<history, othersDone, terms, service>>
  BY DEF PublishProtected, PublishRegistration
<1> QED
  BY <1>2, <1>3, RegisterStep

(* The pair keys of the others are complete; other economics are deployed. *)
LEMMA AroundStep ==
    ASSUME CInv, OthersFinish \/ Redeploy
    PROVE  CInv'
<1>1. UNCHANGED <<history, registered, page, service>>
  BY DEF OthersFinish, Redeploy
<1>2. CustodyTypes'
  BY <1>1 DEF CInv, CustodyTypes, OthersFinish, Redeploy, service
<1>3. PublicOK'
  BY <1>1 DEF CInv, PublicOK, Latest
<1>4. NextRound # None => NextRound' = NextRound
  BY <1>1 DEF OthersFinish, Redeploy, NextRound, Missing
<1>5. \A r \in Rounds : r # None
  BY CustodyConstants
<1>6. Latest.pending # None => NextRound' = Latest.pending
  BY <1>4 DEF CInv, HistoryFits
<1>7. \A r \in Rounds : r = NextRound \/ registered[r] # None
                         => r = NextRound' \/ registered'[r] # None
  BY <1>1, <1>4, <1>5
<1> QED
  BY <1>1, <1>2, <1>3, <1>6, <1>7, ManifestMoves

(* Every step of a tab, its end and a late creation keep CInv.             *)
LEMMA CustodyStep ==
    ASSUME CInv, CustodyNext \/ UNCHANGED <<service, custody>>
    PROVE  CInv'
<1>1. ASSUME UNCHANGED <<service, custody>> PROVE CInv'
  <2>1. NextRound' = NextRound
    BY <1>1 DEF NextRound, Missing, custody
  <2>2. CustodyTypes' /\ PublicOK'
    BY <1>1 DEF CInv, CustodyTypes, PublicOK, Latest, service, custody
  <2> QED
    BY <1>1, <2>1, <2>2, ManifestMoves DEF CInv, HistoryFits, custody
<1>2. ASSUME NEW q \in Pages, StopPage(q) PROVE CInv'
  BY <1>2, PageMoves, RestIsOK DEF StopPage, Goes
<1> QED
  BY <1>1, <1>2, AuthorizeCustodyStep, OpenCustodyStep, ReadManifestStep, PublishStep,
     ReserveStep, ListKeysStep, CreateKeyStep, ProtectKeyStep, AroundStep, LateCreationStep
     DEF CustodyNext

(* No bundle, no keys, no tab.                                             *)
LEMMA CustodyInitOK == ServiceInit /\ CustodyInit => CInv
<1> SUFFICES ASSUME ServiceInit, CustodyInit PROVE CInv
  OBVIOUS
<1>1. Latest = NoBundle /\ NoBundle.keys = {} /\ NoBundle.pending = None
  BY DEF CustodyInit, Latest, NoBundle
<1>2. Rest \in PageRecords
  BY DEF PageRecords, Rest
<1>3. CustodyTypes
  BY <1>2, EmptySeq DEF ServiceInit, CustodyInit, CustodyTypes
<1>4. LatestOK
  BY <1>1, FS_EmptySet DEF LatestOK
<1>5. PublicOK /\ HistoryFits
  BY <1>1 DEF CustodyInit, PublicOK, HistoryFits
<1>6. PageKeysAreRecoverable
  BY DEF ServiceInit, PageKeysAreRecoverable
<1>7. \A q \in Pages : PageOK(page[q])
  BY DEF CustodyInit, PageOK, StepOK, Rest, Chose, Reserved, HasKey
<1> QED
  BY <1>3, <1>4, <1>5, <1>6, <1>7 DEF CInv

(* A round has its own index, one of three.                                *)
LEMMA IndexesOfRounds ==
    /\ \A r \in Rounds : IndexOf(r) \in 0 .. 2
    /\ \A r, s \in Rounds : IndexOf(r) = IndexOf(s) => r = s
<1>1. /\ PairRounds \in Seq(Rounds) /\ Len(PairRounds) \in Nat /\ Len(PairRounds) <= 2
      /\ DOMAIN PairRounds = 1 .. Len(PairRounds)
  BY CustodyAssumption, RoomAssumption
<1>2. /\ Len(LeaveRounds) = 1 + Len(PairRounds)
      /\ DOMAIN LeaveRounds = 1 .. (1 + Len(PairRounds))
      /\ LeaveRounds[1] = RoundOne
      /\ \A n \in 1 .. Len(PairRounds) : LeaveRounds[n + 1] = PairRounds[n]
  BY <1>1 DEF LeaveRounds
<1>3. ASSUME NEW r \in Rounds PROVE \E n \in DOMAIN LeaveRounds : LeaveRounds[n] = r
  <2>1. CASE r = RoundOne
    BY <1>1, <1>2, <2>1
  <2>2. CASE r # RoundOne
    <3>1. PICK n \in 1 .. Len(PairRounds) : PairRounds[n] = r
      BY <1>1, <2>2 DEF Rounds, Range
    <3>2. n + 1 \in 1 .. (1 + Len(PairRounds))
      BY <1>1
    <3> QED
      BY <1>2, <3>1, <3>2
  <2> QED
    BY <2>1, <2>2
<1>4. ASSUME NEW r \in Rounds
      PROVE  IndexOf(r) \in 0 .. 2 /\ LeaveRounds[IndexOf(r) + 1] = r
  <2>1. PICK n : n \in DOMAIN LeaveRounds /\ LeaveRounds[n] = r /\ IndexOf(r) = n - 1
    BY <1>3 DEF IndexOf
  <2> QED
    BY <1>1, <1>2, <2>1
<1> QED
  BY <1>4

(* Besides a round that has none, two keys at most are protected.          *)
LEMMA TwoKeysAtMost ==
    ASSUME CInv, NEW r \in Rounds, KeyFor(Latest, r) = {}
    PROVE  IsFiniteSet(Latest.keys) /\ Cardinality(Latest.keys) \in 0 .. 2
<1> DEFINE K == Latest.keys
           Free == (0 .. 2) \ {IndexOf(r)}
           f == [k \in K |-> IndexOf(k.round)]
<1>1. \A k \in K : k \in Keys /\ k.round \in Rounds /\ k.round # r
  BY LatestIs DEF CInv, CustodyTypes, Bundles, NoBundle, Keys, KeyFor
<1>2. f \in [K -> Free]
  BY <1>1, IndexesOfRounds
<1>3. \A k, l \in K : f[k] = f[l] => k = l
  <2> SUFFICES ASSUME NEW k \in K, NEW l \in K, f[k] = f[l] PROVE k = l
    OBVIOUS
  <2>1. k.round = l.round
    BY <1>1, IndexesOfRounds
  <2>2. KeyFor(Latest, k.round) = {k} /\ KeyFor(Latest, l.round) = {l}
    BY DEF CInv, LatestOK
  <2> QED
    BY <2>1, <2>2
<1>4. IsFiniteSet(Free) /\ Cardinality(Free) = 2
  <2>1. IsFiniteSet(0 .. 2) /\ Cardinality(0 .. 2) = 3
    <3>1. \A n \in Nat : IsFiniteSet(0 .. n) /\ Cardinality(0 .. n) = n + 1
      BY FS_Interval
    <3>2. 2 \in Nat /\ 2 + 1 = 3
      OBVIOUS
    <3> QED
      BY <3>1, <3>2, Zenon
  <2>2. IndexOf(r) \in 0 .. 2
    BY IndexesOfRounds
  <2> QED
    BY <2>1, <2>2, FS_RemoveElement
<1> HIDE DEF f, K, Free
<1>5. f \in Injection(K, Free)
  BY <1>2, <1>3, Fun_IsInj
<1>6. IsFiniteSet(K) /\ Cardinality(K) <= 2
  BY <1>4, <1>5, FS_Injection
<1> QED
  BY <1>6, FS_CardinalityType DEF K

(* The next round's key, if there is one, was made for that round under    *)
(* some economics.                                                         *)
LEMMA LeftWasAskedFor ==
    ASSUME CInv, history # <<>>, NextRound # None
    PROVE  \E t \in Terms : Undisputed(t)
<1>1. NextRound \in Rounds /\ Latest.org \in Orgs
  BY NextRoundIs, LatestIs DEF CInv, CustodyTypes, Bundles
<1>2. IndexOf(NextRound) \in Indexes
  BY <1>1, CustodyConstants
<1>3. CASE Left = None
  BY <1>3 DEF Undisputed, CInv, CustodyTypes
<1>4. CASE Left # None
  <2>1. Left \in Policies /\ IndexOf(Left.round) = IndexOf(NextRound)
    BY <1>1, <1>2, <1>4 DEF Left, CInv, CustodyTypes
  <2>2. Left.round = NextRound /\ Left.terms \in Terms
    BY <1>1, <2>1, IndexesOfRounds DEF Policies
  <2>3. Left = PolicyOf(NextRound, Left.terms)
    BY <2>1, <2>2 DEF Policies, PolicyOf
  <2> QED
    BY <2>2, <2>3 DEF Undisputed
<1> QED
  BY <1>3, <1>4

(* A snapshot changes nothing of a bundle but what it is made for.         *)
LEMMA SnapshotsKeep ==
    ASSUME NEW b \in Bundles, NEW r, NEW key
    PROVE  /\ \E c : /\ c = Pending(b, r) /\ c.keys = b.keys
                     /\ c.org = b.org /\ c.pending = r
           /\ \E c : /\ c = Completed(b, key) /\ c.keys = b.keys \cup {key}
                     /\ c.org = b.org /\ c.pending = None
<1>1. /\ Pending(b, r).keys = b.keys /\ Pending(b, r).org = b.org
      /\ Pending(b, r).pending = r
  BY DEF Pending, Bundles
<1>2. /\ Completed(b, key).keys = b.keys \cup {key} /\ Completed(b, key).org = b.org
      /\ Completed(b, key).pending = None
  BY DEF Completed, Bundles
<1> QED
  BY <1>1, <1>2

(* Under such economics no check refuses the next attempt.                 *)
LEMMA NextAttemptPasses ==
    ASSUME CInv, ~Strict, history # <<>>, NextRound # None, NEW t \in Terms, Undisputed(t)
    PROVE  Passes(t)
<1> DEFINE r == NextRound
           b == Latest
           policy == PolicyOf(r, t)
           key == [org |-> b.org, round |-> r, policy |-> IF Left = None THEN policy ELSE Left]
<1>1. r \in Rounds /\ r # None /\ b \in Bundles /\ Len(history) \in Nat
  BY NextRoundIs, LatestIs DEF CInv, CustodyTypes
<1>2. Agrees(b, r)
  BY DEF Agrees, CInv, HistoryFits
<1>3. \A k \in b.keys : k \in Keys /\ k.org = b.org /\ KeyFor(b, k.round) = {k}
  BY <1>1 DEF CInv, LatestOK, Bundles
<1>4. ASSUME NEW k \in KeyFor(b, r) PROVE Compiled(k, policy)
  <2>1. k \in b.keys /\ k.round = r
    BY DEF KeyFor
  <2>2. Left = k.policy /\ k.policy # None
    BY <1>3, <2>1, CustodyConstants DEF CInv, LatestOK, Left, Keys
  <2> QED
    BY <2>2 DEF Undisputed, Compiled
<1>5. ASSUME KeyFor(b, r) = {}
      PROVE  /\ HasRoom(b, Len(history) + 1) /\ MayList(b, r)
             /\ ValidBundle(Pending(b, r))
             /\ Compiled(key, policy) /\ ValidBundle(Completed(b, key))
  <2>1. IsFiniteSet(b.keys) /\ Cardinality(b.keys) \in 0 .. 2
    BY <1>1, <1>5, TwoKeysAtMost
  <2>2. HasRoom(b, Len(history) + 1)
    BY <2>1, RoomAssumption DEF HasRoom, CInv, HistoryFits
  <2>3. MayList(b, r)
    BY DEF MayList, Answers
  <2>4. ValidBundle(Pending(b, r))
    <3>1. PICK c : c = Pending(b, r) /\ c.keys = b.keys /\ c.org = b.org /\ c.pending = r
      BY <1>1, SnapshotsKeep
    <3>2. \A s : KeyFor(c, s) = KeyFor(b, s)
      BY <3>1 DEF KeyFor
    <3>3. Cardinality(c.keys) <= 3
      BY <2>1, <3>1
    <3> QED
      BY <1>3, <1>5, <3>1, <3>2, <3>3 DEF ValidBundle
  <2>5. Compiled(key, policy) /\ key.org = b.org /\ key.round = r
    BY DEF Undisputed, Compiled
  <2> HIDE DEF key
  <2>6. ValidBundle(Completed(b, key))
    <3>1. PICK c : /\ c = Completed(b, key) /\ c.keys = b.keys \cup {key}
                   /\ c.org = b.org /\ c.pending = None
      BY <1>1, SnapshotsKeep
    <3>2. KeyFor(c, r) = {key}
      BY <1>5, <2>5, <3>1 DEF KeyFor
    <3>3. \A k \in b.keys : KeyFor(c, k.round) = {k}
      BY <1>3, <1>5, <2>5, <3>1 DEF KeyFor
    <3>4. Cardinality(c.keys) <= 3
      <4>1. Cardinality(c.keys) \in {Cardinality(b.keys), Cardinality(b.keys) + 1}
        BY <2>1, <3>1, FS_AddElement
      <4> QED
        BY <2>1, <4>1
    <3> QED
      BY <1>3, <2>5, <3>1, <3>2, <3>3, <3>4 DEF ValidBundle
  <2> QED
    BY <2>2, <2>3, <2>4, <2>5, <2>6
<1> QED
  BY <1>2, <1>4, <1>5 DEF Passes

(* What CInv says of the properties of the tabs.                           *)
LEMMA CustodyPromises ==
    ASSUME CInv
    PROVE  PageKeysAreRecoverable /\ RegisteredAreProtected /\ (~Strict => PageCanGoOn)
<1>1. ASSUME NEW r \in Rounds, registered[r] # None
      PROVE  registered[r] = KeyAt(Latest.org, r)
  <2>1. registered[r].round = r /\ registered[r] \in Latest.keys /\ registered[r] \in Keys
    BY <1>1 DEF CInv, CustodyTypes, PublicOK
  <2>2. /\ registered[r].org = Latest.org
        /\ live[registered[r].org][IndexOf(registered[r].round)] = registered[r].policy
    BY <2>1 DEF CInv, LatestOK
  <2> QED
    BY <2>1, <2>2 DEF KeyAt, Keys
<1>2. ~Strict => PageCanGoOn
  BY LeftWasAskedFor, NextAttemptPasses DEF PageCanGoOn
<1> QED
  BY <1>1, <1>2 DEF CInv, PublicOK, RegisteredAreProtected

-----------------------------------------------------------------------------
(* Both clients.                                                           *)

(* A history has one of the clients.                                       *)
KeysInv ==
    /\ client \in {Browser, Command}
    /\ client = Browser => CInv
    /\ client = Command => OInv

(* Each client keeps its own invariant.                                    *)
LEMMA KeysInvariant == SigbashKeysSpec => []KeysInv
<1>1. Init => KeysInv
  BY OperatorInitOK, CustodyInitOK DEF Init, KeysInv
<1>2. KeysInv /\ [Next]_vars => KeysInv'
  <2> SUFFICES ASSUME KeysInv, [Next]_vars PROVE KeysInv'
    OBVIOUS
  <2>1. client' = client
    BY DEF Next, vars
  <2>2. CASE client = Browser
    <3>1. CustodyNext \/ UNCHANGED <<service, custody>>
      BY <2>2, ClientAssumption DEF Next, vars
    <3> QED
      BY <2>1, <2>2, <3>1, ClientAssumption, CustodyStep DEF KeysInv
  <2>3. CASE client = Command
    <3>1. OperatorNext \/ UNCHANGED <<service, operator>>
      BY <2>3, ClientAssumption DEF Next, vars
    <3> QED
      BY <2>1, <2>3, <3>1, ClientAssumption, OperatorStep DEF KeysInv
  <2> QED
    BY <2>2, <2>3 DEF KeysInv
<1> QED
  BY <1>1, <1>2, PTL DEF SigbashKeysSpec

(* No immutable key is created that its client cannot find again.          *)
THEOREM NothingStranded == SigbashKeysSpec => []NoKeyIsStranded
<1>1. KeysInv => NoKeyIsStranded
  BY OperatorPromises, CustodyPromises DEF KeysInv, NoKeyIsStranded
<1> QED
  BY <1>1, KeysInvariant, PTL

(* No key is public before its own recovery kit is saved.                  *)
THEOREM KitsComeFirst == SigbashKeysSpec => []KitBeforePublic
<1>1. KeysInv => KitBeforePublic
  BY OperatorPromises, CustodyPromises DEF KeysInv, KitBeforePublic
<1> QED
  BY <1>1, KeysInvariant, PTL

(* With a service that lists an organization without keys, a retry gets    *)
(* through whatever was left behind: for a tab, under the economics its    *)
(* key was made for; for the command, always.                              *)
THEOREM RetriesStayPossible ==
    ASSUME ~Strict
    PROVE  SigbashKeysSpec => []RetryIsPossible
<1>1. KeysInv => RetryIsPossible
  BY OperatorPromises, CustodyPromises DEF KeysInv, RetryIsPossible
<1> QED
  BY <1>1, KeysInvariant, PTL

(* The command's next run gets through, whatever the service does.         *)
THEOREM RunsStayPossible == SigbashKeysSpec => [](client = Command => RunCanGoOn)
<1>1. KeysInv => (client = Command => RunCanGoOn)
  BY OperatorPromises DEF KeysInv
<1> QED
  BY <1>1, KeysInvariant, PTL
=============================================================================
