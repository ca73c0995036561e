------------------------- MODULE Qwen36SchedulerProofs -------------------------
(***************************************************************************)
(* Proofs about Qwen36Scheduler, for every configuration and every shape   *)
(* of request, with and without device faults.                             *)
(***************************************************************************)
EXTENDS Qwen36Scheduler, QueueTheorems, FiniteSetTheorems, TLAPS

\* The limit the proofs use of the configuration.
LEMMA LimitIsPositive ==
  MaxActiveSequences \in Nat \ {0} /\ DecisionBranchCapacity \in Nat \ {0}
  BY LimitsAssumption

\* The pool is a finite set within the limit.
PoolInv == IsFiniteSet(sequences) /\ Cardinality(sequences) <= MaxActiveSequences

\* A step that adds nothing to the pool keeps it within the limit.
LEMMA ShrinkKeepsPool ==
  ASSUME PoolInv, sequences' \subseteq sequences
  PROVE  PoolInv'
  <1>1. IsFiniteSet(sequences') /\ Cardinality(sequences') <= Cardinality(sequences)
    BY FS_Subset DEF PoolInv
  <1>2. Cardinality(sequences') \in Nat /\ Cardinality(sequences) \in Nat
    BY <1>1, FS_CardinalityType DEF PoolInv
  <1> QED
    BY <1>1, <1>2, LimitIsPositive DEF PoolInv

\* One more sequence fits wherever an admission path found a free slot.
LEMMA AddOneKeepsPool ==
  ASSUME PoolInv, SlotFree, NEW s, sequences' = sequences \cup {s}
  PROVE  PoolInv'
  <1>1. IsFiniteSet(sequences')
        /\ Cardinality(sequences') \in {Cardinality(sequences), Cardinality(sequences) + 1}
    BY FS_AddElement DEF PoolInv
  <1>2. Cardinality(sequences) \in Nat
    BY FS_CardinalityType DEF PoolInv
  <1> QED
    BY <1>1, <1>2, LimitIsPositive DEF PoolInv, SlotFree

\* A wave of a decision group's branches fits: it is cut to the free slots.
LEMMA AddWaveKeepsPool ==
  ASSUME PoolInv, NEW id, NEW g, NEW admitted \in 1..WaveCapacity,
         sequences' = sequences \cup {BranchSequence(id, g.next_branch + i) : i \in 1..admitted}
  PROVE  PoolInv'
  <1> DEFINE wave == {BranchSequence(id, g.next_branch + i) : i \in 1..admitted}
             admit == [i \in 1..admitted |-> BranchSequence(id, g.next_branch + i)]
  <1>1. Cardinality(sequences) \in Nat
    BY FS_CardinalityType DEF PoolInv
  <1>2. admitted \in Nat /\ admitted <= MaxActiveSequences - Cardinality(sequences)
    BY <1>1, LimitIsPositive DEF MinOf, WaveCapacity
  <1>3. IsFiniteSet(1..admitted) /\ Cardinality(1..admitted) = admitted
    BY <1>2, FS_Interval
  <1>4. IsFiniteSet(wave) /\ Cardinality(wave) <= admitted
    <2>1. admit \in Surjection(1..admitted, wave)
      BY DEF Surjection
    <2> QED
      BY <1>3, <2>1, FS_Surjection
  <1> HIDE DEF wave
  <1>5. IsFiniteSet(sequences')
    BY <1>4, FS_Union DEF PoolInv, wave
  <1>6. Cardinality(sequences') = Cardinality(sequences) + Cardinality(wave)
                                    - Cardinality(sequences \cap wave)
    BY <1>4, FS_Union DEF PoolInv, wave
  <1>7. Cardinality(wave) \in Nat /\ Cardinality(sequences \cap wave) \in Nat
    BY <1>4, FS_CardinalityType, FS_Intersection DEF PoolInv
  <1> QED
    BY <1>1, <1>2, <1>4, <1>5, <1>6, <1>7, LimitIsPositive DEF PoolInv

\* The decision phase keeps the pool within the limit: it adds a parent where a slot is
\* free, a wave cut to the free slots, or nothing.
LEMMA DecisionKeepsPool ==
  ASSUME PoolInv, RunDecision
  PROVE  PoolInv'
  <1>1. CASE decision_queue = <<>>
    BY <1>1, ShrinkKeepsPool DEF RunDecision
  <1>2. CASE decision_queue # <<>>
    <2> DEFINE id == Head(decision_queue)
               g == decisions[id]
    <2>1. CASE AdmitParent(id, g)
      BY <2>1, ShrinkKeepsPool, AddOneKeepsPool DEF AdmitParent
    <2>2. CASE AdmitBranches(id, g)
      <3>1. PICK admitted \in 1..WaveCapacity :
              sequences' = sequences \cup {BranchSequence(id, g.next_branch + i) : i \in 1..admitted}
        BY <2>2 DEF AdmitBranches
      <3> HIDE DEF id, g
      <3> QED
        BY <3>1, AddWaveKeepsPool
    <2>3. CASE \/ PrefillParent(id, g) \/ RetainAlignedPrefix(id, g) \/ PrefillSuffixes(id, g)
      BY <2>3, ShrinkKeepsPool DEF PrefillParent, RetainAlignedPrefix, PrefillSuffixes
    <2>4. CASE ReadBranches(id, g) \/ CompleteDecision(id, g) \/ FailDecision(id, g)
      BY <2>4, ShrinkKeepsPool DEF ReadBranches, CompleteDecision, FailDecision
    <2> HIDE DEF g
    <2> QED
      BY <1>2, <2>1, <2>2, <2>3, <2>4 DEF RunDecision, g
  <1> QED
    BY <1>1, <1>2

\* Every step of the scheduler keeps the pool within the limit.
LEMMA NextKeepsPool ==
  ASSUME PoolInv, [Next]_vars
  PROVE  PoolInv'
  <1>1. CASE AdmitWaiting
    BY <1>1, AddOneKeepsPool DEF AdmitWaiting
  <1>2. CASE AdmitFails
    BY <1>2, AddOneKeepsPool, ShrinkKeepsPool DEF AdmitFails
  <1>3. CASE StartTick \/ AdmitDone \/ RunPrefill \/ DecodeFails \/ PrefillFails \/ PrefillLoses
    BY <1>3, ShrinkKeepsPool
    DEF StartTick, AdmitDone, RunPrefill, DecodeFails, PrefillFails, PrefillLoses
  <1>4. CASE RunDecode
    BY <1>4, ShrinkKeepsPool DEF RunDecode
  <1>5. CASE DecodeLoses
    BY <1>5, ShrinkKeepsPool DEF DecodeLoses
  <1>6. CASE RunDecision
    BY <1>6, DecisionKeepsPool
  <1>7. CASE Call
    BY <1>7, ShrinkKeepsPool
    DEF Call, AddRequest, AddDecision, Cancel, CancelRequest, CancelDecision, RemoveFinished
  <1>8. CASE UNCHANGED vars
    BY <1>8, ShrinkKeepsPool DEF vars
  <1> QED
    BY <1>1, <1>2, <1>3, <1>4, <1>5, <1>6, <1>7, <1>8 DEF Next, Tick, TickFails

\* Whatever requests come, are cancelled or fail, the three admission paths of
\* the scheduler together never hold more than max_active_sequences sequences.
THEOREM SlotLimitHolds == Spec => []SlotsWithinLimit
  <1>1. Init => PoolInv
    BY FS_EmptySet, LimitIsPositive DEF Init, PoolInv
  <1>2. PoolInv /\ [Next]_vars => PoolInv'
    BY NextKeepsPool
  <1>3. PoolInv => SlotsWithinLimit
    BY DEF PoolInv, SlotsWithinLimit
  <1> QED
    BY <1>1, <1>2, <1>3, PTL DEF Spec

--------------------------------------------------------------------------------
(***************************************************************************)
(* Ownership of sequences by requests and by decision parents.  The tables *)
(* are only known to hold records of the right shape: how far a prompt has *)
(* come plays no part in who owns a sequence.                              *)
(***************************************************************************)

\* The fields of a request that the ownership argument reads.
RequestShape(r) ==
  /\ {"sequence", "lifecycle"} \subseteq DOMAIN r
  /\ r.sequence \in BOOLEAN

\* The fields of a decision group that the ownership argument reads.
GroupShape(g) ==
  /\ {"parent", "state"} \subseteq DOMAIN g
  /\ g.parent \in BOOLEAN
  /\ g.parent => g.state = "Queued"

\* The requests table holds requests of that shape.
RequestTable ==
  DOMAIN requests = Ids /\ \A id \in Ids : RequestShape(requests[id])

\* The groups table holds groups of that shape.
GroupTable ==
  DOMAIN decisions = Ids /\ \A id \in Ids : GroupShape(decisions[id])

\* Identities that were not handed out yet have no group.
FreshGroups ==
  next_id \in Nat /\ \A id \in Ids : decisions[id].state # "Absent" => id < next_id

\* What every step keeps of the groups and the parent sequences they own.
ParentInv == GroupTable /\ FreshGroups /\ ParentsOwnLive /\ ParentsNotLeaked

\* Replacing one group keeps parents and their sequences together when it does so
\* for that group and leaves the other groups' parents alone.
LEMMA ReplaceGroup ==
  ASSUME ParentInv, NEW id, NEW h, decisions' = [decisions EXCEPT ![id] = h],
         id \in Ids => /\ GroupShape(h)
                       /\ ParentSequence(id) \in sequences' <=> h.parent
                       /\ id < next_id',
         next_id' \in Nat, next_id <= next_id',
         \A j \in Ids \ {id} :
           ParentSequence(j) \in sequences' <=> ParentSequence(j) \in sequences
  PROVE  ParentInv'
  <1>1. DOMAIN decisions' = Ids
        /\ \A j \in Ids : decisions'[j] = IF j = id THEN h ELSE decisions[j]
    BY DEF ParentInv, GroupTable
  <1>2. \A j \in Ids : GroupShape(decisions'[j])
    BY <1>1 DEF ParentInv, GroupTable
  <1>3. \A j \in Ids : ParentSequence(j) \in sequences' <=> decisions'[j].parent
    <2> TAKE j \in Ids
    <2>1. CASE j = id
      BY <2>1, <1>1
    <2>2. CASE j # id
      BY <2>2, <1>1 DEF ParentInv, ParentsOwnLive, ParentsNotLeaked
    <2> QED
      BY <2>1, <2>2
  <1>4. FreshGroups'
    <2>1. \A j \in Ids : j \in Int
      BY LimitIsPositive, LimitsAssumption DEF Ids
    <2> QED
      BY <1>1, <2>1 DEF ParentInv, FreshGroups
  <1> QED
    BY <1>1, <1>2, <1>3, <1>4 DEF ParentInv, GroupTable, ParentsOwnLive, ParentsNotLeaked

\* What an owned group knows about its parent.
LEMMA ParentOf ==
  ASSUME ParentInv, NEW id \in Ids
  PROVE  /\ GroupShape(decisions[id])
         /\ "parent" \in DOMAIN decisions[id] /\ "state" \in DOMAIN decisions[id]
         /\ ParentSequence(id) \in sequences <=> decisions[id].parent
         /\ decisions[id].state # "Absent" => id < next_id
  BY DEF ParentInv, GroupTable, GroupShape, FreshGroups, ParentsOwnLive, ParentsNotLeaked

\* Releasing a group clears its parent flag and takes the parent out of the pool.
LEMMA ReleaseGroupKeepsParents ==
  ASSUME ParentInv, NEW id, NEW state, decisions[id].state = "Queued", next_id' = next_id,
         decisions' = [decisions EXCEPT ![id] = ReleasedGroup(id, state)],
         sequences' = sequences \ GroupSequences(id)
  PROVE  ParentInv'
  <1>1. \A j \in Ids \ {id} :
          ParentSequence(j) \in sequences' <=> ParentSequence(j) \in sequences
    BY DEF GroupSequences, ParentSequence, BranchSequence
  <1>2. ASSUME id \in Ids
        PROVE  /\ GroupShape(ReleasedGroup(id, state))
               /\ ParentSequence(id) \in sequences' <=> ReleasedGroup(id, state).parent
    <2>1. {"parent", "state"} \subseteq DOMAIN ReleasedGroup(id, state)
      BY <1>2, ParentOf DEF ReleasedGroup
    <2>2. ReleasedGroup(id, state).parent = FALSE
      BY <1>2, ParentOf DEF ReleasedGroup
    <2>3. ParentSequence(id) \notin sequences'
      BY <1>2, ParentOf DEF GroupSequences
    <2> QED
      BY <2>1, <2>2, <2>3 DEF GroupShape
  <1>3. next_id \in Nat /\ (id \in Ids => id < next_id)
    BY ParentOf DEF ParentInv, FreshGroups
  <1>4. next_id' \in Nat /\ next_id <= next_id' /\ (id \in Ids => id < next_id')
    BY <1>3
  <1> QED
    BY <1>1, <1>2, <1>4, ReplaceGroup, Zenon

\* A step of a group that leaves its parent as it is.
SameParent(h, g) ==
  /\ {"parent", "state"} \subseteq DOMAIN h
  /\ h.parent = g.parent /\ h.state = g.state

\* Such a step keeps the parents' books when it adds and removes no parent.
LEMMA KeepParent ==
  ASSUME ParentInv, NEW id, NEW h, decisions' = [decisions EXCEPT ![id] = h],
         decisions[id].state = "Queued", next_id' = next_id,
         id \in Ids => SameParent(h, decisions[id]),
         \A j \in Ids : ParentSequence(j) \in sequences' <=> ParentSequence(j) \in sequences
  PROVE  ParentInv'
  <1>1. id \in Ids => GroupShape(h) /\ (ParentSequence(id) \in sequences' <=> h.parent)
    BY ParentOf DEF GroupShape, SameParent
  <1>2. next_id \in Nat /\ (id \in Ids => id < next_id)
    BY ParentOf DEF ParentInv, FreshGroups
  <1>3. next_id' \in Nat /\ next_id <= next_id' /\ (id \in Ids => id < next_id')
    BY <1>2
  <1> QED
    BY <1>1, <1>3, ReplaceGroup, Zenon

\* The decision phase moves the parent flag and the parent's sequence together.
LEMMA DecisionKeepsParents ==
  ASSUME ParentInv, RunDecision
  PROVE  ParentInv'
  <1>1. CASE decision_queue = <<>>
    BY <1>1 DEF RunDecision, ParentInv, GroupTable, FreshGroups, ParentsOwnLive, ParentsNotLeaked
  <1>2. CASE decision_queue # <<>>
    <2> DEFINE id == Head(decision_queue)
               g == decisions[id]
    <2>0. g.state = "Queued" /\ next_id' = next_id /\ next_id \in Nat
          /\ (id \in Ids => id < next_id)
      BY <1>2, ParentOf DEF RunDecision, ParentInv, FreshGroups
    <2>1. CASE AdmitParent(id, g)
      <3>1. CASE SlotFree
        <4> DEFINE h == [g EXCEPT !.parent = TRUE]
        <4>1. decisions' = [decisions EXCEPT ![id] = h]
          BY <2>1, <3>1 DEF AdmitParent, Rotate
        <4>2. sequences' = sequences \cup {ParentSequence(id)}
          BY <2>1, <3>1 DEF AdmitParent
        <4>3. id \in Ids => GroupShape(h) /\ h.parent
          BY <2>0, ParentOf DEF GroupShape
        <4>4. \A j \in Ids \ {id} : ParentSequence(j) \in sequences' <=> ParentSequence(j) \in sequences
          BY <4>2 DEF ParentSequence
        <4>5. ParentSequence(id) \in sequences'
          BY <4>2
        <4>6. next_id' \in Nat /\ next_id <= next_id' /\ (id \in Ids => id < next_id')
          BY <2>0
        <4> HIDE DEF id, g, h
        <4> QED
          BY <4>1, <4>3, <4>4, <4>5, <4>6, ReplaceGroup, Zenon
      <3>2. CASE ~SlotFree
        <4>1. decisions' = [decisions EXCEPT ![id] = g] /\ sequences' = sequences
          BY <2>1, <3>2 DEF AdmitParent, Rotate
        <4>2. id \in Ids => SameParent(g, g)
          BY ParentOf DEF SameParent
        <4> HIDE DEF id
        <4> QED
          BY <4>1, <4>2, <2>0, KeepParent
      <3> QED
        BY <3>1, <3>2
    <2>2. CASE AdmitBranches(id, g)
      <3>1. PICK admitted, wave :
              /\ decisions' = [decisions EXCEPT ![id] =
                   [g EXCEPT !.active = @ \o wave, !.next_branch = @ + admitted]]
              /\ sequences' = sequences \cup
                   {BranchSequence(id, g.next_branch + i) : i \in 1..admitted}
        BY <2>2 DEF AdmitBranches, Rotate
      <3> DEFINE h == [g EXCEPT !.active = @ \o wave, !.next_branch = @ + admitted]
      <3>2. id \in Ids => SameParent(h, g)
        BY ParentOf DEF SameParent
      <3>3. \A j \in Ids : ParentSequence(j) \in sequences' <=> ParentSequence(j) \in sequences
        BY <3>1 DEF ParentSequence, BranchSequence
      <3>4. decisions' = [decisions EXCEPT ![id] = h]
        BY <3>1
      <3> HIDE DEF id, h
      <3> QED
        BY <3>2, <3>3, <3>4, <2>0, KeepParent
    <2>3. CASE PrefillParent(id, g)
      <3>1. PICK v : decisions' = [decisions EXCEPT ![id] = [g EXCEPT !["parent_position"] = v]]
        BY <2>3 DEF PrefillParent, Rotate
      <3> DEFINE h == [g EXCEPT !["parent_position"] = v]
      <3>2. id \in Ids => SameParent(h, g)
        BY ParentOf DEF SameParent
      <3>3. decisions' = [decisions EXCEPT ![id] = h] /\ sequences' = sequences
        BY <3>1, <2>3 DEF PrefillParent
      <3> HIDE DEF id, h
      <3> QED
        BY <3>2, <3>3, <2>0, KeepParent
    <2>4. CASE RetainAlignedPrefix(id, g)
      <3> DEFINE h == [g EXCEPT !.aligned = TRUE]
      <3>2. id \in Ids => SameParent(h, g)
        BY ParentOf DEF SameParent
      <3>3. decisions' = [decisions EXCEPT ![id] = h] /\ sequences' = sequences
        BY <2>4 DEF RetainAlignedPrefix, Rotate
      <3> HIDE DEF id, h
      <3> QED
        BY <3>2, <3>3, <2>0, KeepParent
    <2>5. CASE PrefillSuffixes(id, g)
      <3>1. PICK v : decisions' = [decisions EXCEPT ![id] = [g EXCEPT !["active"] = v]]
        BY <2>5 DEF PrefillSuffixes, Rotate
      <3> DEFINE h == [g EXCEPT !["active"] = v]
      <3>2. id \in Ids => SameParent(h, g)
        BY ParentOf DEF SameParent
      <3>3. decisions' = [decisions EXCEPT ![id] = h] /\ sequences' = sequences
        BY <3>1, <2>5 DEF PrefillSuffixes
      <3> HIDE DEF id, h
      <3> QED
        BY <3>2, <3>3, <2>0, KeepParent
    <2>6. CASE ReadBranches(id, g)
      <3>1. PICK v, w, n : 
              /\ decisions' = [decisions EXCEPT ![id] = [g EXCEPT !.logits = w, !.active = v]]
              /\ sequences' = sequences \ {BranchSequence(id, g.active[i].branch) : i \in n}
        BY <2>6 DEF ReadBranches, Rotate
      <3> DEFINE h == [g EXCEPT !.logits = w, !.active = v]
      <3>2. id \in Ids => SameParent(h, g)
        BY ParentOf DEF SameParent
      <3>3. \A j \in Ids : ParentSequence(j) \in sequences' <=> ParentSequence(j) \in sequences
        BY <3>1 DEF ParentSequence, BranchSequence
      <3>4. decisions' = [decisions EXCEPT ![id] = h]
        BY <3>1
      <3> HIDE DEF id, h
      <3> QED
        BY <3>2, <3>3, <3>4, <2>0, KeepParent
    <2>7. CASE CompleteDecision(id, g)
      <3>1. CASE AllAdmitted(g)
        BY <2>7, <3>1, <2>0, ReleaseGroupKeepsParents DEF CompleteDecision
      <3>2. CASE ~AllAdmitted(g)
        <4>1. decisions' = [decisions EXCEPT ![id] = g] /\ sequences' = sequences
          BY <2>7, <3>2 DEF CompleteDecision, Rotate
        <4>2. id \in Ids => SameParent(g, g)
          BY ParentOf DEF SameParent
        <4> HIDE DEF id
        <4> QED
          BY <4>1, <4>2, <2>0, KeepParent
      <3> QED
        BY <3>1, <3>2
    <2>8. CASE FailDecision(id, g)
      BY <2>8, <2>0, ReleaseGroupKeepsParents DEF FailDecision
    <2> QED
      BY <1>2, <2>1, <2>2, <2>3, <2>4, <2>5, <2>6, <2>7, <2>8 DEF RunDecision
  <1> QED
    BY <1>1, <1>2

\* Every step of the scheduler keeps parents and their sequences together.
LEMMA NextKeepsParents ==
  ASSUME ParentInv, [Next]_vars
  PROVE  ParentInv'
  <1>1. ASSUME UNCHANGED decisions, next_id' \in Nat, next_id <= next_id',
               \A j \in Ids : ParentSequence(j) \in sequences' <=> ParentSequence(j) \in sequences
        PROVE  ParentInv'
    <2>1. \A j \in Ids : j \in Int
      BY LimitsAssumption DEF Ids
    <2> QED
      BY <1>1, <2>1 DEF ParentInv, GroupTable, FreshGroups, ParentsOwnLive, ParentsNotLeaked
  <1>a. next_id \in Nat
    BY DEF ParentInv, FreshGroups
  <1>2. CASE AdmitWaiting
    BY <1>1, <1>a, <1>2 DEF AdmitWaiting, ParentSequence, RequestSequence
  <1>3. CASE AdmitFails
    BY <1>1, <1>a, <1>3 DEF AdmitFails, ParentSequence, RequestSequence
  <1>4. CASE StartTick \/ AdmitDone \/ RunPrefill \/ DecodeFails \/ PrefillFails \/ PrefillLoses
    <2>1. UNCHANGED <<decisions, sequences, next_id>>
      BY <1>4
      DEF StartTick, AdmitDone, RunPrefill, DecodeFails, PrefillFails, PrefillLoses
    <2> QED
      BY <1>1, <1>a, <2>1
  <1>5. CASE RunDecode
    BY <1>1, <1>a, <1>5 DEF RunDecode, ParentSequence, RequestSequence
  <1>6. CASE DecodeLoses
    BY <1>1, <1>a, <1>6 DEF DecodeLoses, ParentSequence, RequestSequence
  <1>7. CASE RunDecision
    BY <1>7, DecisionKeepsParents
  <1>8. ASSUME NEW shape, AddDecision(shape)
        PROVE  ParentInv'
    <2> DEFINE h == [AbsentGroup EXCEPT !.state = "Queued", !.prefix = shape.prefix,
                                        !.suffixes = shape.suffixes]
    <2>1. decisions' = [decisions EXCEPT ![next_id] = h] /\ sequences' = sequences
      BY <1>8 DEF AddDecision
    <2>2. {"parent", "state"} \subseteq DOMAIN h /\ h.parent = FALSE
      BY DEF AbsentGroup
    <2>3. next_id' = next_id + 1
      BY <1>8 DEF AddDecision
    <2> HIDE DEF h
    <2>4. next_id \in Ids => ~decisions[next_id].parent /\ next_id < next_id'
      BY <1>a, <2>3, ParentOf DEF GroupShape
    <2>5. next_id \in Ids => GroupShape(h) /\ (ParentSequence(next_id) \in sequences' <=> h.parent)
      BY <2>1, <2>2, <2>4, ParentOf DEF GroupShape
    <2>6. next_id' \in Nat /\ next_id <= next_id'
      BY <1>a, <2>3
    <2> QED
      BY <2>1, <2>4, <2>5, <2>6, ReplaceGroup, Zenon
  <1>9. ASSUME NEW id, CancelDecision(id), next_id' = next_id
        PROVE  ParentInv'
    BY <1>9, ReleaseGroupKeepsParents DEF CancelDecision
  <1>10. ASSUME NEW id, CancelRequest(id), next_id' = next_id
         PROVE  ParentInv'
    BY <1>1, <1>a, <1>10 DEF CancelRequest, ParentSequence, RequestSequence
  <1>11. CASE \E shape \in ChatShapes : AddRequest(shape)
    BY <1>1, <1>a, <1>11 DEF AddRequest
  <1>12. CASE \E id \in Ids : RemoveFinished(id)
    BY <1>1, <1>a, <1>12 DEF RemoveFinished
  <1>13. CASE UNCHANGED vars
    BY <1>1, <1>a, <1>13 DEF vars
  <1>14. CASE \E shape \in DecisionShapes : AddDecision(shape)
    BY <1>8, <1>14
  <1>15. CASE \E id \in Ids : Cancel(id)
    BY <1>9, <1>10, <1>15 DEF Cancel
  <1> QED
    BY <1>2, <1>3, <1>4, <1>5, <1>6, <1>7, <1>11, <1>12, <1>13, <1>14, <1>15
    DEF Next, Tick, TickFails, Call

\* Identities that were not handed out yet have no request and no sequence.
FreshRequests ==
  /\ next_id \in Nat
  /\ \A id \in Ids : ~(id < next_id) => requests[id].lifecycle = "Absent" /\ ~requests[id].sequence

\* What every step keeps of the requests and the sequences they own.
RequestInv == RequestTable /\ FreshRequests /\ RequestsOwnLive

\* What replacing the request of one identity has to establish there.
RequestStep(id) ==
  /\ RequestShape(requests'[id])
  /\ requests'[id].sequence => RequestSequence(id) \in sequences'
  /\ ~(id < next_id') => requests'[id].lifecycle = "Absent" /\ ~requests'[id].sequence
  /\ ~DeviceFaults /\ RequestsNotLeaked =>
       (RequestSequence(id) \in sequences' => requests'[id].sequence)

\* The request invariant, and that without device faults nothing leaks.
RequestStepOK == RequestInv' /\ (~DeviceFaults /\ RequestsNotLeaked => RequestsNotLeaked')

\* The invariant is preserved identity by identity.
LEMMA RequestsPointwise ==
  ASSUME RequestInv, DOMAIN requests' = Ids, next_id' \in Nat,
         \A id \in Ids : RequestStep(id)
  PROVE  RequestStepOK
  BY DEF RequestInv, RequestTable, FreshRequests, RequestsOwnLive, RequestsNotLeaked,
         RequestStep, RequestStepOK

\* A request that keeps its entry and its sequence.
LEMMA RequestUntouched ==
  ASSUME RequestInv, NEW id \in Ids, requests'[id] = requests[id],
         RequestSequence(id) \in sequences' <=> RequestSequence(id) \in sequences,
         next_id' \in Nat, next_id <= next_id'
  PROVE  RequestStep(id)
  <1>1. id \in Int /\ next_id \in Nat
    BY LimitsAssumption DEF Ids, RequestInv, FreshRequests
  <1>2. ~(id < next_id') => ~(id < next_id)
    BY <1>1
  <1> QED
    BY <1>2, Zenon DEF RequestInv, RequestTable, FreshRequests, RequestsOwnLive,
         RequestsNotLeaked, RequestStep

\* What the invariant says of a retained request.
LEMMA RetainedRequest ==
  ASSUME RequestInv, NEW id \in Ids
  PROVE  /\ "sequence" \in DOMAIN requests[id] /\ "lifecycle" \in DOMAIN requests[id]
         /\ requests[id].sequence \in BOOLEAN
         /\ requests[id].sequence => RequestSequence(id) \in sequences
         /\ Retained(requests[id]) => id < next_id
         /\ next_id \in Nat /\ DOMAIN requests = Ids
  BY DEF RequestInv, RequestTable, RequestShape, FreshRequests, RequestsOwnLive,
         Retained, Live

\* The decode phase releases a request's sequence exactly when it finishes.
LEMMA DecodeKeepsRequests ==
  ASSUME RequestInv, RunDecode
  PROVE  RequestStepOK
  <1> DEFINE S == ToSet(DecodeSelection)
  <1>1. PICK out \in [S -> Outcomes] :
          /\ \A id \in S : PossibleOutcome(requests[id], out[id], Len(DecodeSelection) = 1)
          /\ requests' = [id \in Ids |-> IF id \in S
                            THEN AppliedSamples(requests[id], out[id]) ELSE requests[id]]
          /\ sequences' = sequences \ {RequestSequence(id) : id \in {i \in S : out[i].finished}}
          /\ next_id' = next_id
    BY Zenon DEF RunDecode
  <1> HIDE DEF S
  <1>2. ASSUME NEW id \in Ids
        PROVE  RequestStep(id)
    <2>1. CASE id \in S
      <3>1. requests'[id] = AppliedSamples(requests[id], out[id])
        BY <1>1, <2>1
      <3>2. out[id].finished \in BOOLEAN
        BY <1>1, <2>1 DEF Outcomes
      <3>3. {"sequence", "lifecycle"} \subseteq DOMAIN requests'[id]
        BY <3>1, <1>2, RetainedRequest DEF AppliedSamples
      <3>4. requests'[id].sequence = (requests[id].sequence /\ ~out[id].finished)
        BY <3>1, <1>2, RetainedRequest DEF AppliedSamples
      <3>5. RequestSequence(id) \in sequences' <=>
              RequestSequence(id) \in sequences /\ ~out[id].finished
        BY <1>1, <2>1 DEF RequestSequence
      <3>6. id < next_id'
        BY <1>1, <1>2, <2>1, RetainedRequest DEF PossibleOutcome
      <3> QED
        BY <1>2, <3>3, <3>4, <3>5, <3>6, RetainedRequest, Zenon
        DEF RequestStep, RequestShape, RequestsNotLeaked
    <2>2. CASE id \notin S
      <3>1. requests'[id] = requests[id]
        BY <1>1, <2>2
      <3>2. RequestSequence(id) \in sequences' <=> RequestSequence(id) \in sequences
        BY <1>1, <2>2 DEF RequestSequence
      <3> QED
        BY <1>1, <1>2, <3>1, <3>2, RequestUntouched, RetainedRequest
    <2> QED
      BY <2>1, <2>2
  <1>3. DOMAIN requests' = Ids /\ next_id' \in Nat
    BY <1>1 DEF RequestInv, FreshRequests
  <1> QED
    BY <1>2, <1>3, RequestsPointwise

\* The prefill phase changes how far requests have come, never what they own.
LEMMA PrefillKeepsRequests ==
  ASSUME RequestInv, RunPrefill
  PROVE  RequestStepOK
  <1>1. PICK plan \in {PrefillPlan} :
          requests' = [id \in Ids |-> IF id \in ToSet(plan.ids)
            THEN PrefilledRequest(requests[id],
                   plan.chunks[CHOOSE i \in DOMAIN plan.ids : plan.ids[i] = id])
            ELSE requests[id]]
    BY Zenon DEF RunPrefill
  <1>2. sequences' = sequences /\ next_id' = next_id
    BY DEF RunPrefill
  <1>3. ASSUME NEW id \in Ids
        PROVE  RequestStep(id)
    <2>1. CASE id \in ToSet(plan.ids)
      <3>1. PICK chunk : requests'[id] = PrefilledRequest(requests[id], chunk)
        BY <1>1, <2>1, Zenon
      <3>2. /\ {"sequence", "lifecycle"} \subseteq DOMAIN requests'[id]
            /\ requests'[id].lifecycle = requests[id].lifecycle
            /\ requests'[id].sequence = requests[id].sequence
        BY <1>3, <3>1, RetainedRequest DEF PrefilledRequest
      <3> QED
        BY <1>2, <1>3, <3>2, RetainedRequest, Zenon
        DEF RequestStep, RequestShape, RequestsNotLeaked, RequestInv, FreshRequests
    <2>2. CASE id \notin ToSet(plan.ids)
      <3>1. requests'[id] = requests[id]
        BY <1>1, <2>2, Zenon
      <3> QED
        BY <1>2, <1>3, <3>1, RequestUntouched, RetainedRequest
    <2> QED
      BY <2>1, <2>2
  <1>4. DOMAIN requests' = Ids /\ next_id' \in Nat
    <2>1. DOMAIN requests' = Ids
      BY <1>1, Zenon
    <2> QED
      BY <1>2, <2>1 DEF RequestInv, FreshRequests
  <1> QED
    BY <1>3, <1>4, RequestsPointwise

\* A step that replaces the entry of one identity, given what it establishes there.
LEMMA ReplaceRequest ==
  ASSUME RequestInv, NEW id, NEW r, requests' = [requests EXCEPT ![id] = r],
         next_id' \in Nat, next_id <= next_id',
         \A j \in Ids \ {id} :
           RequestSequence(j) \in sequences' <=> RequestSequence(j) \in sequences,
         id \in Ids => /\ RequestShape(r)
                       /\ r.sequence => RequestSequence(id) \in sequences'
                       /\ id < next_id'
                       /\ ~DeviceFaults /\ RequestsNotLeaked =>
                            (RequestSequence(id) \in sequences' => r.sequence)
  PROVE  RequestStepOK
  <1>1. DOMAIN requests' = Ids
        /\ \A j \in Ids : requests'[j] = IF j = id THEN r ELSE requests[j]
    BY DEF RequestInv, RequestTable
  <1>2. ASSUME NEW j \in Ids
        PROVE  RequestStep(j)
    <2>1. CASE j = id
      BY <1>1, <1>2, <2>1, Zenon DEF RequestStep
    <2>2. CASE j # id
      <3>1. requests'[j] = requests[j]
        BY <1>1, <1>2, <2>2
      <3> QED
        BY <1>2, <2>2, <3>1, RequestUntouched
    <2> QED
      BY <2>1, <2>2
  <1> QED
    BY <1>1, <1>2, RequestsPointwise

\* Admission hands the request the sequence it put into the pool.
LEMMA AdmissionKeepsRequests ==
  ASSUME RequestInv, NEW id, NEW cached, NEW lifecycle, Retained(requests[id]),
         requests' = [requests EXCEPT ![id] = AdmittedRequest(@, cached, lifecycle)],
         sequences' = sequences \cup {RequestSequence(id)}, next_id' = next_id
  PROVE  RequestStepOK
  <1> DEFINE r == AdmittedRequest(requests[id], cached, lifecycle)
  <1>1. requests' = [requests EXCEPT ![id] = r]
    OBVIOUS
  <1>2. id \in Ids => {"sequence", "lifecycle"} \subseteq DOMAIN r /\ r.sequence = TRUE
    BY RetainedRequest DEF AdmittedRequest
  <1>3. \A j \in Ids \ {id} :
          RequestSequence(j) \in sequences' <=> RequestSequence(j) \in sequences
    BY DEF RequestSequence
  <1>4. next_id' \in Nat /\ next_id <= next_id' /\ (id \in Ids => id < next_id')
    BY RetainedRequest DEF RequestInv, FreshRequests
  <1>5. RequestSequence(id) \in sequences'
    OBVIOUS
  <1> HIDE DEF r
  <1>6. id \in Ids => RequestShape(r)
    BY <1>2 DEF RequestShape
  <1> QED
    BY <1>1, <1>2, <1>3, <1>4, <1>5, <1>6, ReplaceRequest, Zenon

\* A step that leaves the request table and the requests' sequences alone.
LEMMA RequestsUnchanged ==
  ASSUME RequestInv, requests' = requests, next_id' \in Nat, next_id <= next_id',
         \A j \in Ids : RequestSequence(j) \in sequences' <=> RequestSequence(j) \in sequences
  PROVE  RequestStepOK
  <1>1. \A id \in Ids : RequestStep(id)
    BY RequestUntouched
  <1>2. DOMAIN requests' = Ids
    BY DEF RequestInv, RequestTable
  <1> QED
    BY <1>1, <1>2, RequestsPointwise

\* The decision phase never touches a request's sequence.
LEMMA DecisionKeepsRequests ==
  ASSUME RequestInv, RunDecision
  PROVE  RequestStepOK
  <1> DEFINE Kept == \A j \in Ids :
               RequestSequence(j) \in sequences' <=> RequestSequence(j) \in sequences
             id == Head(decision_queue)
             g == decisions[id]
  <1>1. ASSUME \/ decision_queue = <<>> \/ PrefillParent(id, g)
               \/ RetainAlignedPrefix(id, g) \/ PrefillSuffixes(id, g)
        PROVE  Kept
    BY <1>1 DEF RunDecision, PrefillParent, RetainAlignedPrefix, PrefillSuffixes
  <1> USE DEF RequestSequence, ParentSequence, BranchSequence
  <1>2. ASSUME AdmitParent(id, g) PROVE Kept
    BY <1>2 DEF AdmitParent
  <1>3. ASSUME AdmitBranches(id, g) PROVE Kept
    BY <1>3 DEF AdmitBranches
  <1>4. ASSUME ReadBranches(id, g) PROVE Kept
    BY <1>4 DEF ReadBranches
  <1>5. ASSUME CompleteDecision(id, g) \/ FailDecision(id, g) PROVE Kept
    BY <1>5 DEF CompleteDecision, FailDecision, GroupSequences
  <1> HIDE DEF Kept
  <1>6. Kept
    BY <1>1, <1>2, <1>3, <1>4, <1>5 DEF RunDecision
  <1>7. requests' = requests /\ next_id' \in Nat /\ next_id <= next_id'
    BY DEF RunDecision, RequestInv, FreshRequests
  <1> QED
    BY <1>6, <1>7, RequestsUnchanged DEF Kept

\* An error after the model ran loses requests, never one that is still owned.
LEMMA LossKeepsRequests ==
  ASSUME RequestInv, DecodeLoses \/ PrefillLoses
  PROVE  RequestStepOK
  <1>1. DeviceFaults
    BY DEF DecodeLoses, PrefillLoses
  <1>2. ASSUME NEW id \in Ids, Retained(requests[id]), next_id' = next_id,
               requests'[id] = LostRequest(requests[id])
        PROVE  RequestStep(id)
    <2>1. {"sequence", "lifecycle"} \subseteq DOMAIN requests'[id] /\ requests'[id].sequence = FALSE
      BY <1>2, RetainedRequest DEF LostRequest
    <2> QED
      BY <1>1, <1>2, <2>1, RetainedRequest DEF RequestStep, RequestShape
  <1>3. CASE PrefillLoses
    <2> DEFINE S == ToSet(PrefillPlan.ids)
    <2>1. /\ \A id \in S : Retained(requests[id])
          /\ requests' = [id \in Ids |-> IF id \in S THEN LostRequest(requests[id])
                                                     ELSE requests[id]]
          /\ sequences' = sequences /\ next_id' = next_id
      BY <1>3 DEF PrefillLoses
    <2> HIDE DEF S
    <2>2. ASSUME NEW id \in Ids PROVE RequestStep(id)
      BY <1>2, <2>1, <2>2, RequestUntouched, RetainedRequest
    <2>3. DOMAIN requests' = Ids /\ next_id' \in Nat
      BY <2>1 DEF RequestInv, FreshRequests
    <2> QED
      BY <2>2, <2>3, RequestsPointwise
  <1>4. CASE DecodeLoses
    <2> DEFINE selected == DecodeSelection
               S == ToSet(selected)
    <2>1. PICK out \in [S -> Outcomes], k \in 1..Len(selected), released \in BOOLEAN :
            LET done == ToSet(SubSeq(selected, 1, k - 1))
                freed == {i \in done : out[i].finished} \cup
                         {i \in {selected[k]} : released /\ out[i].finished}
            IN  /\ \A id \in S : PossibleOutcome(requests[id], out[id], Len(selected) = 1)
                /\ requests' = [id \in Ids |->
                     IF id \in done THEN AppliedSamples(requests[id], out[id])
                     ELSE IF id \in S THEN LostRequest(requests[id]) ELSE requests[id]]
                /\ sequences' = sequences \ {RequestSequence(id) : id \in freed}
      BY <1>4, Zenon DEF DecodeLoses
    <2> DEFINE done == ToSet(SubSeq(selected, 1, k - 1))
               freed == {i \in done : out[i].finished} \cup
                        {i \in {selected[k]} : released /\ out[i].finished}
    <2>2. /\ \A id \in S : PossibleOutcome(requests[id], out[id], Len(selected) = 1)
          /\ requests' = [id \in Ids |->
               IF id \in done THEN AppliedSamples(requests[id], out[id])
               ELSE IF id \in S THEN LostRequest(requests[id]) ELSE requests[id]]
          /\ sequences' = sequences \ {RequestSequence(id) : id \in freed}
      BY <2>1, Zenon
    <2>3. done \subseteq S /\ selected[k] \in S
      BY DEF ToSet
    <2>4. freed \subseteq S /\ \A i \in freed : out[i].finished
      BY <2>3
    <2>5. next_id' = next_id
      BY <1>4 DEF DecodeLoses
    <2>6. \A id \in Ids : RequestSequence(id) \in sequences' <=>
            RequestSequence(id) \in sequences /\ id \notin freed
      BY <2>2 DEF RequestSequence
    <2> HIDE DEF freed, done, S, selected
    <2>7. ASSUME NEW id \in Ids PROVE RequestStep(id)
      <3>1. CASE id \in done
        <4>1. requests'[id] = AppliedSamples(requests[id], out[id])
          BY <2>2, <2>7, <3>1
        <4>2. out[id].finished \in BOOLEAN
          BY <2>1, <2>3, <3>1 DEF Outcomes
        <4>3. {"sequence", "lifecycle"} \subseteq DOMAIN requests'[id]
          BY <4>1, <2>7, RetainedRequest DEF AppliedSamples
        <4>4. requests'[id].sequence = (requests[id].sequence /\ ~out[id].finished)
          BY <4>1, <2>7, RetainedRequest DEF AppliedSamples
        <4>5. id < next_id'
          BY <2>2, <2>3, <2>5, <2>7, <3>1, RetainedRequest DEF PossibleOutcome
        <4> QED
          BY <1>1, <2>4, <2>6, <2>7, <4>3, <4>4, <4>5, RetainedRequest, Zenon
          DEF RequestStep, RequestShape
      <3>2. CASE id \in S /\ id \notin done
        <4>1. requests'[id] = LostRequest(requests[id])
          BY <2>2, <2>7, <3>2
        <4> QED
          BY <1>2, <2>2, <2>5, <2>7, <3>2, <4>1 DEF PossibleOutcome
      <3>3. CASE id \notin S
        <4>1. requests'[id] = requests[id]
          BY <2>2, <2>3, <2>7, <3>3
        <4>2. RequestSequence(id) \in sequences' <=> RequestSequence(id) \in sequences
          BY <2>4, <2>6, <2>7, <3>3
        <4> QED
          BY <2>5, <2>7, <4>1, <4>2, RequestUntouched, RetainedRequest
      <3> QED
        BY <3>1, <3>2, <3>3
    <2>8. DOMAIN requests' = Ids /\ next_id' \in Nat
      BY <2>2, <2>5 DEF RequestInv, FreshRequests
    <2> QED
      BY <2>7, <2>8, RequestsPointwise
  <1> QED
    BY <1>3, <1>4

\* Every step keeps the requests' ownership, and leaks nothing without device faults.
LEMMA NextKeepsRequests ==
  ASSUME RequestInv, [Next]_vars
  PROVE  RequestStepOK
  <1>0. next_id \in Nat
    BY DEF RequestInv, FreshRequests
  <1>1. CASE AdmitWaiting
    BY <1>1, AdmissionKeepsRequests DEF AdmitWaiting
  <1>2. CASE AdmitFails
    <2>1. CASE UNCHANGED <<requests, sequences>>
      BY <1>0, <1>2, <2>1, RequestsUnchanged DEF AdmitFails
    <2>2. CASE ~UNCHANGED <<requests, sequences>>
      BY <1>2, <2>2, AdmissionKeepsRequests DEF AdmitFails
    <2> QED
      BY <2>1, <2>2
  <1>3. CASE StartTick \/ AdmitDone \/ DecodeFails \/ PrefillFails \/ UNCHANGED vars
    <2>1. UNCHANGED <<requests, sequences, next_id>>
      BY <1>3 DEF StartTick, AdmitDone, DecodeFails, PrefillFails, vars
    <2> QED
      BY <1>0, <2>1, RequestsUnchanged
  <1>4. ASSUME NEW shape, AddRequest(shape)
        PROVE  RequestStepOK
    <2> DEFINE r == [AbsentRequest EXCEPT
                       !.lifecycle = IF shape.max_new = 0 THEN "Finished" ELSE "Waiting",
                       !.prompt = shape.prompt, !.max_new = shape.max_new]
    <2>1. requests' = [requests EXCEPT ![next_id] = r] /\ sequences' = sequences
      BY <1>4 DEF AddRequest
    <2>2. {"sequence", "lifecycle"} \subseteq DOMAIN r /\ r.sequence = FALSE
      BY DEF AbsentRequest
    <2>3. next_id' \in Nat /\ next_id <= next_id' /\ next_id < next_id'
      BY <1>0, <1>4 DEF AddRequest
    <2> HIDE DEF r
    <2>4. RequestShape(r)
      BY <2>2 DEF RequestShape
    <2>5. next_id \in Ids /\ RequestsNotLeaked => RequestSequence(next_id) \notin sequences
      <3>1. ~(next_id < next_id)
        BY <1>0
      <3> QED
        BY <3>1 DEF RequestsNotLeaked, RequestInv, FreshRequests
    <2> QED
      BY <2>1, <2>2, <2>3, <2>4, <2>5, ReplaceRequest, Zenon
  <1>5. CASE \E shape \in DecisionShapes : AddDecision(shape)
    <2>1. requests' = requests /\ sequences' = sequences /\ next_id' = next_id + 1
      BY <1>5 DEF AddDecision
    <2> QED
      BY <1>0, <2>1, RequestsUnchanged
  <1>6. ASSUME NEW id \in Ids, CancelDecision(id), next_id' = next_id
        PROVE  RequestStepOK
    <2>1. \A j \in Ids : RequestSequence(j) \in sequences' <=> RequestSequence(j) \in sequences
      BY <1>6 DEF CancelDecision, GroupSequences, RequestSequence, ParentSequence, BranchSequence
    <2> QED
      BY <1>0, <1>6, <2>1, RequestsUnchanged DEF CancelDecision
  <1>7. ASSUME NEW id \in Ids, CancelRequest(id), next_id' = next_id
        PROVE  RequestStepOK
    <2> DEFINE r == [requests[id] EXCEPT !.lifecycle = "Cancelled", !.sequence = FALSE]
    <2>1. requests' = [requests EXCEPT ![id] = r]
      BY <1>7, RetainedRequest DEF CancelRequest
    <2>2. {"sequence", "lifecycle"} \subseteq DOMAIN r /\ r.sequence = FALSE
      BY <1>7, RetainedRequest
    <2>3. next_id' \in Nat /\ next_id <= next_id' /\ id < next_id'
      BY <1>0, <1>7, RetainedRequest DEF CancelRequest, Retained
    <2>4. \A j \in Ids \ {id} :
            RequestSequence(j) \in sequences' <=> RequestSequence(j) \in sequences
      BY <1>7 DEF CancelRequest, RequestSequence
    <2>5. RequestsNotLeaked => RequestSequence(id) \notin sequences'
      BY <1>7 DEF CancelRequest, RequestsNotLeaked
    <2> HIDE DEF r
    <2>6. RequestShape(r)
      BY <2>2 DEF RequestShape
    <2> QED
      BY <2>1, <2>2, <2>3, <2>4, <2>5, <2>6, ReplaceRequest, Zenon
  <1>8. ASSUME NEW id \in Ids, RemoveFinished(id)
        PROVE  RequestStepOK
    <2> DEFINE r == [requests[id] EXCEPT !.lifecycle = "Removed"]
    <2>1. requests' = [requests EXCEPT ![id] = r] /\ sequences' = sequences
      BY <1>8 DEF RemoveFinished
    <2>2. {"sequence", "lifecycle"} \subseteq DOMAIN r /\ r.sequence = requests[id].sequence
      BY <1>8, RetainedRequest
    <2>3. next_id' \in Nat /\ next_id <= next_id' /\ id < next_id'
      BY <1>0, <1>8, RetainedRequest DEF RemoveFinished, Retained
    <2> HIDE DEF r
    <2>4. RequestShape(r) /\ (r.sequence => RequestSequence(id) \in sequences)
      BY <1>8, <2>2, RetainedRequest DEF RequestShape
    <2>5. RequestsNotLeaked => (RequestSequence(id) \in sequences' => r.sequence)
      BY <1>8, <2>1, <2>2 DEF RequestsNotLeaked
    <2> QED
      BY <2>1, <2>3, <2>4, <2>5, ReplaceRequest, Zenon
  <1>9. CASE \E id \in Ids : Cancel(id)
    BY <1>6, <1>7, <1>9 DEF Cancel
  <1>10. CASE RunDecode \/ RunPrefill \/ RunDecision \/ DecodeLoses \/ PrefillLoses
    BY <1>10, DecodeKeepsRequests, PrefillKeepsRequests, DecisionKeepsRequests,
       LossKeepsRequests
  <1> QED
    BY <1>1, <1>2, <1>3, <1>4, <1>5, <1>8, <1>9, <1>10
    DEF Next, Tick, TickFails, Call

--------------------------------------------------------------------------------
(***************************************************************************)
(* Requests and their queues.  RequestQueuesInv says of each identity which *)
(* queue it is in and how far its request has come; a step is shown to keep *)
(* it identity by identity.                                                *)
(***************************************************************************)

\* What is known of one request.
RequestOK(r) ==
  /\ r \in Requests /\ r.prompt_position <= r.prompt
  /\ r.lifecycle # "Absent" => r.prompt > 0
  /\ r.lifecycle \in {"Waiting", "Prefilling"} =>
       r.prompt_position < r.prompt /\ r.generated = 0 /\ r.max_new > 0
  /\ r.lifecycle = "Decoding" =>
       r.prompt_position = r.prompt /\ r.generated \in 1..(r.max_new - 1)
  /\ r.lifecycle \in {"Finished", "Removed"} =>
       r.generated <= r.max_new /\ (r.generated = 0 => r.max_new = 0)
  /\ r.lifecycle \in {"Prefilling", "Decoding"} =>
       /\ r.sequence
       /\ PrefixTarget(r) > 0 /\ r.prompt_position >= PrefixTarget(r) => r.prefix_retained

\* Ids stand in the queue in the order they were given out.
Ascending(q) == \A i, j \in 1..Len(q) : i < j => q[i] < q[j]

\* What every step keeps of the requests and the three queues that hold them.
RequestQueuesInv ==
  /\ requests \in [Ids -> Requests]
  /\ \A id \in Ids : RequestOK(requests[id])
  /\ next_id \in 0..MaxRequests
  /\ \A id \in Ids : ~(id < next_id) => requests[id].lifecycle = "Absent"
  /\ waiting \in Seq(Ids) /\ Ascending(waiting)
  /\ prefilling \in Seq(Ids) /\ IsInjective(prefilling)
  /\ decoding \in Seq(Ids) /\ IsInjective(decoding)
  /\ \A id \in ToSet(waiting) : requests[id].lifecycle = "Waiting" /\ ~requests[id].sequence
  /\ \A id \in Ids : requests[id].lifecycle = "Prefilling" <=> id \in ToSet(prefilling)
  /\ \A id \in Ids : requests[id].lifecycle = "Decoding" <=> id \in ToSet(decoding)
  /\ ~DeviceFaults => \A id \in Ids : requests[id].lifecycle = "Waiting" => id \in ToSet(waiting)

--------------------------------------------------------------------------------
(***************************************************************************)
(* One request: what admission, prefill and decode make of it.             *)
(***************************************************************************)

\* Integer division, as far as the page arithmetic needs it.
LEMMA DivFloor ==
  ASSUME NEW a \in Nat, NEW p \in Nat \ {0}
  PROVE  a \div p \in Nat /\ (a \div p) * p <= a /\ a < (a \div p) * p + p
  OBVIOUS

\* Multiplication by a positive number keeps the order of naturals.
LEMMA MulMono ==
  ASSUME NEW m \in Nat, NEW n \in Nat, NEW p \in Nat, m <= n
  PROVE  m * p <= n * p /\ m * p \in Nat
  OBVIOUS

\* A request that was just added.
LEMMA NewRequestOK ==
  ASSUME NEW shape \in ChatShapes
  PROVE  RequestOK([AbsentRequest EXCEPT
          !.lifecycle = IF shape.max_new = 0 THEN "Finished" ELSE "Waiting",
          !.prompt = shape.prompt, !.max_new = shape.max_new])
  <1>1. shape.prompt \in Nat \ {0} /\ shape.max_new \in Nat
    BY ShapesAssumption
  <1> DEFINE a == [AbsentRequest EXCEPT
          !.lifecycle = IF shape.max_new = 0 THEN "Finished" ELSE "Waiting",
          !.prompt = shape.prompt, !.max_new = shape.max_new]
  <1>2. /\ a \in Requests /\ a.prompt = shape.prompt /\ a.max_new = shape.max_new
        /\ a.generated = 0 /\ a.prompt_position = 0
        /\ a.lifecycle = IF shape.max_new = 0 THEN "Finished" ELSE "Waiting"
    BY <1>1 DEF AbsentRequest, Requests
  <1> HIDE DEF a
  <1>3. RequestOK(a)
    BY <1>1, <1>2 DEF RequestOK
  <1> QED
    BY <1>3 DEF a

\* The checkpoint target of a prompt, a whole number of pages, leaves at least one prompt token.
LEMMA TargetFacts ==
  ASSUME NEW r \in Requests, r.prompt > 0
  PROVE  PrefixTarget(r) \in Nat /\ PrefixTarget(r) < r.prompt
  <1>1. r.prompt - 1 \in Nat /\ r.prompt \in Nat /\ PageTokens \in Nat \ {0}
    BY LimitsAssumption DEF Requests
  <1>2. (r.prompt - 1) \div PageTokens \in Nat /\ PrefixTarget(r) <= r.prompt - 1
    BY <1>1, DivFloor DEF PrefixTarget
  <1>3. PrefixTarget(r) \in Nat
    BY <1>1, <1>2, MulMono DEF PrefixTarget
  <1> QED
    BY <1>1, <1>2, <1>3

\* A request that admission gives a sequence, with its prefix restored or not, starts prefilling in
\* a sound state.
LEMMA AdmittedRequestOK ==
  ASSUME NEW r, RequestOK(r), r.lifecycle = "Waiting", NEW cached \in CachedPrefixes(r),
         NEW lifecycle \in {"Waiting", "Prefilling"}
  PROVE  /\ RequestOK(AdmittedRequest(r, cached, lifecycle))
         /\ AdmittedRequest(r, cached, lifecycle).lifecycle = lifecycle
         /\ AdmittedRequest(r, cached, lifecycle).sequence = TRUE
  <1>1. /\ r \in Requests /\ r.prompt > 0 /\ r.prompt \in Nat /\ r.prompt_position \in Nat
        /\ r.generated = 0 /\ r.max_new > 0 /\ r.max_new \in Nat
    BY DEF RequestOK, Requests
  <1>2. PrefixTarget(r) \in Nat /\ PrefixTarget(r) < r.prompt
    BY <1>1, TargetFacts
  <1>3. cached \in Nat /\ cached <= PrefixTarget(r)
    <2>0. r.prompt - 1 \in Nat /\ PageTokens \in Nat \ {0}
      BY <1>1, LimitsAssumption
    <2>1. CASE RetainsPrefixes
      <3>1. (r.prompt - 1) \div PageTokens \in Nat
        BY <2>0, DivFloor
      <3>2. PICK n \in 0..((r.prompt - 1) \div PageTokens) : cached = PageTokens * n
        BY <2>1 DEF CachedPrefixes
      <3>3. n \in Nat /\ n <= (r.prompt - 1) \div PageTokens
        BY <3>1
      <3>4. n * PageTokens <= PrefixTarget(r) /\ n * PageTokens \in Nat
        BY <2>0, <3>1, <3>3, MulMono DEF PrefixTarget
      <3> QED
        BY <3>2, <3>3, <3>4, <2>0
    <2>2. CASE ~RetainsPrefixes
      BY <2>2, <1>2 DEF CachedPrefixes
    <2> QED
      BY <2>1, <2>2
  <1> DEFINE a == AdmittedRequest(r, cached, lifecycle)
  <1>4. /\ a \in Requests /\ a.prompt = r.prompt /\ a.max_new = r.max_new /\ a.generated = 0
        /\ a.prompt_position = cached /\ a.lifecycle = lifecycle /\ a.sequence = TRUE
        /\ cached = PrefixTarget(r) /\ cached # 0 => a.prefix_retained
    BY <1>1, <1>3 DEF Requests, AdmittedRequest
  <1>5. PrefixTarget(a) = PrefixTarget(r)
    BY <1>4 DEF PrefixTarget
  <1> HIDE DEF a
  <1>6. RequestOK(a)
    BY <1>1, <1>2, <1>3, <1>4, <1>5 DEF RequestOK
  <1> QED
    BY <1>4, <1>6 DEF a

\* Draft counts never exceed the tokens the request still may emit.
LEMMA DraftsWithinLimit ==
  ASSUME NEW r \in Requests, r.generated < r.max_new, DraftCount(r) > 0
  PROVE  /\ DraftCount(r) \in Nat
         /\ DraftCount(r) + (IF r.spec_started THEN 1 ELSE 0) <= r.max_new - r.generated
  BY LimitsAssumption DEF DraftCount, MinOf, Requests

\* The samples of a decode phase carry a request to its next lifecycle.
LEMMA AppliedSamplesOK ==
  ASSUME NEW r, RequestOK(r), NEW o \in Outcomes, NEW alone \in BOOLEAN, PossibleOutcome(r, o, alone),
         r.lifecycle = "Decoding" \/ (r.lifecycle = "Prefilling" /\ RemainingPromptTokens(r) = 1)
  PROVE  /\ RequestOK(AppliedSamples(r, o))
         /\ AppliedSamples(r, o).lifecycle = IF o.finished THEN "Finished" ELSE "Decoding"
         /\ AppliedSamples(r, o).sequence = ~o.finished
  <1> DEFINE a == AppliedSamples(r, o)
  <1>1. /\ r \in Requests /\ r.prompt \in Nat /\ r.prompt_position \in Nat
        /\ r.generated \in Nat /\ r.max_new \in Nat /\ r.sequence = TRUE
        /\ r.generated < r.max_new /\ r.prompt > 0
        /\ r.lifecycle = "Decoding" => r.generated > 0 /\ r.prompt_position = r.prompt
        /\ r.lifecycle = "Prefilling" => r.prompt_position < r.prompt
    BY DEF RequestOK, Requests
  <1>2. o.tokens \in Nat /\ o.finished \in BOOLEAN /\ o.cycle \in BOOLEAN
    BY LimitsAssumption DEF Outcomes
  <1>3. r.generated + o.tokens <= r.max_new
    <2>1. CASE ~o.cycle
      BY <1>1, <1>2, <2>1 DEF PossibleOutcome
    <2>2. CASE o.cycle
      <3>1. DraftCount(r) > 0
        BY <2>2 DEF PossibleOutcome
      <3>2. PICK accepted \in 0..DraftCount(r) :
              o.tokens <= accepted + IF r.spec_started THEN 1 ELSE 0
        BY <1>1, <1>2, <2>2, <3>1, DraftsWithinLimit DEF PossibleOutcome
      <3> QED
        BY <1>1, <1>2, <3>1, <3>2, DraftsWithinLimit
    <2> QED
      BY <1>2, <2>1, <2>2
  <1>4. r.generated + o.tokens = r.max_new => o.finished
    BY DEF PossibleOutcome
  <1>5. r.lifecycle = "Prefilling" => o.tokens = 1 /\ RemainingPromptTokens(r) = 1
    BY DEF PossibleOutcome
  <1>5a. o.finished => o.tokens > 0
    BY <1>2 DEF PossibleOutcome
  <1>6. /\ a \in Requests /\ a.prompt = r.prompt /\ a.max_new = r.max_new
        /\ a.generated = r.generated + o.tokens
        /\ a.lifecycle = (IF o.finished THEN "Finished" ELSE "Decoding")
        /\ a.sequence = ~o.finished
        /\ r.prefix_retained => a.prefix_retained
        /\ a.prompt_position = IF RemainingPromptTokens(r) = 1 /\ o.tokens > 0 THEN r.prompt
                                                                ELSE r.prompt_position
    <2> DEFINE p == IF RemainingPromptTokens(r) = 1 /\ o.tokens > 0 THEN r.prompt ELSE r.prompt_position
               b == r.spec_started \/ o.cycle
               c == r.sequence /\ ~o.finished
               g == r.generated + o.tokens
               l == IF o.finished THEN "Finished" ELSE "Decoding"
    <2>1. p \in Nat /\ g \in Nat /\ l \in {"Finished", "Decoding"}
      BY <1>1, <1>2
    <2>2. b \in BOOLEAN /\ c = ~o.finished /\ c \in BOOLEAN
      BY <1>1, Zenon
    <2>3. a = [r EXCEPT !.prompt_position = p, !.generated = g, !.spec_started = b,
                        !.lifecycle = l, !.sequence = c]
      BY DEF AppliedSamples
    <2> HIDE DEF p, b, c, g, l, a
    <2> QED
      BY <1>1, <2>1, <2>2, <2>3 DEF Requests, p, l, g
  <1>7. PrefixTarget(a) = PrefixTarget(r)
    BY <1>6 DEF PrefixTarget
  <1>8. a.prompt_position = r.prompt
    BY <1>1, <1>2, <1>5, <1>6 DEF RemainingPromptTokens
  <1>9. ASSUME PrefixTarget(r) > 0 PROVE r.prefix_retained
    <2>1. r.prompt_position >= PrefixTarget(r)
      <3>1. r.prompt > 0
        BY <1>1, <1>9, LimitsAssumption DEF RemainingPromptTokens
      <3>2. PrefixTarget(r) \in Nat /\ PrefixTarget(r) < r.prompt
        BY <1>1, <3>1, TargetFacts
      <3> QED
        BY <1>1, <3>2 DEF RemainingPromptTokens
    <2> QED
      BY <1>9, <2>1 DEF RequestOK
  <1> HIDE DEF a
  <1>10. RequestOK(a)
    <2>0. a.prompt_position <= a.prompt
      BY <1>1, <1>6, <1>8
    <2>1. CASE o.finished
      <3>1. a.lifecycle = "Finished"
        BY <1>6, <2>1
      <3>2. a.generated <= a.max_new /\ a.generated # 0
        BY <1>1, <1>2, <1>3, <1>5a, <1>6, <2>1
      <3> QED
        BY <1>1, <1>6, <2>0, <3>1, <3>2 DEF RequestOK
    <2>2. CASE ~o.finished
      <3>1. a.lifecycle = "Decoding" /\ a.sequence = TRUE
        BY <1>6, <2>2
      <3>2. a.generated \in 1..(a.max_new - 1)
        BY <1>1, <1>2, <1>3, <1>4, <1>5, <1>6, <2>2
      <3>3. PrefixTarget(a) > 0 => a.prefix_retained
        BY <1>6, <1>7, <1>9
      <3> QED
        BY <1>1, <1>6, <1>8, <2>0, <3>1, <3>2, <3>3 DEF RequestOK
    <2> QED
      BY <2>1, <2>2
  <1> QED
    BY <1>6, <1>10 DEF a

\* div_ceil: the share is positive, within the budget, and leaves a token for each of
\* the slots behind it when the budget had one for each.
LEMMA CeilDivFacts ==
  ASSUME NEW a \in Nat \ {0}, NEW b \in Nat \ {0}
  PROVE  /\ CeilDiv(a, b) \in 1..a
         /\ b <= a => b - 1 <= a - CeilDiv(a, b)
  <1> DEFINE c == (a + b - 1) \div b
  <1>1. c \in Nat /\ c * b <= a + b - 1 /\ a + b - 1 < c * b + b
    <2>1. a + b - 1 \in Nat
      OBVIOUS
    <2> QED
      BY <2>1, DivFloor
  <1> HIDE DEF c
  <1>2. c # 0
    BY <1>1
  <1>3. c <= a
    <2> SUFFICES ASSUME a + 1 <= c PROVE FALSE
      BY <1>1
    <2>1. (a + 1) * b <= c * b
      BY <1>1, MulMono
    <2>2. (a + 1) * b = a * b + b
      OBVIOUS
    <2>3. a <= a * b
      OBVIOUS
    <2> QED
      BY <1>1, <2>1, <2>2, <2>3
  <1>4. ASSUME b <= a PROVE b - 1 <= a - c
    <2> SUFFICES ASSUME a - b + 2 <= c PROVE FALSE
      BY <1>1
    <2>1. (a - b + 2) * b <= c * b
      <3>1. a - b + 2 \in Nat
        BY <1>4
      <3> QED
        BY <1>1, <3>1, MulMono
    <2>2. (a - b + 2) * b - (a + b - 1) = (a - b) * (b - 1) + 1
      OBVIOUS
    <2>3. (a - b) * (b - 1) >= 0
      BY <1>4
    <2>4. (a - b + 2) * b \in Int /\ (a - b) * (b - 1) \in Int /\ c * b \in Int
      BY <1>1
    <2> QED
      BY <1>1, <2>1, <2>2, <2>3, <2>4
  <1> QED
    BY <1>1, <1>2, <1>3, <1>4 DEF CeilDiv, c

\* What a request takes of a prefill batch with budget and slots left.
ShareOf(r, budget, slots) ==
  PrefillChunkTokens(PrefillableTokens(r), CeilDiv(budget, slots),
                     r.prompt_position, PrefixTarget(r), r.prefix_retained)

\* A share makes progress, leaves the final prompt token, and stops at the checkpoint.
GoodChunk(r, chunk) ==
  /\ chunk \in 1..PrefillableTokens(r)
  /\ ~r.prefix_retained /\ r.prompt_position < PrefixTarget(r) =>
       r.prompt_position + chunk <= PrefixTarget(r)

\* A prefill share is positive, fits the budget that is left and never steps over the request's
\* checkpoint.
LEMMA ShareFacts ==
  ASSUME NEW r, RequestOK(r), PrefillableTokens(r) > 0, r.lifecycle = "Prefilling",
         NEW budget \in Nat \ {0}, NEW slots \in Nat \ {0}
  PROVE  /\ GoodChunk(r, ShareOf(r, budget, slots))
         /\ ShareOf(r, budget, slots) \in 1..budget
         /\ slots <= budget => slots - 1 <= budget - ShareOf(r, budget, slots)
  <1>1. /\ r.prompt \in Nat /\ r.prompt_position \in Nat
        /\ PrefillableTokens(r) \in Nat /\ PrefillableTokens(r) > 0
        /\ PrefixTarget(r) \in Nat
    <2>1. r \in Requests /\ r.prompt > 0
      BY DEF RequestOK
    <2> QED
      BY <2>1, TargetFacts DEF Requests, PrefillableTokens, RemainingPromptTokens
  <1> DEFINE share == CeilDiv(budget, slots)
             avail == PrefillableTokens(r)
  <1>2. share \in 1..budget /\ (slots <= budget => slots - 1 <= budget - share)
    BY CeilDivFacts
  <1> HIDE DEF share, avail
  <1>3. /\ ShareOf(r, budget, slots) \in 1..avail
        /\ ShareOf(r, budget, slots) <= share
    BY <1>1, <1>2 DEF ShareOf, PrefillChunkTokens, MinOf, avail, share
  <1>4. ~r.prefix_retained /\ r.prompt_position < PrefixTarget(r) =>
          r.prompt_position + ShareOf(r, budget, slots) <= PrefixTarget(r)
    BY <1>1, <1>2 DEF ShareOf, PrefillChunkTokens, MinOf, avail, share
  <1>5. ShareOf(r, budget, slots) \in 1..budget
        /\ (slots <= budget => slots - 1 <= budget - ShareOf(r, budget, slots))
    <2>1. ShareOf(r, budget, slots) \in Nat
      BY <1>1, <1>3 DEF avail
    <2> HIDE DEF ShareOf
    <2> QED
      BY <1>1, <1>2, <1>3, <2>1 DEF avail
  <1> QED
    BY <1>3, <1>4, <1>5 DEF GoodChunk, avail

\* A prefill chunk moves the prompt on and keeps the request in its lifecycle.
LEMMA PrefilledRequestOK ==
  ASSUME NEW r, RequestOK(r), r.lifecycle = "Prefilling", NEW chunk, GoodChunk(r, chunk)
  PROVE  /\ RequestOK(PrefilledRequest(r, chunk))
         /\ PrefilledRequest(r, chunk).lifecycle = "Prefilling"
         /\ PrefilledRequest(r, chunk).sequence = TRUE
         /\ PrefilledRequest(r, chunk).prompt_position = r.prompt_position + chunk
         /\ PrefilledRequest(r, chunk).prompt = r.prompt
  <1> DEFINE a == PrefilledRequest(r, chunk)
             kept == r.prefix_retained \/ /\ PrefixTarget(r) # 0
                                          /\ \/ ~RetainsPrefixes
                                             \/ r.prompt_position + chunk = PrefixTarget(r)
  <1>1. /\ r \in Requests /\ r.prompt \in Nat /\ r.prompt_position \in Nat
        /\ r.generated = 0 /\ r.max_new \in Nat /\ r.max_new > 0 /\ r.prompt > 0
        /\ r.sequence = TRUE
        /\ PrefixTarget(r) > 0 /\ r.prompt_position >= PrefixTarget(r) => r.prefix_retained
    BY DEF RequestOK, Requests
  <1>2. PrefixTarget(r) \in Nat
    BY <1>1, TargetFacts
  <1>3. chunk \in Nat /\ r.prompt_position + chunk < r.prompt
    BY <1>1 DEF GoodChunk, PrefillableTokens, RemainingPromptTokens
  <1>4. kept \in BOOLEAN
    OBVIOUS
  <1>5. a = [r EXCEPT !.prompt_position = r.prompt_position + chunk, !.prefix_retained = kept]
    BY DEF PrefilledRequest
  <1> HIDE DEF kept, a
  <1>6. /\ a \in Requests /\ a.prompt = r.prompt /\ a.max_new = r.max_new /\ a.generated = 0
        /\ a.prompt_position = r.prompt_position + chunk /\ a.lifecycle = "Prefilling"
        /\ a.sequence = TRUE /\ (kept => a.prefix_retained)
    <2>1. r.prompt_position + chunk \in Nat /\ r.lifecycle = "Prefilling"
      BY <1>1, <1>3
    <2> QED
      BY <1>1, <2>1, <1>4, <1>5 DEF Requests
  <1>7. PrefixTarget(a) = PrefixTarget(r)
    BY <1>6 DEF PrefixTarget
  <1>8. ASSUME PrefixTarget(r) > 0, r.prompt_position + chunk >= PrefixTarget(r)
        PROVE  kept
    <2>1. CASE r.prefix_retained
      BY <2>1 DEF kept
    <2>2. CASE ~r.prefix_retained
      <3>1. r.prompt_position + chunk = PrefixTarget(r)
        BY <1>1, <1>2, <1>3, <1>8, <2>2 DEF GoodChunk
      <3> QED
        BY <1>8, <3>1, <1>2 DEF kept
    <2> QED
      BY <2>1, <2>2
  <1>9. PrefixTarget(a) > 0 /\ a.prompt_position >= PrefixTarget(a) => a.prefix_retained
    BY <1>6, <1>7, <1>8
  <1>10. RequestOK(a)
    BY <1>1, <1>3, <1>6, <1>9 DEF RequestOK
  <1> QED
    BY <1>6, <1>10 DEF a

\* Requests that leave.
LEMMA DepartedRequestOK ==
  ASSUME NEW r, RequestOK(r)
  PROVE  /\ r.lifecycle # "Absent" =>
             /\ RequestOK(LostRequest(r)) /\ LostRequest(r).lifecycle = "Lost"
             /\ RequestOK([r EXCEPT !.lifecycle = "Cancelled", !.sequence = FALSE])
         /\ r.lifecycle = "Finished" => RequestOK([r EXCEPT !.lifecycle = "Removed"])
  <1>1. r \in Requests /\ r.prompt_position <= r.prompt
    BY DEF RequestOK
  <1>2. ASSUME r.lifecycle # "Absent", NEW l \in {"Lost", "Cancelled"}
        PROVE  RequestOK([r EXCEPT !.lifecycle = l, !.sequence = FALSE])
    <2> DEFINE a == [r EXCEPT !.lifecycle = l, !.sequence = FALSE]
    <2>1. a \in Requests /\ a.lifecycle = l /\ a.prompt = r.prompt
          /\ a.prompt_position = r.prompt_position
      BY <1>1 DEF Requests
    <2>2. r.prompt > 0
      BY <1>2 DEF RequestOK
    <2> HIDE DEF a
    <2>3. RequestOK(a)
      BY <1>1, <1>2, <2>1, <2>2 DEF RequestOK
    <2> QED
      BY <2>3 DEF a
  <1>3. ASSUME r.lifecycle = "Finished" PROVE RequestOK([r EXCEPT !.lifecycle = "Removed"])
    <2> DEFINE a == [r EXCEPT !.lifecycle = "Removed"]
    <2>1. /\ a \in Requests /\ a.lifecycle = "Removed" /\ a.prompt = r.prompt
          /\ a.prompt_position = r.prompt_position /\ a.generated = r.generated
          /\ a.max_new = r.max_new
      BY <1>1 DEF Requests
    <2>2. r.prompt > 0 /\ r.generated <= r.max_new /\ (r.generated = 0 => r.max_new = 0)
      BY <1>3 DEF RequestOK
    <2> HIDE DEF a
    <2>3. RequestOK(a)
      BY <1>1, <2>1, <2>2 DEF RequestOK
    <2> QED
      BY <2>3 DEF a
  <1>4. LostRequest(r).lifecycle = "Lost"
    BY <1>1 DEF LostRequest, Requests
  <1> QED
    BY <1>2, <1>3, <1>4 DEF LostRequest

--------------------------------------------------------------------------------
(***************************************************************************)
(* The selections of the decode and prefill phases.                        *)
(***************************************************************************)

\* What FirstN leaves.
RestN(s, n) == SubSeq(s, MinOf(n, Len(s)) + 1, Len(s))

\* The front of a queue and the rest of it.
LEMMA FirstNFacts ==
  ASSUME NEW U, NEW s \in Seq(U), NEW n \in Nat
  PROVE  /\ FirstN(s, n) \in Seq(U) /\ RestN(s, n) \in Seq(U)
         /\ Len(FirstN(s, n)) = MinOf(n, Len(s)) /\ Len(FirstN(s, n)) \in 0..n
         /\ Len(FirstN(s, n)) <= Len(s)
         /\ \A i \in 1..Len(FirstN(s, n)) : FirstN(s, n)[i] = s[i]
         /\ ToSet(s) = ToSet(FirstN(s, n)) \cup ToSet(RestN(s, n))
         /\ IsInjective(s) => /\ IsInjective(FirstN(s, n)) /\ IsInjective(RestN(s, n))
                              /\ ToSet(FirstN(s, n)) \cap ToSet(RestN(s, n)) = {}
  <1> DEFINE k == MinOf(n, Len(s))
             a == SubSeq(s, 1, k)
             b == SubSeq(s, k + 1, Len(s))
  <1>1. k \in 0..Len(s) /\ k <= n /\ k \in Nat
    BY DEF MinOf
  <1>2. FirstN(s, n) = a /\ RestN(s, n) = b
    BY DEF FirstN, RestN
  <1> HIDE DEF k
  <1>3. /\ a \in Seq(U) /\ b \in Seq(U)
        /\ Len(a) = k
        /\ \A i \in 1..k : a[i] = s[i]
        /\ ToSet(s) = ToSet(a) \cup ToSet(b)
        /\ IsInjective(s) => /\ IsInjective(a) /\ IsInjective(b)
                             /\ ToSet(a) \cap ToSet(b) = {}
    BY <1>1, ToSetSplit
  <1> HIDE DEF a, b
  <1>4. Len(a) \in 0..n /\ Len(a) <= Len(s)
    BY <1>1, <1>3
  <1> QED
    BY <1>2, <1>3, <1>4 DEF k

\* A queue in ascending order repeats nothing.
LEMMA AscendingInjective ==
  ASSUME NEW q \in Seq(Ids), Ascending(q)
  PROVE  IsInjective(q)
  <1>1. DOMAIN q = 1..Len(q) /\ \A i \in 1..Len(q) : q[i] \in Int
    BY LimitsAssumption DEF Ids
  <1>2. ASSUME NEW i \in 1..Len(q), NEW j \in 1..Len(q), q[i] = q[j] PROVE i = j
    <2>1. ~(i < j) /\ ~(j < i)
      BY <1>1, <1>2 DEF Ascending
    <2> QED
      BY <2>1
  <1> QED
    BY <1>1, <1>2 DEF IsInjective

\* What the decode phase selects: the front of decoding, then prefilled requests.
LEMMA SelectionFacts ==
  ASSUME RequestQueuesInv
  PROVE  LET S == ToSet(DecodeSelection)
         IN  /\ DecodeSelection \in Seq(Ids) /\ IsInjective(DecodeSelection)
             /\ \A id \in S : \/ id \in ToSet(decoding)
                              \/ id \in ToSet(prefilling) /\ RemainingPromptTokens(requests[id]) = 1
             /\ RestDecoding \in Seq(Ids) /\ IsInjective(RestDecoding)
             /\ ToSet(RestDecoding) = ToSet(decoding) \ S
  <1> DEFINE first == FirstN(decoding, DecodeCapacity)
             left == DecodeCapacity - Len(first)
             R == {id \in Ids : RemainingPromptTokens(requests[id]) = 1}
             ready == Keep(prefilling, R)
             more == FirstN(ready, left)
  <1>1. DecodeSelection = first \o more
    BY DEF DecodeSelection
  <1>2. /\ decoding \in Seq(Ids) /\ IsInjective(decoding)
        /\ prefilling \in Seq(Ids) /\ IsInjective(prefilling)
        /\ DecodeCapacity \in Nat
    BY LimitsAssumption DEF RequestQueuesInv
  <1>3. /\ first \in Seq(Ids) /\ RestDecoding \in Seq(Ids)
        /\ left \in Nat
        /\ ToSet(decoding) = ToSet(first) \cup ToSet(RestDecoding)
        /\ IsInjective(first) /\ IsInjective(RestDecoding)
        /\ ToSet(first) \cap ToSet(RestDecoding) = {}
    <2>1. /\ first \in Seq(Ids) /\ RestDecoding \in Seq(Ids)
          /\ ToSet(decoding) = ToSet(first) \cup ToSet(RestDecoding)
          /\ IsInjective(first) /\ IsInjective(RestDecoding)
          /\ ToSet(first) \cap ToSet(RestDecoding) = {}
          /\ Len(first) <= DecodeCapacity
      BY <1>2, FirstNFacts DEF RestDecoding, RestN
    <2> HIDE DEF first
    <2>2. left \in Nat
      BY <1>2, <2>1
    <2> QED
      BY <2>1, <2>2
  <1> HIDE DEF first, left
  <1>4. /\ ready \in Seq(Ids) /\ IsInjective(ready)
        /\ ToSet(ready) = ToSet(prefilling) \cap R
    BY <1>2, KeepFacts
  <1> HIDE DEF ready
  <1>5. more \in Seq(Ids) /\ IsInjective(more) /\ ToSet(more) \subseteq ToSet(ready)
    BY <1>3, <1>4, FirstNFacts
  <1> HIDE DEF more
  <1>6. ToSet(decoding) \cap ToSet(prefilling) = {}
    <2>1. ToSet(decoding) \subseteq Ids
      BY <1>2, MemberAt
    <2> QED
      BY <2>1 DEF RequestQueuesInv
  <1>7. ToSet(first) \cap ToSet(more) = {}
    BY <1>3, <1>4, <1>5, <1>6
  <1>8. /\ first \o more \in Seq(Ids) /\ IsInjective(first \o more)
        /\ ToSet(first \o more) = ToSet(first) \cup ToSet(more)
    BY <1>3, <1>5, <1>7, ToSetConcat
  <1>9. ToSet(RestDecoding) = ToSet(decoding) \ ToSet(DecodeSelection)
    BY <1>1, <1>3, <1>4, <1>5, <1>6, <1>8
  <1>10. \A id \in ToSet(DecodeSelection) :
           \/ id \in ToSet(decoding)
           \/ id \in ToSet(prefilling) /\ RemainingPromptTokens(requests[id]) = 1
    BY <1>1, <1>3, <1>4, <1>5, <1>8
  <1> QED
    BY <1>1, <1>3, <1>8, <1>9, <1>10

\* The plan of a prefill batch before its first request.
EmptyPlan(slots) ==
  [budget |-> PrefillTokenCapacity, slots |-> slots, ids |-> <<>>, chunks |-> <<>>]

\* The recursion that defines PrefillPlan holds.
LEMMA PrefillPlanRec ==
  ASSUME NEW n \in Nat, n = Len(EligiblePrefills)
  PROVE  \E f : /\ f[0] = EmptyPlan(n)
                /\ \A i \in 1..n : f[i] = GiveShare(f[i - 1], EligiblePrefills[i])
                /\ PrefillPlan = f[n]
  <1> DEFINE b == EmptyPlan(n)
             Step(x, i) == GiveShare(x, EligiblePrefills[i])
             Def(f, k) == [i \in 0..k |-> IF i = 0 THEN b ELSE Step(f[i - 1], i)]
             K == CHOOSE f : f = Def(f, n)
             T == {k \in 0..n : \E g : g = Def(g, k)}
  <1>1. PrefillPlan = K[n]
    BY Zenon DEF PrefillPlan, EmptyPlan
  <1> HIDE DEF b, Step
  <1>2. 0 \in T
    <2> DEFINE g == [i \in 0..0 |-> b]
    <2>1. g = Def(g, 0)
      OBVIOUS
    <2>2. 0 \in 0..n
      OBVIOUS
    <2> HIDE DEF g
    <2> QED
      BY <2>1, <2>2
  <1>3. ASSUME NEW k \in 1..n, k - 1 \in T PROVE k \in T
    <2>1. PICK g : g = Def(g, k - 1)
      BY <1>3
    <2> DEFINE h == [i \in 0..k |-> IF i = k THEN Step(g[k - 1], k) ELSE g[i]]
    <2>2. ASSUME NEW i \in 0..k PROVE h[i] = IF i = 0 THEN b ELSE Step(h[i - 1], i)
      <3>1. CASE i = 0
        <4>1. h[0] = g[0] /\ 0 \in 0..(k - 1)
          OBVIOUS
        <4>2. g[0] = b
          BY <2>1, <4>1
        <4> QED
          BY <3>1, <4>1, <4>2
      <3>2. CASE i # 0
        <4>1. i - 1 \in 0..k /\ i - 1 # k
          BY <3>2
        <4>2. h[i - 1] = g[i - 1]
          BY <4>1
        <4>3. CASE i = k
          BY <3>2, <4>2, <4>3
        <4>4. CASE i # k
          <5>1. i \in 0..(k - 1)
            BY <4>4
          <5>2. g[i] = Step(g[i - 1], i)
            BY <2>1, <3>2, <5>1
          <5> QED
            BY <3>2, <4>2, <4>4, <5>2
        <4> QED
          BY <4>3, <4>4
      <3> QED
        BY <3>1, <3>2
    <2>3. h = [i \in 0..k |-> h[i]]
      OBVIOUS
    <2> HIDE DEF h
    <2>4. h = Def(h, k)
      BY <2>2, <2>3, Zenon
    <2>5. k \in 0..n
      OBVIOUS
    <2> QED
      BY <2>4, <2>5
  <1>4. \A k \in 0..n : k \in T
    <2> HIDE DEF T
    <2> QED
      BY <1>2, <1>3, IntervalInduction
  <1>5. K = Def(K, n)
    <2>1. \E g : g = Def(g, n)
      BY <1>4
    <2> HIDE DEF Def
    <2> QED
      BY <2>1, Zenon
  <1> HIDE DEF K
  <1>6. K[0] = b
    BY <1>5
  <1>7. \A i \in 1..n : K[i] = Step(K[i - 1], i)
    <2> TAKE i \in 1..n
    <2>1. i \in 0..n /\ i # 0
      OBVIOUS
    <2> QED
      BY <1>5, <2>1
  <1> QED
    BY <1>1, <1>6, <1>7, Zenon DEF b, Step

\* The requests a prefill batch may take: in the queue's order, each with a token to prefill.
LEMMA EligibleFacts ==
  ASSUME RequestQueuesInv
  PROVE  /\ EligiblePrefills \in Seq(Ids) /\ IsInjective(EligiblePrefills)
         /\ Len(EligiblePrefills) \in 0..PrefillSequenceCapacity
         /\ \A id \in ToSet(EligiblePrefills) :
              id \in ToSet(prefilling) /\ PrefillableTokens(requests[id]) > 0
         /\ \E h : Places(h, EligiblePrefills, prefilling, Len(prefilling))
  <1> DEFINE R == {id \in Ids : PrefillableTokens(requests[id]) > 0}
             all == Keep(prefilling, R)
             e == FirstN(all, PrefillSequenceCapacity)
  <1>1. prefilling \in Seq(Ids) /\ IsInjective(prefilling) /\ PrefillSequenceCapacity \in Nat
    BY LimitsAssumption DEF RequestQueuesInv
  <1>2. /\ all \in Seq(Ids) /\ IsInjective(all)
        /\ ToSet(all) = ToSet(prefilling) \cap R
    BY <1>1, KeepFacts
  <1>3. PICK h : Places(h, all, prefilling, Len(prefilling))
    BY <1>1, KeepPlaces
  <1>4. e = EligiblePrefills
    BY DEF EligiblePrefills
  <1> HIDE DEF all
  <1>5. /\ e \in Seq(Ids) /\ IsInjective(e) /\ Len(e) \in 0..PrefillSequenceCapacity
        /\ ToSet(e) \subseteq ToSet(all) /\ Len(e) <= Len(all)
        /\ \A i \in 1..Len(e) : e[i] = all[i]
    BY <1>1, <1>2, FirstNFacts
  <1> HIDE DEF e
  <1>6. Places([i \in 1..Len(e) |-> h[i]], e, prefilling, Len(prefilling))
    <2>1. \A i \in 1..Len(e) : i \in 1..Len(all)
      BY <1>2, <1>5
    <2> QED
      BY <1>3, <1>5, <2>1 DEF Places
  <1> QED
    BY <1>2, <1>4, <1>5, <1>6, Zenon

\* What a prefill plan says: a front of the eligible requests, each with a good chunk, and
\* all of them when the budget has a token for each.
GoodPlan(plan) ==
  /\ plan.ids \in Seq(Ids) /\ plan.chunks \in Seq(Nat)
  /\ Len(plan.ids) = Len(plan.chunks) /\ Len(plan.ids) <= Len(EligiblePrefills)
  /\ \A j \in 1..Len(plan.ids) :
       /\ plan.ids[j] = EligiblePrefills[j]
       /\ GoodChunk(requests[EligiblePrefills[j]], plan.chunks[j])

\* t sums the chunks of a plan up; with the budget that is left they make the whole budget.
Totals(t, plan) ==
  /\ t \in [0..Len(plan.chunks) -> Nat] /\ t[0] = 0
  /\ \A j \in 1..Len(plan.chunks) : t[j] = t[j - 1] + plan.chunks[j]
  /\ t[Len(plan.chunks)] + plan.budget = PrefillTokenCapacity

\* The plan after i of the eligible requests were looked at.
PlanAt(plan, i) ==
  /\ GoodPlan(plan) /\ plan.budget \in Nat /\ \E t : Totals(t, plan)
  /\ plan.slots = Len(EligiblePrefills) - Len(plan.ids)
  /\ Len(plan.ids) <= i
  /\ plan.budget > 0 => Len(plan.ids) = i
  /\ Len(EligiblePrefills) <= PrefillTokenCapacity => plan.slots <= plan.budget

\* One more request of the plan keeps it good: the budget is not exceeded and the rows stay those of
\* eligible requests.
LEMMA PlanStep ==
  ASSUME RequestQueuesInv, NEW i \in 1..Len(EligiblePrefills), NEW plan, PlanAt(plan, i - 1)
  PROVE  PlanAt(GiveShare(plan, EligiblePrefills[i]), i)
  <1> DEFINE e == EligiblePrefills
             n == Len(e)
             m == Len(plan.ids)
             r == requests[e[i]]
  <1>0. e \in Seq(Ids) /\ n \in Nat /\ i \in Nat /\ i <= n /\ i - 1 \in Nat
    BY EligibleFacts
  <1>1. /\ plan.ids \in Seq(Ids) /\ plan.chunks \in Seq(Nat)
        /\ m = Len(plan.chunks) /\ m <= n /\ m \in Nat /\ plan.budget \in Nat
        /\ plan.slots = n - m /\ m <= i - 1
    BY DEF PlanAt, GoodPlan
  <1> HIDE DEF n, e
  <1>2. CASE plan.budget = 0
    <2>1. GiveShare(plan, e[i]) = plan
      BY <1>2 DEF GiveShare
    <2>2. m <= i /\ ~(plan.budget > 0)
      BY <1>0, <1>1, <1>2
    <2> QED
      BY <2>1, <2>2 DEF PlanAt, e
  <1>3. CASE plan.budget # 0
    <2>1. m = i - 1 /\ plan.budget \in Nat \ {0} /\ plan.slots \in Nat \ {0}
      <3>1. plan.budget > 0
        BY <1>1, <1>3
      <3>2. m = i - 1
        BY <3>1 DEF PlanAt
      <3> QED
        BY <1>0, <1>1, <1>3, <3>2
    <2>2. /\ e[i] \in Ids /\ RequestOK(r) /\ r.lifecycle = "Prefilling"
          /\ PrefillableTokens(r) > 0
      <3>1. e[i] \in ToSet(e) /\ e[i] \in Ids
        BY <1>0, MemberAt DEF n
      <3>2. e[i] \in ToSet(prefilling) /\ PrefillableTokens(r) > 0
        BY <3>1, EligibleFacts DEF e
      <3> QED
        BY <3>1, <3>2 DEF RequestQueuesInv
    <2> DEFINE chunk == ShareOf(r, plan.budget, plan.slots)
               after == [budget |-> plan.budget - chunk, slots |-> plan.slots - 1,
                         ids |-> Append(plan.ids, e[i]), chunks |-> Append(plan.chunks, chunk)]
    <2>3. GiveShare(plan, e[i]) = after
      BY <1>3 DEF GiveShare, ShareOf
    <2>4. /\ GoodChunk(r, chunk) /\ chunk \in 1..plan.budget
          /\ plan.slots <= plan.budget => plan.slots - 1 <= plan.budget - chunk
      <3> HIDE DEF r
      <3> QED
        BY <2>1, <2>2, ShareFacts
    <2> HIDE DEF chunk, r
    <2>4a. chunk \in Nat /\ chunk <= plan.budget
      BY <1>1, <2>4
    <2>5. /\ after.ids \in Seq(Ids) /\ Len(after.ids) = i
          /\ after.ids[i] = e[i]
          /\ \A j \in 1..(i - 1) : after.ids[j] = plan.ids[j]
      BY <1>0, <1>1, <2>1, <2>2
    <2>6. /\ after.chunks \in Seq(Nat) /\ Len(after.chunks) = i
          /\ after.chunks[i] = chunk
          /\ \A j \in 1..(i - 1) : after.chunks[j] = plan.chunks[j]
      <3> DEFINE c == plan.chunks
      <3>1. c \in Seq(Nat) /\ Len(c) = i - 1 /\ after.chunks = Append(c, chunk)
        BY <1>1, <2>1
      <3> HIDE DEF c, after
      <3>2. after.chunks \in Seq(Nat) /\ Len(after.chunks) = (i - 1) + 1
            /\ after.chunks[(i - 1) + 1] = chunk
            /\ \A j \in 1..(i - 1) : after.chunks[j] = c[j]
        BY <2>4a, <3>1
      <3> QED
        BY <1>0, <3>2 DEF c
    <2>7. \A j \in 1..i : after.ids[j] = e[j] /\ GoodChunk(requests[e[j]], after.chunks[j])
      <3> TAKE j \in 1..i
      <3>1. CASE j = i
        BY <2>4, <2>5, <2>6, <3>1 DEF r
      <3>2. CASE j # i
        <4>1. j \in 1..(i - 1)
          BY <1>0, <3>2
        <4> HIDE DEF after
        <4> QED
          BY <2>1, <2>5, <2>6, <4>1 DEF PlanAt, GoodPlan, e
      <3> QED
        BY <3>1, <3>2
    <2>8. after.budget = plan.budget - chunk /\ after.slots = plan.slots - 1
      OBVIOUS
    <2> HIDE DEF after
    <2>9. GoodPlan(after)
      BY <1>0, <2>5, <2>6, <2>7 DEF GoodPlan, e, n
    <2>10. after.budget \in Nat /\ after.slots = n - i
      <3>1. plan.slots = n - (i - 1)
        BY <1>1, <2>1
      <3>2. after.budget \in Nat
        BY <1>1, <2>4a, <2>8
      <3>3. after.slots = (n - (i - 1)) - 1
        BY <2>8, <3>1
      <3>4. (n - (i - 1)) - 1 = n - i
        BY <1>0
      <3> QED
        BY <3>2, <3>3, <3>4
    <2>11. n <= PrefillTokenCapacity => after.slots <= after.budget
      <3>1. n <= PrefillTokenCapacity => plan.slots <= plan.budget
        BY DEF PlanAt, n, e
      <3> QED
        BY <2>4, <2>8, <3>1
    <2>12. \E t : Totals(t, after)
      <3> DEFINE c == plan.chunks
      <3>1. PICK t : Totals(t, plan)
        BY DEF PlanAt
      <3>2. /\ Len(c) = i - 1 /\ t \in [0..(i - 1) -> Nat] /\ t[0] = 0
            /\ \A j \in 1..(i - 1) : t[j] = t[j - 1] + c[j]
            /\ t[i - 1] + plan.budget = PrefillTokenCapacity
        BY <1>1, <2>1, <3>1 DEF Totals
      <3> DEFINE u == [j \in 0..i |-> IF j = i THEN t[i - 1] + chunk ELSE t[j]]
      <3>3. t[i - 1] \in Nat
        BY <1>0, <3>2
      <3>4. u \in [0..i -> Nat] /\ u[0] = 0 /\ u[i] = t[i - 1] + chunk
        BY <1>0, <2>4a, <3>2, <3>3
      <3>5. \A j \in 1..i : u[j] = u[j - 1] + after.chunks[j]
        <4> TAKE j \in 1..i
        <4>1. u[j - 1] = t[j - 1]
          BY <1>0
        <4>2. CASE j = i
          BY <1>0, <2>6, <3>4, <4>1, <4>2
        <4>3. CASE j # i
          <5>1. j \in 1..(i - 1) /\ u[j] = t[j]
            BY <1>0, <4>3
          <5> QED
            BY <2>6, <3>2, <4>1, <5>1
        <4> QED
          BY <4>2, <4>3
      <3>6. u[i] + after.budget = PrefillTokenCapacity
        BY <1>1, <2>4a, <2>8, <3>2, <3>3, <3>4
      <3> HIDE DEF u
      <3>7. Totals(u, after)
        BY <2>6, <3>4, <3>5, <3>6 DEF Totals
      <3> QED
        BY <3>7
    <2> QED
      BY <1>0, <2>3, <2>5, <2>9, <2>10, <2>11, <2>12 DEF PlanAt, e, n
  <1> QED
    BY <1>2, <1>3 DEF e

\* The plan of the prefill phase.
LEMMA PlanFacts ==
  ASSUME RequestQueuesInv
  PROVE  /\ GoodPlan(PrefillPlan) /\ PrefillPlan.budget \in Nat
         /\ \E t : Totals(t, PrefillPlan)
         /\ Len(EligiblePrefills) <= PrefillTokenCapacity =>
              Len(PrefillPlan.ids) = Len(EligiblePrefills)
  <1> DEFINE n == Len(EligiblePrefills)
  <1>0. n \in Nat
    BY EligibleFacts
  <1>1. PICK f : /\ f[0] = EmptyPlan(n)
                 /\ \A i \in 1..n : f[i] = GiveShare(f[i - 1], EligiblePrefills[i])
                 /\ PrefillPlan = f[n]
    BY <1>0, PrefillPlanRec
  <1> DEFINE T == {i \in 0..n : PlanAt(f[i], i)}
  <1>2. 0 \in T
    <2>1. PlanAt(EmptyPlan(n), 0)
      <3>1. Len(<<>>) = 0 /\ <<>> \in Seq(Ids) /\ <<>> \in Seq(Nat) /\ PrefillTokenCapacity \in Nat
        BY LimitsAssumption
      <3>2. 0 <= n /\ n - 0 = n /\ 1..0 = {}
        BY <1>0
      <3>3. Totals([j \in 0..0 |-> 0], EmptyPlan(n))
        BY <3>1, <3>2 DEF EmptyPlan, Totals
      <3> HIDE DEF n
      <3> QED
        BY <3>1, <3>2, <3>3 DEF EmptyPlan, PlanAt, GoodPlan, n
    <2> QED
      BY <1>0, <1>1, <2>1
  <1>3. ASSUME NEW i \in 1..n, i - 1 \in T PROVE i \in T
    <2>1. PlanAt(f[i - 1], i - 1) /\ i \in 0..n
      BY <1>0, <1>3
    <2>2. PlanAt(GiveShare(f[i - 1], EligiblePrefills[i]), i)
      BY <2>1, PlanStep
    <2> QED
      BY <1>1, <2>1, <2>2
  <1>4. \A i \in 0..n : i \in T
    <2> HIDE DEF T, n
    <2> QED
      BY <1>0, <1>2, <1>3, IntervalInduction
  <1>5. PlanAt(PrefillPlan, n)
    BY <1>0, <1>1, <1>4
  <1> DEFINE p == PrefillPlan
  <1>6. /\ GoodPlan(p) /\ p.budget \in Nat /\ (\E t : Totals(t, p)) /\ p.slots = n - Len(p.ids) /\ Len(p.ids) <= n
        /\ p.budget > 0 => Len(p.ids) = n
        /\ n <= PrefillTokenCapacity => p.slots <= p.budget
    BY <1>5 DEF PlanAt
  <1>7. Len(p.ids) \in Nat
    BY <1>6 DEF GoodPlan
  <1> QED
    <2> HIDE DEF n, p
    <2>1. n <= PrefillTokenCapacity => Len(p.ids) = n
      BY <1>0, <1>6, <1>7
    <2> QED
      BY <1>6, <2>1 DEF n, p

\* The selected requests of the plan and the queue without them.
LEMMA UnselectedFacts ==
  ASSUME RequestQueuesInv
  PROVE  LET ids == PrefillPlan.ids
         IN  /\ ids \in Seq(Ids) /\ IsInjective(ids)
             /\ \A id \in ToSet(ids) :
                  id \in ToSet(prefilling) /\ PrefillableTokens(requests[id]) > 0
             /\ UnselectedPrefills(ids) \in Seq(Ids) /\ IsInjective(UnselectedPrefills(ids))
             /\ ToSet(UnselectedPrefills(ids)) = ToSet(prefilling) \ ToSet(ids)
  <1> DEFINE ids == PrefillPlan.ids
             q == prefilling
             m == Len(ids)
             e == EligiblePrefills
  <1>1. /\ q \in Seq(Ids) /\ IsInjective(q) /\ Len(q) \in Nat
    BY DEF RequestQueuesInv
  <1>2. /\ ids \in Seq(Ids) /\ m <= Len(e) /\ m \in Nat
        /\ \A j \in 1..m : ids[j] = e[j]
    BY PlanFacts DEF GoodPlan
  <1>3. PICK h : Places(h, e, q, Len(q))
    BY EligibleFacts
  <1>3a. e \in Seq(Ids) /\ Len(e) \in Nat
    BY EligibleFacts
  <1> HIDE DEF ids, q, e
  <1>4. \A j \in 1..m : j \in 1..Len(e)
    BY <1>2, <1>3a
  <1>5. Places([j \in 1..m |-> h[j]], ids, q, Len(q))
    BY <1>2, <1>3, <1>4 DEF Places
  <1>6. IsInjective(ids) /\ ToSet(ids) \subseteq ToSet(q)
    BY <1>1, <1>2, <1>5, PlacesInherit
  <1>7. \A id \in ToSet(ids) : PrefillableTokens(requests[id]) > 0
    <2>1. ASSUME NEW id \in ToSet(ids) PROVE PrefillableTokens(requests[id]) > 0
      <3>1. PICK j \in 1..m : ids[j] = id
        BY <1>2, <2>1, MemberAt
      <3>2. id \in ToSet(e)
        BY <1>2, <1>3a, <1>4, <3>1, MemberAt
      <3> QED
        BY <3>2, EligibleFacts DEF e
    <2> QED
      BY <2>1
  <1> DEFINE P(i) == IF ids = <<>> THEN i = 0 ELSE i > 0 /\ q[i] = Last(ids)
             k == CHOOSE i \in 0..Len(q) : P(i)
             a == SubSeq(q, 1, k)
             b == SubSeq(q, k + 1, Len(q))
  <1>8. UnselectedPrefills(ids) = b \o Without(a, ToSet(ids))
    BY Zenon DEF UnselectedPrefills, q
  <1>9. k \in 0..Len(q) /\ \A j \in 1..m : h[j] \in 1..k
    <2>1. CASE ids = <<>>
      <3>1. m = 0
        BY <2>1
      <3>2. 0 \in 0..Len(q) /\ P(0)
        BY <1>1, <2>1
      <3>3. k \in 0..Len(q)
        <4> HIDE DEF P
        <4> QED
          BY <3>2, Zenon
      <3> HIDE DEF k
      <3> QED
        BY <3>1, <3>3
    <2>2. CASE ids # <<>>
      <3>1. m > 0 /\ m \in 1..m /\ Last(ids) = ids[m]
        BY <1>2, <2>2 DEF Last
      <3>2. h[m] \in 1..Len(q) /\ q[h[m]] = Last(ids)
        BY <1>2, <1>3, <1>4, <3>1 DEF Places
      <3>3. h[m] \in 0..Len(q) /\ P(h[m])
        BY <1>1, <2>2, <3>2
      <3>4. k \in 0..Len(q) /\ P(k)
        <4> HIDE DEF P
        <4> QED
          BY <3>3, Zenon
      <3> HIDE DEF k
      <3>5. k \in 1..Len(q) /\ q[k] = Last(ids)
        BY <1>1, <2>2, <3>4
      <3>6. k = h[m]
        <4>1. DOMAIN q = 1..Len(q)
          BY <1>1
        <4> QED
          BY <1>1, <3>2, <3>5, <4>1 DEF IsInjective
      <3>7. \A j \in 1..m : h[j] \in 1..k
        <4> TAKE j \in 1..m
        <4>1. h[j] \in 1..Len(q) /\ (j < m => h[j] < h[m])
          BY <1>3, <1>4, <3>1 DEF Places
        <4> QED
          BY <1>1, <1>2, <3>5, <3>6, <4>1
      <3> QED
        BY <3>4, <3>7
    <2> QED
      BY <2>1, <2>2
  <1> HIDE DEF k, P
  <1>10. /\ a \in Seq(Ids) /\ b \in Seq(Ids) /\ Len(a) = k
         /\ \A i \in 1..k : a[i] = q[i]
         /\ ToSet(q) = ToSet(a) \cup ToSet(b)
         /\ IsInjective(a) /\ IsInjective(b) /\ ToSet(a) \cap ToSet(b) = {}
    BY <1>1, <1>9, ToSetSplit
  <1> HIDE DEF a, b
  <1>11. ToSet(ids) \subseteq ToSet(a)
    <2>1. ASSUME NEW id \in ToSet(ids) PROVE id \in ToSet(a)
      <3>1. PICK j \in 1..m : ids[j] = id
        BY <1>2, <2>1, MemberAt
      <3>2. h[j] \in 1..k /\ q[h[j]] = id
        BY <1>2, <1>3, <1>4, <1>9, <3>1 DEF Places
      <3>3. a[h[j]] = id
        BY <1>10, <3>2
      <3> QED
        BY <1>10, <3>2, <3>3, MemberAt
    <2> QED
      BY <2>1
  <1> DEFINE w == Without(a, ToSet(ids))
  <1>12. w \in Seq(Ids) /\ IsInjective(w) /\ ToSet(w) = ToSet(a) \ ToSet(ids)
    BY <1>10, WithoutFacts
  <1> HIDE DEF w
  <1>13. /\ b \o w \in Seq(Ids) /\ IsInjective(b \o w)
         /\ ToSet(b \o w) = ToSet(b) \cup ToSet(w)
    <2>1. ToSet(b) \cap ToSet(w) = {}
      BY <1>10, <1>12
    <2> QED
      BY <1>10, <1>12, <2>1, ToSetConcat
  <1>14. ToSet(b \o w) = ToSet(q) \ ToSet(ids)
    BY <1>10, <1>11, <1>12, <1>13
  <1> QED
    BY <1>2, <1>6, <1>7, <1>8, <1>13, <1>14 DEF ids, q, w

--------------------------------------------------------------------------------
(***************************************************************************)
(* The steps on requests and their queues.                                 *)
(***************************************************************************)

\* What a step has to establish for one identity.
RequestRow(id) ==
  /\ RequestOK(requests'[id])
  /\ ~(id < next_id') => requests'[id].lifecycle = "Absent"
  /\ id \in ToSet(waiting') => requests'[id].lifecycle = "Waiting" /\ ~requests'[id].sequence
  /\ requests'[id].lifecycle = "Prefilling" <=> id \in ToSet(prefilling')
  /\ requests'[id].lifecycle = "Decoding" <=> id \in ToSet(decoding')
  /\ ~DeviceFaults => (requests'[id].lifecycle = "Waiting" => id \in ToSet(waiting'))

\* What a step has to establish of the queues themselves.
QueuesOK ==
  /\ waiting' \in Seq(Ids) /\ Ascending(waiting')
  /\ prefilling' \in Seq(Ids) /\ IsInjective(prefilling')
  /\ decoding' \in Seq(Ids) /\ IsInjective(decoding')

\* The invariant is preserved identity by identity.
LEMMA QueuesPointwise ==
  ASSUME requests' = [id \in Ids |-> requests'[id]], next_id' \in 0..MaxRequests,
         QueuesOK, \A id \in Ids : RequestRow(id)
  PROVE  RequestQueuesInv'
  <1>1. requests' \in [Ids -> Requests]
    <2>1. \A id \in Ids : requests'[id] \in Requests
      BY DEF RequestRow, RequestOK
    <2> QED
      BY <2>1
  <1>2. ToSet(waiting') \subseteq Ids
    BY MemberAt DEF QueuesOK
  <1> QED
    BY <1>1, <1>2 DEF RequestQueuesInv, RequestRow, QueuesOK

\* What the invariant says of one identity.
LEMMA RequestFacts ==
  ASSUME RequestQueuesInv, NEW id \in Ids
  PROVE  /\ RequestOK(requests[id]) /\ requests[id] \in Requests
         /\ id \in Nat /\ next_id \in Nat /\ DOMAIN requests = Ids
         /\ requests = [j \in Ids |-> requests[j]]
         /\ ~(id < next_id) => requests[id].lifecycle = "Absent"
         /\ id \in ToSet(waiting) => requests[id].lifecycle = "Waiting" /\ ~requests[id].sequence
         /\ requests[id].lifecycle = "Prefilling" <=> id \in ToSet(prefilling)
         /\ requests[id].lifecycle = "Decoding" <=> id \in ToSet(decoding)
         /\ ~DeviceFaults => (requests[id].lifecycle = "Waiting" => id \in ToSet(waiting))
  <1>1. id \in Nat /\ next_id \in Nat
    BY LimitsAssumption DEF Ids, RequestQueuesInv
  <1> QED
    BY <1>1 DEF RequestQueuesInv

\* What the invariant says of the queues.
LEMMA QueueFacts ==
  ASSUME RequestQueuesInv
  PROVE  /\ waiting \in Seq(Ids) /\ Ascending(waiting) /\ IsInjective(waiting)
         /\ prefilling \in Seq(Ids) /\ IsInjective(prefilling)
         /\ decoding \in Seq(Ids) /\ IsInjective(decoding)
         /\ ToSet(waiting) \subseteq Ids /\ ToSet(prefilling) \subseteq Ids
         /\ ToSet(decoding) \subseteq Ids
         /\ requests = [id \in Ids |-> requests[id]] /\ next_id \in 0..MaxRequests
         /\ next_id \in Nat
  <1>1. next_id \in Nat
    BY LimitsAssumption DEF RequestQueuesInv
  <1> QED
    BY <1>1, AscendingInjective, MemberAt DEF RequestQueuesInv

\* An identity whose request and places in the queues stay as they are.
LEMMA RowUntouched ==
  ASSUME RequestQueuesInv, NEW id \in Ids, requests'[id] = requests[id],
         id \in ToSet(waiting') <=> id \in ToSet(waiting),
         id \in ToSet(prefilling') <=> id \in ToSet(prefilling),
         id \in ToSet(decoding') <=> id \in ToSet(decoding),
         next_id' \in Nat, next_id <= next_id'
  PROVE  RequestRow(id)
  <1>1. ~(id < next_id') => ~(id < next_id)
    BY RequestFacts
  <1> QED
    BY <1>1, RequestFacts DEF RequestRow

\* A filtered queue keeps its ascending order.
LEMMA WithoutAscends ==
  ASSUME NEW q \in Seq(Ids), Ascending(q), NEW S
  PROVE  Ascending(Without(q, S))
  <1> DEFINE R == ToSet(q) \ S
             w == Keep(q, R)
  <1>1. Without(q, S) = w
    BY DEF Without
  <1>2. PICK h : Places(h, w, q, Len(q))
    BY KeepPlaces
  <1> HIDE DEF w
  <1> QED
    BY <1>1, <1>2 DEF Ascending, Places

\* So does a queue that lost its head, or that a larger identity joined.
LEMMA TailAscends ==
  ASSUME NEW q \in Seq(Ids), Ascending(q), q # <<>>
  PROVE  /\ Ascending(Tail(q))
         /\ \A x \in ToSet(q) : x = Head(q) \/ Head(q) < x
  <1>1. /\ Len(Tail(q)) = Len(q) - 1 /\ Len(q) \in Nat /\ Len(q) > 0 /\ Head(q) = q[1]
        /\ \A i \in 1..(Len(q) - 1) : Tail(q)[i] = q[i + 1]
    OBVIOUS
  <1>2. Ascending(Tail(q))
    <2> DEFINE t == Tail(q)
    <2> HIDE DEF t
    <2>1. ASSUME NEW i \in 1..(Len(q) - 1), NEW j \in 1..(Len(q) - 1), i < j
          PROVE  t[i] < t[j]
      <3>1. i + 1 \in 1..Len(q) /\ j + 1 \in 1..Len(q) /\ i + 1 < j + 1
        BY <1>1, <2>1
      <3> QED
        BY <1>1, <3>1 DEF Ascending, t
    <2> QED
      BY <1>1, <2>1 DEF Ascending, t
  <1>3. ASSUME NEW x \in ToSet(q) PROVE x = Head(q) \/ Head(q) < x
    <2>1. PICK i \in 1..Len(q) : q[i] = x
      BY <1>3, MemberAt
    <2>2. 1 \in 1..Len(q) /\ (i = 1 \/ 1 < i)
      BY <1>1
    <2> QED
      BY <1>1, <2>1, <2>2 DEF Ascending
  <1> QED
    BY <1>2, <1>3

\* Appending an id above every queued one keeps a queue in ascending order.
LEMMA AppendAscends ==
  ASSUME NEW q \in Seq(Ids), Ascending(q), NEW x \in Ids, \A y \in ToSet(q) : y < x
  PROVE  Ascending(Append(q, x))
  <1> DEFINE t == Append(q, x)
  <1>1. /\ Len(t) = Len(q) + 1 /\ Len(q) \in Nat /\ t[Len(q) + 1] = x
        /\ \A i \in 1..Len(q) : t[i] = q[i]
    OBVIOUS
  <1>2. \A i \in 1..Len(q) : q[i] < x
    BY MemberAt
  <1> HIDE DEF t
  <1>3. ASSUME NEW i \in 1..(Len(q) + 1), NEW j \in 1..(Len(q) + 1), i < j
        PROVE  t[i] < t[j]
    <2>1. i \in 1..Len(q) /\ (j \in 1..Len(q) \/ j = Len(q) + 1)
      BY <1>1, <1>3
    <2> QED
      BY <1>1, <1>2, <1>3, <2>1 DEF Ascending
  <1> QED
    BY <1>1, <1>3 DEF Ascending, t

\* A step that touches neither the requests nor their queues.
LEMMA IdleKeepsQueues ==
  ASSUME RequestQueuesInv, UNCHANGED <<requests, queues>>, next_id' \in 0..MaxRequests,
         next_id <= next_id'
  PROVE  RequestQueuesInv'
  <1>1. next_id' \in Nat
    BY LimitsAssumption
  <1>2. QueuesOK
    BY QueueFacts DEF QueuesOK, queues
  <1>3. \A id \in Ids : RequestRow(id)
    BY <1>1, RowUntouched DEF queues
  <1> QED
    BY <1>2, <1>3, QueueFacts, QueuesPointwise

\* add_request: the new id enters the admission queue once, at the back.
LEMMA AddRequestKeepsQueues ==
  ASSUME RequestQueuesInv, NEW shape \in ChatShapes, AddRequest(shape)
  PROVE  RequestQueuesInv'
  <1> DEFINE r == [AbsentRequest EXCEPT
          !.lifecycle = IF shape.max_new = 0 THEN "Finished" ELSE "Waiting",
          !.prompt = shape.prompt, !.max_new = shape.max_new]
  <1>1. next_id \in Ids /\ next_id \in Nat /\ next_id' \in 0..MaxRequests /\ next_id' = next_id + 1
    BY QueueFacts, LimitsAssumption DEF AddRequest, Ids
  <1>2. /\ RequestOK(r) /\ ~r.sequence
        /\ r.lifecycle = IF shape.max_new = 0 THEN "Finished" ELSE "Waiting"
    <2>1. RequestOK(r)
      BY NewRequestOK
    <2> QED
      BY <2>1 DEF AbsentRequest
  <1>3. /\ requests' = [requests EXCEPT ![next_id] = r]
        /\ waiting' = IF shape.max_new = 0 THEN waiting ELSE Append(waiting, next_id)
        /\ prefilling' = prefilling /\ decoding' = decoding
    BY DEF AddRequest, EnqueueWaiting
  <1> HIDE DEF r
  <1>4. /\ requests' = [id \in Ids |-> requests'[id]] /\ requests'[next_id] = r
        /\ \A id \in Ids \ {next_id} : requests'[id] = requests[id]
    BY <1>1, <1>3, QueueFacts
  <1>5. \A id \in ToSet(waiting) : id < next_id
    BY QueueFacts, RequestFacts
  <1>6. requests[next_id].lifecycle = "Absent"
    BY <1>1, RequestFacts
  <1>7. /\ waiting' \in Seq(Ids) /\ Ascending(waiting')
        /\ \A id \in Ids \ {next_id} : id \in ToSet(waiting') <=> id \in ToSet(waiting)
        /\ next_id \in ToSet(waiting') <=> shape.max_new # 0
    <2>1. next_id \notin ToSet(waiting)
      BY <1>1, <1>5
    <2>2. CASE shape.max_new = 0
      BY <1>3, <2>1, <2>2, QueueFacts
    <2>3. CASE shape.max_new # 0
      <3>1. /\ Append(waiting, next_id) \in Seq(Ids)
            /\ ToSet(Append(waiting, next_id)) = ToSet(waiting) \cup {next_id}
        BY <1>1, QueueFacts, ToSetAppend
      <3>2. Ascending(Append(waiting, next_id))
        BY <1>1, <1>5, QueueFacts, AppendAscends
      <3> QED
        BY <1>3, <2>3, <3>1, <3>2
    <2> QED
      BY <2>2, <2>3
  <1>8. QueuesOK
    BY <1>3, <1>7, QueueFacts DEF QueuesOK
  <1>9. ASSUME NEW id \in Ids PROVE RequestRow(id)
    <2>1. CASE id = next_id
      BY <1>1, <1>2, <1>3, <1>4, <1>6, <1>7, <2>1, RequestFacts DEF RequestRow
    <2>2. CASE id # next_id
      BY <1>1, <1>3, <1>4, <1>7, <2>2, RowUntouched
    <2> QED
      BY <2>1, <2>2
  <1> QED
    BY <1>1, <1>4, <1>8, <1>9, QueuesPointwise

\* cancel_request: the id leaves the one queue it is in.
LEMMA CancelRequestKeepsQueues ==
  ASSUME RequestQueuesInv, NEW id \in Ids, CancelRequest(id), next_id' = next_id
  PROVE  RequestQueuesInv'
  <1> DEFINE r == [requests[id] EXCEPT !.lifecycle = "Cancelled", !.sequence = FALSE]
  <1>0. requests[id] \in Requests /\ DOMAIN requests = Ids
    BY RequestFacts
  <1>1. /\ requests' = [requests EXCEPT ![id] = r]
        /\ waiting' = Without(waiting, {id})
        /\ prefilling' = Without(prefilling, {id})
        /\ decoding' = Without(decoding, {id})
    BY <1>0 DEF CancelRequest
  <1>2. RequestOK(r) /\ r.lifecycle = "Cancelled" /\ id < next_id
    <2>1. requests[id].lifecycle # "Absent"
      BY DEF CancelRequest, Live
    <2>2. RequestOK(r)
      BY <2>1, RequestFacts, DepartedRequestOK
    <2>3. r.lifecycle = "Cancelled"
      BY <1>0 DEF Requests
    <2> QED
      BY <2>1, <2>2, <2>3, RequestFacts
  <1> HIDE DEF r
  <1>3. /\ requests' = [j \in Ids |-> requests'[j]] /\ requests'[id] = r
        /\ \A j \in Ids \ {id} : requests'[j] = requests[j]
    BY <1>1, QueueFacts
  <1>4. QueuesOK
    BY <1>1, QueueFacts, WithoutFacts, WithoutAscends DEF QueuesOK
  <1>5. /\ ToSet(waiting') = ToSet(waiting) \ {id}
        /\ ToSet(prefilling') = ToSet(prefilling) \ {id}
        /\ ToSet(decoding') = ToSet(decoding) \ {id}
    BY <1>1, QueueFacts, WithoutFacts
  <1>6. ASSUME NEW j \in Ids PROVE RequestRow(j)
    <2>1. CASE j = id
      BY <1>2, <1>3, <1>5, <2>1 DEF RequestRow
    <2>2. CASE j # id
      BY <1>3, <1>5, <2>2, RowUntouched, RequestFacts
    <2> QED
      BY <2>1, <2>2
  <1> QED
    BY <1>3, <1>4, <1>6, QueueFacts, QueuesPointwise

\* remove_finished: a terminal request is in no queue, so dropping it leaves none dangling.
LEMMA RemoveFinishedKeepsQueues ==
  ASSUME RequestQueuesInv, NEW id \in Ids, RemoveFinished(id)
  PROVE  RequestQueuesInv'
  <1> DEFINE r == [requests[id] EXCEPT !.lifecycle = "Removed"]
  <1>0. requests[id] \in Requests /\ DOMAIN requests = Ids /\ requests[id].lifecycle = "Finished"
    BY RequestFacts DEF RemoveFinished
  <1>1. /\ requests' = [requests EXCEPT ![id] = r]
        /\ waiting' = waiting /\ prefilling' = prefilling /\ decoding' = decoding
        /\ next_id' = next_id
    BY <1>0 DEF RemoveFinished, queues
  <1>2. RequestOK(r) /\ r.lifecycle = "Removed" /\ id < next_id
    <2>1. RequestOK(r)
      BY <1>0, RequestFacts, DepartedRequestOK
    <2>2. r.lifecycle = "Removed"
      BY <1>0 DEF Requests
    <2> QED
      BY <1>0, <2>1, <2>2, RequestFacts
  <1> HIDE DEF r
  <1>3. /\ requests' = [j \in Ids |-> requests'[j]] /\ requests'[id] = r
        /\ \A j \in Ids \ {id} : requests'[j] = requests[j]
    BY <1>1, QueueFacts
  <1>4. QueuesOK
    BY <1>1, QueueFacts DEF QueuesOK
  <1>6. ASSUME NEW j \in Ids PROVE RequestRow(j)
    <2>1. CASE j = id
      BY <1>0, <1>1, <1>2, <1>3, <2>1, RequestFacts DEF RequestRow
    <2>2. CASE j # id
      BY <1>1, <1>3, <2>2, RowUntouched, RequestFacts
    <2> QED
      BY <2>1, <2>2
  <1> QED
    BY <1>1, <1>3, <1>4, <1>6, QueueFacts, QueuesPointwise

\* The head of waiting, when a slot is free.
LEMMA AdmissionKeepsQueues ==
  ASSUME RequestQueuesInv, waiting # <<>>, NEW lifecycle \in {"Waiting", "Prefilling"},
         lifecycle = "Waiting" => DeviceFaults,
         NEW id, id = Head(waiting), NEW cached \in CachedPrefixes(requests[id]),
         NEW r, r = AdmittedRequest(requests[id], cached, lifecycle),
         requests' = [requests EXCEPT ![id] = r],
         waiting' = Tail(waiting), next_id' = next_id, decoding' = decoding,
         prefilling' = IF lifecycle = "Prefilling" THEN Append(prefilling, id) ELSE prefilling
  PROVE  RequestQueuesInv'
  <1>1. /\ id \in Ids /\ id \in ToSet(waiting)
        /\ Tail(waiting) \in Seq(Ids) /\ Ascending(Tail(waiting))
        /\ ToSet(waiting) = ToSet(Tail(waiting)) \cup {id} /\ id \notin ToSet(Tail(waiting))
    BY QueueFacts, ToSetTail, TailAscends
  <1>2. requests[id].lifecycle = "Waiting" /\ RequestOK(requests[id]) /\ DOMAIN requests = Ids
        /\ id < next_id
    BY <1>1, RequestFacts
  <1>3. RequestOK(r) /\ r.lifecycle = lifecycle
    BY <1>2, AdmittedRequestOK
  <1>5. /\ requests' = [j \in Ids |-> requests'[j]] /\ requests'[id] = r
        /\ \A j \in Ids \ {id} : requests'[j] = requests[j]
    BY <1>1, <1>2, QueueFacts
  <1>6. id \notin ToSet(prefilling) /\ id \notin ToSet(decoding)
    BY <1>1, <1>2, RequestFacts
  <1>7. /\ prefilling' \in Seq(Ids) /\ IsInjective(prefilling')
        /\ ToSet(prefilling') = ToSet(prefilling) \cup {x \in {id} : lifecycle = "Prefilling"}
    <2>1. CASE lifecycle = "Prefilling"
      <3>1. prefilling' = Append(prefilling, id)
        BY <2>1
      <3>2. /\ Append(prefilling, id) \in Seq(Ids) /\ IsInjective(Append(prefilling, id))
            /\ ToSet(Append(prefilling, id)) = ToSet(prefilling) \cup {id}
        BY <1>1, <1>6, QueueFacts, ToSetAppend
      <3> QED
        BY <2>1, <3>1, <3>2
    <2>2. CASE lifecycle # "Prefilling"
      BY <2>2, QueueFacts
    <2> QED
      BY <2>1, <2>2
  <1>8. QueuesOK
    BY <1>1, <1>7, QueueFacts DEF QueuesOK
  <1>9. ASSUME NEW j \in Ids PROVE RequestRow(j)
    <2>1. CASE j = id
      <3>1. requests'[j] = r /\ j < next_id' /\ j \notin ToSet(waiting') /\ j \notin ToSet(decoding')
        BY <1>1, <1>2, <1>5, <1>6, <2>1
      <3>2. j \in ToSet(prefilling') <=> lifecycle = "Prefilling"
        BY <1>6, <1>7, <2>1
      <3> QED
        BY <1>3, <3>1, <3>2 DEF RequestRow
    <2>2. CASE j # id
      <3>1. /\ requests'[j] = requests[j]
            /\ j \in ToSet(waiting') <=> j \in ToSet(waiting)
            /\ j \in ToSet(prefilling') <=> j \in ToSet(prefilling)
        BY <1>1, <1>5, <1>7, <2>2
      <3>2. next_id' \in Nat /\ next_id <= next_id'
        BY QueueFacts
      <3> QED
        BY <3>1, <3>2, RowUntouched
    <2> QED
      BY <2>1, <2>2
  <1> QED
    BY <1>5, <1>8, <1>9, QueueFacts, QueuesPointwise

\* The samples out of the requests in d were applied, and the other selected requests lost.
Sampled(out, d, alone) ==
  LET S == ToSet(DecodeSelection)
  IN  /\ d \in Seq(Ids) /\ IsInjective(d) /\ ToSet(d) \subseteq S
      /\ out \in [S -> Outcomes] /\ alone \in BOOLEAN
      /\ \A id \in S : PossibleOutcome(requests[id], out[id], alone)
      /\ requests' = [id \in Ids |->
           IF id \in ToSet(d) THEN AppliedSamples(requests[id], out[id])
           ELSE IF id \in S THEN LostRequest(requests[id]) ELSE requests[id]]
      /\ decoding' = RestDecoding \o Keep(d, {id \in S : ~out[id].finished})
      /\ prefilling' = Without(prefilling, S)
      /\ waiting' = waiting /\ next_id' = next_id

\* The decode phase, whether it applied the samples of all the selected requests or an
\* error after the first of them lost the others.
LEMMA SamplesKeepQueues ==
  ASSUME RequestQueuesInv, NEW out, NEW d, NEW alone, Sampled(out, d, alone)
  PROVE  RequestQueuesInv'
  <1> DEFINE S == ToSet(DecodeSelection)
             done == ToSet(d)
             F == {id \in S : ~out[id].finished}
  <1>0. /\ d \in Seq(Ids) /\ IsInjective(d) /\ done \subseteq S
        /\ out \in [S -> Outcomes] /\ alone \in BOOLEAN
        /\ \A id \in S : PossibleOutcome(requests[id], out[id], alone)
        /\ requests' = [id \in Ids |->
             IF id \in done THEN AppliedSamples(requests[id], out[id])
             ELSE IF id \in S THEN LostRequest(requests[id]) ELSE requests[id]]
        /\ decoding' = RestDecoding \o Keep(d, F)
        /\ prefilling' = Without(prefilling, S)
        /\ waiting' = waiting /\ next_id' = next_id
    BY Zenon DEF Sampled
  <1> DEFINE kept == Keep(d, F)
  <1>1. /\ \A id \in S : \/ id \in ToSet(decoding)
                         \/ id \in ToSet(prefilling) /\ RemainingPromptTokens(requests[id]) = 1
        /\ RestDecoding \in Seq(Ids) /\ IsInjective(RestDecoding)
        /\ ToSet(RestDecoding) = ToSet(decoding) \ S
    BY SelectionFacts
  <1> HIDE DEF S, done
  <1>2. kept \in Seq(Ids) /\ IsInjective(kept) /\ ToSet(kept) = done \cap F
    BY <1>0, KeepFacts DEF done
  <1> HIDE DEF kept
  <1>3. /\ decoding' \in Seq(Ids) /\ IsInjective(decoding')
        /\ ToSet(decoding') = (ToSet(decoding) \ S) \cup (done \cap F)
    <2>1. ToSet(RestDecoding) \cap ToSet(kept) = {}
      BY <1>1, <1>2
    <2>2. decoding' = RestDecoding \o kept
      BY <1>0 DEF kept
    <2>3. /\ RestDecoding \o kept \in Seq(Ids) /\ IsInjective(RestDecoding \o kept)
          /\ ToSet(RestDecoding \o kept) = ToSet(RestDecoding) \cup ToSet(kept)
      BY <1>1, <1>2, <2>1, ToSetConcat
    <2> QED
      BY <1>1, <1>2, <2>2, <2>3
  <1>4. /\ prefilling' \in Seq(Ids) /\ IsInjective(prefilling')
        /\ ToSet(prefilling') = ToSet(prefilling) \ S
    BY <1>0, QueueFacts, WithoutFacts
  <1>5. QueuesOK
    BY <1>0, <1>3, <1>4, QueueFacts DEF QueuesOK
  <1>6. S \subseteq Ids
    BY <1>1, QueueFacts
  <1>7. ASSUME NEW id \in Ids PROVE RequestRow(id)
    <2>1. CASE id \in S
      <3>1. /\ RequestOK(requests[id])
            /\ \/ requests[id].lifecycle = "Decoding"
               \/ requests[id].lifecycle = "Prefilling" /\ RemainingPromptTokens(requests[id]) = 1
            /\ id < next_id' /\ id \notin ToSet(waiting') /\ id \notin ToSet(prefilling')
        BY <1>0, <1>1, <1>4, <2>1, RequestFacts
      <3>2. CASE id \in done
        <4>1. requests'[id] = AppliedSamples(requests[id], out[id])
          BY <1>0, <3>2
        <4>2. out[id] \in Outcomes /\ PossibleOutcome(requests[id], out[id], alone)
              /\ out[id].finished \in BOOLEAN
          BY <1>0, <2>1 DEF Outcomes
        <4>3. /\ RequestOK(requests'[id])
              /\ requests'[id].lifecycle = IF out[id].finished THEN "Finished" ELSE "Decoding"
          <5> DEFINE q == requests[id]
                     o == out[id]
          <5>1. /\ RequestOK(AppliedSamples(q, o))
                /\ AppliedSamples(q, o).lifecycle = IF o.finished THEN "Finished" ELSE "Decoding"
            <6>1. RequestOK(q) /\ o \in Outcomes /\ PossibleOutcome(q, o, alone)
              BY <3>1, <4>2
            <6>2. q.lifecycle = "Decoding" \/ (q.lifecycle = "Prefilling" /\ RemainingPromptTokens(q) = 1)
              BY <3>1
            <6>3. alone \in BOOLEAN
              BY <1>0
            <6> HIDE DEF q, o
            <6> QED
              BY <6>1, <6>2, <6>3, AppliedSamplesOK, Zenon
          <5> QED
            BY <4>1, <5>1
        <4>4. id \in ToSet(decoding') <=> ~out[id].finished
          BY <1>3, <2>1, <3>2
        <4> QED
          BY <3>1, <4>3, <4>4 DEF RequestRow
      <3>3. CASE id \notin done
        <4>1. requests'[id] = LostRequest(requests[id])
          BY <1>0, <2>1, <3>3
        <4>2. RequestOK(requests'[id]) /\ requests'[id].lifecycle = "Lost"
          BY <3>1, <4>1, DepartedRequestOK
        <4>3. id \notin ToSet(decoding')
          BY <1>3, <2>1, <3>3
        <4> QED
          BY <3>1, <4>2, <4>3 DEF RequestRow
      <3> QED
        BY <3>2, <3>3
    <2>2. CASE id \notin S
      <3>1. /\ requests'[id] = requests[id]
            /\ id \in ToSet(decoding') <=> id \in ToSet(decoding)
            /\ id \in ToSet(prefilling') <=> id \in ToSet(prefilling)
        BY <1>0, <1>3, <1>4, <2>2
      <3>2. next_id' \in Nat /\ next_id <= next_id'
        BY <1>0, QueueFacts
      <3> QED
        BY <1>0, <3>1, <3>2, RowUntouched
    <2> QED
      BY <2>1, <2>2
  <1>8. requests' = [id \in Ids |-> requests'[id]]
    BY <1>0
  <1> QED
    BY <1>0, <1>5, <1>7, <1>8, QueueFacts, QueuesPointwise

\* A successful decode or verify batch: survivors go to the back of the ready queue, the finished
\* leave it.
LEMMA DecodeKeepsQueues ==
  ASSUME RequestQueuesInv, RunDecode \/ DecodeLoses
  PROVE  RequestQueuesInv'
  <1> DEFINE selected == DecodeSelection
             S == ToSet(selected)
             alone == Len(selected) = 1
  <1>0. selected \in Seq(Ids) /\ IsInjective(selected) /\ alone \in BOOLEAN
    BY SelectionFacts
  <1>1. CASE RunDecode
    <2>1. PICK out \in [S -> Outcomes] :
            /\ \A id \in S : PossibleOutcome(requests[id], out[id], alone)
            /\ requests' = [id \in Ids |-> IF id \in S
                              THEN AppliedSamples(requests[id], out[id]) ELSE requests[id]]
            /\ decoding' = RestDecoding \o Keep(selected, {id \in S : ~out[id].finished})
            /\ prefilling' = Without(prefilling, S)
      BY <1>1, Zenon DEF RunDecode
    <2>2. waiting' = waiting /\ next_id' = next_id
      BY <1>1 DEF RunDecode
    <2>3. Sampled(out, selected, alone)
      <3>1. requests' = [id \in Ids |->
              IF id \in S THEN AppliedSamples(requests[id], out[id])
              ELSE IF id \in S THEN LostRequest(requests[id]) ELSE requests[id]]
        <4> HIDE DEF S
        <4> QED
          BY <2>1
      <3>2. S \subseteq S
        OBVIOUS
      <3> QED
        BY <1>0, <2>1, <2>2, <3>1, <3>2, Zenon DEF Sampled
    <2> HIDE DEF alone, selected
    <2> QED
      BY <2>3, SamplesKeepQueues
  <1>2. CASE DecodeLoses
    <2>1. PICK out \in [S -> Outcomes], k \in 1..Len(selected), released \in BOOLEAN :
            LET done == ToSet(SubSeq(selected, 1, k - 1))
            IN  /\ \A id \in S : PossibleOutcome(requests[id], out[id], alone)
                /\ requests' = [id \in Ids |->
                     IF id \in done THEN AppliedSamples(requests[id], out[id])
                     ELSE IF id \in S THEN LostRequest(requests[id]) ELSE requests[id]]
                /\ decoding' = RestDecoding \o
                     Keep(SubSeq(selected, 1, k - 1), {id \in S : ~out[id].finished})
                /\ prefilling' = Without(prefilling, S)
      BY <1>2, Zenon DEF DecodeLoses
    <2>2. waiting' = waiting /\ next_id' = next_id
      BY <1>2 DEF DecodeLoses
    <2> DEFINE d == SubSeq(selected, 1, k - 1)
               done == ToSet(d)
    <2>3. d \in Seq(Ids) /\ IsInjective(d) /\ done \subseteq S
      <3>1. k - 1 \in 0..Len(selected)
        BY <1>0
      <3> HIDE DEF selected
      <3>2. ToSet(selected) = ToSet(d) \cup ToSet(SubSeq(selected, (k - 1) + 1, Len(selected)))
            /\ d \in Seq(Ids) /\ IsInjective(d)
        BY <1>0, <3>1, ToSetSplit
      <3> QED
        BY <3>2
    <2>4. /\ \A id \in S : PossibleOutcome(requests[id], out[id], alone)
          /\ requests' = [id \in Ids |->
               IF id \in done THEN AppliedSamples(requests[id], out[id])
               ELSE IF id \in S THEN LostRequest(requests[id]) ELSE requests[id]]
          /\ decoding' = RestDecoding \o Keep(d, {id \in S : ~out[id].finished})
          /\ prefilling' = Without(prefilling, S)
      BY <2>1, Zenon
    <2>5. Sampled(out, d, alone)
      BY <1>0, <2>2, <2>3, <2>4, Zenon DEF Sampled
    <2> HIDE DEF alone, d
    <2> QED
      BY <2>5, SamplesKeepQueues
  <1> QED
    BY <1>1, <1>2

\* A failed decode batch: its requests fail and are in no queue; the others keep their places.
LEMMA DecodeFailsKeepsQueues ==
  ASSUME RequestQueuesInv, DecodeFails
  PROVE  RequestQueuesInv'
  <1> DEFINE selected == DecodeSelection
             S == ToSet(selected)
             D == {id \in Ids : requests[id].lifecycle = "Decoding"}
             a == Keep(selected, D)
             b == Without(selected, D)
             c == Without(prefilling, S)
  <1>1. /\ decoding' = a \o RestDecoding /\ prefilling' = b \o c
        /\ requests' = requests /\ waiting' = waiting /\ next_id' = next_id
    BY Zenon DEF DecodeFails
  <1>2. /\ selected \in Seq(Ids) /\ IsInjective(selected)
        /\ \A id \in S : id \in ToSet(decoding) \/ id \in ToSet(prefilling)
        /\ RestDecoding \in Seq(Ids) /\ IsInjective(RestDecoding)
        /\ ToSet(RestDecoding) = ToSet(decoding) \ S
    BY SelectionFacts
  <1>3. ToSet(decoding) = D
    BY QueueFacts, RequestFacts
  <1>3a. ToSet(prefilling) \cap D = {}
    BY QueueFacts, RequestFacts
  <1> HIDE DEF D, selected
  <1>4. a \in Seq(Ids) /\ IsInjective(a) /\ ToSet(a) = S \cap D
    BY <1>2, KeepFacts
  <1>5. b \in Seq(Ids) /\ IsInjective(b) /\ ToSet(b) = S \ D
    BY <1>2, WithoutFacts
  <1>6. c \in Seq(Ids) /\ IsInjective(c) /\ ToSet(c) = ToSet(prefilling) \ S
    BY QueueFacts, WithoutFacts
  <1> HIDE DEF a, b, c
  <1>7. /\ decoding' \in Seq(Ids) /\ IsInjective(decoding')
        /\ ToSet(decoding') = ToSet(decoding)
    <2>1. ToSet(a) \cap ToSet(RestDecoding) = {}
      BY <1>2, <1>4
    <2>2. a \o RestDecoding \in Seq(Ids) /\ IsInjective(a \o RestDecoding)
          /\ ToSet(a \o RestDecoding) = ToSet(a) \cup ToSet(RestDecoding)
      BY <1>2, <1>4, <2>1, ToSetConcat
    <2> QED
      BY <1>1, <1>2, <1>3, <1>4, <2>2
  <1>8. /\ prefilling' \in Seq(Ids) /\ IsInjective(prefilling')
        /\ ToSet(prefilling') = ToSet(prefilling)
    <2>1. ToSet(b) \cap ToSet(c) = {}
      BY <1>5, <1>6
    <2>2. b \o c \in Seq(Ids) /\ IsInjective(b \o c)
          /\ ToSet(b \o c) = ToSet(b) \cup ToSet(c)
      BY <1>5, <1>6, <2>1, ToSetConcat
    <2>3. (S \ D) \cup (ToSet(prefilling) \ S) = ToSet(prefilling)
      BY <1>2, <1>3, <1>3a
    <2> QED
      BY <1>1, <1>5, <1>6, <2>2, <2>3
  <1>9. QueuesOK
    BY <1>1, <1>7, <1>8, QueueFacts DEF QueuesOK
  <1>10. ASSUME NEW id \in Ids PROVE RequestRow(id)
    BY <1>1, <1>7, <1>8, QueueFacts, RowUntouched
  <1> QED
    BY <1>1, <1>9, <1>10, QueueFacts, QueuesPointwise

\* The chunk the plan gives to a selected request.
LEMMA ChunkIsGood ==
  ASSUME RequestQueuesInv, NEW plan, plan = PrefillPlan, NEW id \in ToSet(plan.ids)
  PROVE  GoodChunk(requests[id], plan.chunks[CHOOSE i \in DOMAIN plan.ids : plan.ids[i] = id])
  <1>1. GoodPlan(plan)
    BY PlanFacts
  <1>2. DOMAIN plan.ids = 1..Len(plan.ids)
    BY <1>1 DEF GoodPlan
  <1> DEFINE k == CHOOSE i \in DOMAIN plan.ids : plan.ids[i] = id
  <1>3. \E i \in DOMAIN plan.ids : plan.ids[i] = id
    BY <1>1, <1>2, MemberAt DEF GoodPlan
  <1>4. k \in DOMAIN plan.ids /\ plan.ids[k] = id
    BY <1>3, Zenon
  <1> HIDE DEF k
  <1> QED
    BY <1>1, <1>2, <1>4 DEF GoodPlan, k

\* A prefill batch that runs moves the selected requests behind the others; one that fails
\* puts them back in front, or loses them.
LEMMA PrefillKeepsQueues ==
  ASSUME RequestQueuesInv, RunPrefill \/ PrefillFails \/ PrefillLoses
  PROVE  RequestQueuesInv'
  <1>0. PICK plan \in {PrefillPlan} : RunPrefill =>
          /\ requests' = [id \in Ids |-> IF id \in ToSet(plan.ids)
               THEN PrefilledRequest(requests[id],
                      plan.chunks[CHOOSE i \in DOMAIN plan.ids : plan.ids[i] = id])
               ELSE requests[id]]
          /\ prefilling' = UnselectedPrefills(plan.ids) \o plan.ids
    BY Zenon DEF RunPrefill
  <1> DEFINE ids == plan.ids
             u == UnselectedPrefills(ids)
             Chunk(id) == plan.chunks[CHOOSE i \in DOMAIN plan.ids : plan.ids[i] = id]
  <1>1. /\ ids \in Seq(Ids) /\ IsInjective(ids)
        /\ ToSet(ids) \subseteq ToSet(prefilling)
        /\ u \in Seq(Ids) /\ IsInjective(u)
        /\ ToSet(u) = ToSet(prefilling) \ ToSet(ids)
    BY UnselectedFacts
  <1>2. \A id \in ToSet(ids) : GoodChunk(requests[id], Chunk(id))
    BY <1>0, ChunkIsGood, Zenon
  <1>3. waiting' = waiting /\ next_id' = next_id /\ decoding' = decoding
    BY DEF RunPrefill, PrefillFails, PrefillLoses
  <1>a. ASSUME NEW id \in Ids, requests'[id] = requests[id], id \notin ToSet(ids),
               ToSet(prefilling') = ToSet(prefilling) \/ ToSet(prefilling') = ToSet(u)
        PROVE  RequestRow(id)
    <2> HIDE DEF u, ids
    <2>1. id \in ToSet(prefilling') <=> id \in ToSet(prefilling)
      BY <1>1, <1>a
    <2>2. next_id' \in Nat /\ next_id <= next_id'
      BY <1>3, QueueFacts
    <2> QED
      BY <1>3, <1>a, <2>1, <2>2, RowUntouched
  <1>b. /\ u \o ids \in Seq(Ids) /\ IsInjective(u \o ids) /\ ToSet(u \o ids) = ToSet(prefilling)
        /\ ids \o u \in Seq(Ids) /\ IsInjective(ids \o u) /\ ToSet(ids \o u) = ToSet(prefilling)
    <2> HIDE DEF u, ids
    <2>1. ToSet(u) \cap ToSet(ids) = {} /\ ToSet(ids) \cap ToSet(u) = {}
      BY <1>1
    <2>2. u \o ids \in Seq(Ids) /\ IsInjective(u \o ids) /\ ToSet(u \o ids) = ToSet(u) \cup ToSet(ids)
      BY <1>1, <2>1, ToSetConcat
    <2>3. ids \o u \in Seq(Ids) /\ IsInjective(ids \o u) /\ ToSet(ids \o u) = ToSet(ids) \cup ToSet(u)
      BY <1>1, <2>1, ToSetConcat
    <2> QED
      BY <1>1, <2>2, <2>3
  <1>4. CASE RunPrefill
    <2>1. /\ requests' = [id \in Ids |-> IF id \in ToSet(ids)
                            THEN PrefilledRequest(requests[id], Chunk(id)) ELSE requests[id]]
          /\ prefilling' = u \o ids
      BY <1>0, <1>4, Zenon
    <2> HIDE DEF u, ids, Chunk
    <2>2. QueuesOK
      BY <1>3, <1>b, <2>1, QueueFacts DEF QueuesOK
    <2>3. ASSUME NEW id \in Ids PROVE RequestRow(id)
      <3>1. CASE id \in ToSet(ids)
        <4>1. RequestOK(requests[id]) /\ requests[id].lifecycle = "Prefilling" /\ id < next_id'
              /\ id \notin ToSet(waiting') /\ id \notin ToSet(decoding')
              /\ id \in ToSet(prefilling')
          BY <1>1, <1>3, <1>b, <2>1, <3>1, RequestFacts
        <4>2. requests'[id] = PrefilledRequest(requests[id], Chunk(id))
          BY <2>1, <3>1
        <4>3. RequestOK(requests'[id]) /\ requests'[id].lifecycle = "Prefilling"
          <5>1. GoodChunk(requests[id], Chunk(id))
            BY <1>2, <3>1
          <5>2. PICK c : GoodChunk(requests[id], c) /\ requests'[id] = PrefilledRequest(requests[id], c)
            BY <4>2, <5>1, Zenon
          <5>3. /\ RequestOK(PrefilledRequest(requests[id], c))
                /\ PrefilledRequest(requests[id], c).lifecycle = "Prefilling"
            BY <4>1, <5>2, PrefilledRequestOK, Zenon
          <5> QED
            BY <5>2, <5>3
        <4> QED
          BY <4>1, <4>3 DEF RequestRow
      <3>2. CASE id \notin ToSet(ids)
        BY <1>a, <1>b, <2>1, <3>2
      <3> QED
        BY <3>1, <3>2
    <2>4. requests' = [id \in Ids |-> requests'[id]]
      BY <2>1
    <2> QED
      BY <1>3, <2>2, <2>3, <2>4, QueueFacts, QueuesPointwise
  <1>5. CASE PrefillFails
    <2>1. prefilling' = ids \o u /\ requests' = requests
      BY <1>5 DEF PrefillFails
    <2> HIDE DEF u, ids
    <2>2. QueuesOK
      BY <1>3, <1>b, <2>1, QueueFacts DEF QueuesOK
    <2>3. \A id \in Ids : RequestRow(id)
      BY <1>3, <1>b, <2>1, QueueFacts, RowUntouched
    <2> QED
      BY <1>3, <2>1, <2>2, <2>3, QueueFacts, QueuesPointwise
  <1>6. CASE PrefillLoses
    <2>1. /\ requests' = [id \in Ids |-> IF id \in ToSet(ids)
                            THEN LostRequest(requests[id]) ELSE requests[id]]
          /\ prefilling' = u
      BY <1>6, Zenon DEF PrefillLoses
    <2> HIDE DEF u, ids
    <2>2. QueuesOK
      BY <1>1, <1>3, <2>1, QueueFacts DEF QueuesOK
    <2>3. ASSUME NEW id \in Ids PROVE RequestRow(id)
      <3>1. CASE id \in ToSet(ids)
        <4>1. RequestOK(requests[id]) /\ requests[id].lifecycle = "Prefilling" /\ id < next_id'
              /\ id \notin ToSet(waiting') /\ id \notin ToSet(decoding')
              /\ id \notin ToSet(prefilling')
          BY <1>1, <1>3, <2>1, <3>1, RequestFacts
        <4>2. requests'[id] = LostRequest(requests[id])
          BY <2>1, <3>1
        <4>3. RequestOK(requests'[id]) /\ requests'[id].lifecycle = "Lost"
          BY <4>1, <4>2, DepartedRequestOK
        <4> QED
          BY <4>1, <4>3 DEF RequestRow
      <3>2. CASE id \notin ToSet(ids)
        BY <1>a, <2>1, <3>2
      <3> QED
        BY <3>1, <3>2
    <2>4. requests' = [id \in Ids |-> requests'[id]]
      BY <2>1
    <2> QED
      BY <1>3, <2>2, <2>3, <2>4, QueueFacts, QueuesPointwise
  <1> QED
    BY <1>4, <1>5, <1>6

\* Admission takes the head of the waiting queue, whether it succeeds, fails before the
\* sequence entered the pool, or fails after it did.
LEMMA AdmitKeepsQueues ==
  ASSUME RequestQueuesInv, AdmitWaiting \/ AdmitFails
  PROVE  RequestQueuesInv'
  <1> DEFINE id == Head(waiting)
  <1>1. waiting # <<>> /\ waiting' = Tail(waiting) /\ next_id' = next_id /\ decoding' = decoding
    BY DEF AdmitWaiting, AdmitFails
  <1>2. ASSUME NEW lifecycle \in {"Waiting", "Prefilling"}, lifecycle = "Waiting" => DeviceFaults,
               NEW cached \in CachedPrefixes(requests[id]),
               requests' = [requests EXCEPT ![id] = AdmittedRequest(@, cached, lifecycle)],
               prefilling' = IF lifecycle = "Prefilling" THEN Append(prefilling, id)
                             ELSE prefilling
        PROVE  RequestQueuesInv'
    <2> DEFINE r == AdmittedRequest(requests[id], cached, lifecycle)
    <2>1. requests' = [requests EXCEPT ![id] = r]
      BY <1>2
    <2> HIDE DEF r, id
    <2> QED
      BY <1>1, <1>2, <2>1, AdmissionKeepsQueues DEF r, id
  <1>3. CASE AdmitWaiting
    <2>1. PICK cached \in CachedPrefixes(requests[id]) :
            requests' = [requests EXCEPT ![id] = AdmittedRequest(@, cached, "Prefilling")]
      BY <1>3 DEF AdmitWaiting
    <2>2. prefilling' = Append(prefilling, id)
      BY <1>3 DEF AdmitWaiting
    <2> HIDE DEF id
    <2> QED
      BY <1>2, <2>1, <2>2
  <1>4. CASE AdmitFails
    <2>0. DeviceFaults /\ prefilling' = prefilling
      BY <1>4 DEF AdmitFails
    <2>1. CASE requests' = requests
      <3>1. /\ Tail(waiting) \in Seq(Ids) /\ Ascending(Tail(waiting))
            /\ ToSet(Tail(waiting)) \subseteq ToSet(waiting)
        BY <1>1, QueueFacts, ToSetTail, TailAscends
      <3>2. QueuesOK
        BY <1>1, <2>0, <3>1, QueueFacts DEF QueuesOK
      <3>3. ASSUME NEW j \in Ids PROVE RequestRow(j)
        BY <1>1, <2>0, <2>1, <3>1, RequestFacts DEF RequestRow
      <3> QED
        BY <1>1, <2>1, <3>2, <3>3, QueueFacts, QueuesPointwise
    <2>2. CASE requests' # requests
      <3>1. PICK cached \in CachedPrefixes(requests[id]) :
              requests' = [requests EXCEPT ![id] = AdmittedRequest(@, cached, "Waiting")]
        BY <1>4, <2>2 DEF AdmitFails
      <3> HIDE DEF id
      <3> QED
        BY <1>2, <2>0, <3>1
    <2> QED
      BY <2>1, <2>2
  <1> QED
    BY <1>3, <1>4

\* Every step keeps the queues and the lifecycles together.
LEMMA NextKeepsQueues ==
  ASSUME RequestQueuesInv, [Next]_vars
  PROVE  RequestQueuesInv'
  <1>0. next_id \in 0..MaxRequests /\ next_id \in Nat /\ MaxRequests \in Nat
    BY QueueFacts, LimitsAssumption
  <1>1. CASE StartTick \/ AdmitDone \/ RunDecision \/ UNCHANGED vars
    <2>1. UNCHANGED <<requests, queues, next_id>>
      BY <1>1 DEF StartTick, AdmitDone, RunDecision, vars, queues
    <2> QED
      BY <1>0, <2>1, IdleKeepsQueues
  <1>2. CASE AdmitWaiting \/ AdmitFails
    BY <1>2, AdmitKeepsQueues
  <1>3. CASE RunDecode \/ DecodeLoses
    BY <1>3, DecodeKeepsQueues
  <1>4. CASE DecodeFails
    BY <1>4, DecodeFailsKeepsQueues
  <1>5. CASE RunPrefill \/ PrefillFails \/ PrefillLoses
    BY <1>5, PrefillKeepsQueues
  <1>6. ASSUME NEW shape \in DecisionShapes, AddDecision(shape)
        PROVE  RequestQueuesInv'
    <2>1. UNCHANGED <<requests, queues>> /\ next_id' = next_id + 1 /\ next_id < MaxRequests
      BY <1>6 DEF AddDecision
    <2>2. next_id' \in 0..MaxRequests /\ next_id <= next_id'
      BY <1>0, <2>1
    <2> QED
      BY <2>1, <2>2, IdleKeepsQueues
  <1>7. ASSUME NEW id \in Ids, Cancel(id)
        PROVE  RequestQueuesInv'
    <2>1. CASE CancelDecision(id)
      <3>1. UNCHANGED <<requests, queues, next_id>>
        BY <1>7, <2>1 DEF Cancel, CancelDecision
      <3> QED
        BY <1>0, <3>1, IdleKeepsQueues
    <2>2. CASE CancelRequest(id)
      BY <1>7, <2>2, CancelRequestKeepsQueues DEF Cancel
    <2> QED
      BY <1>7, <2>1, <2>2 DEF Cancel
  <1> QED
    BY <1>1, <1>2, <1>3, <1>4, <1>5, <1>6, <1>7, AddRequestKeepsQueues,
       RemoveFinishedKeepsQueues
    DEF Next, Tick, TickFails, Call

\* The scheduler starts with nothing queued.
LEMMA InitQueues ==
  ASSUME Init
  PROVE  RequestQueuesInv
  <1>1. RequestOK(AbsentRequest)
    BY DEF AbsentRequest, RequestOK, Requests
  <1>2. /\ <<>> \in Seq(Ids) /\ Ascending(<<>>) /\ IsInjective(<<>>) /\ ToSet(<<>>) = {}
    BY DEF Ascending, IsInjective, ToSet
  <1>3. AbsentRequest.lifecycle = "Absent" /\ AbsentRequest \in Requests
    BY DEF AbsentRequest, Requests
  <1>4. /\ requests = [id \in Ids |-> AbsentRequest] /\ waiting = <<>> /\ prefilling = <<>>
        /\ decoding = <<>> /\ next_id = 0 /\ 0 \in 0..MaxRequests
    BY LimitsAssumption DEF Init
  <1> QED
    BY <1>1, <1>2, <1>3, <1>4 DEF RequestQueuesInv

--------------------------------------------------------------------------------
(***************************************************************************)
(* Decision groups, their queue and the sequences of their branches.       *)
(***************************************************************************)

\* The branches of a group that hold a sequence.
Branches(g) == {b.branch : b \in ToSet(g.active)}

\* A branch of a decision group in flight.
Branch == [branch : Nat, position : Nat]

\* What is known of the active branches of a group: they are distinct and have a
\* suffix that they did not overrun.
ActiveOK(g) ==
  /\ \A i, j \in 1..Len(g.active) : g.active[i].branch = g.active[j].branch => i = j
  /\ \A i \in 1..Len(g.active) :
       /\ g.active[i].branch \in 1..Len(g.suffixes)
       /\ g.active[i].position < g.suffixes[g.active[i].branch]

\* What is known of one decision group.
GroupOK(g) ==
  /\ g \in Groups
  /\ \A k \in 1..Len(g.suffixes) : g.suffixes[k] > 0
  /\ g.next_branch <= Len(g.suffixes)
  /\ g.state # "Queued" => g.active = <<>>
  /\ ActiveOK(g)
  /\ g.state = "Queued" =>
       /\ IsInjective(g.logits)
       /\ Branches(g) \cap ToSet(g.logits) = {}
       /\ Branches(g) \cup ToSet(g.logits) = 1..g.next_branch
  /\ g.state = "Answered" => ToSet(g.logits) = 1..Len(g.suffixes) /\ IsInjective(g.logits)

\* The decision groups and their queue.
GroupQueueInv ==
  /\ decisions \in [Ids -> Groups]
  /\ \A id \in Ids : GroupOK(decisions[id])
  /\ next_id \in 0..MaxRequests
  /\ \A id \in Ids : ~(id < next_id) => decisions[id].state = "Absent"
  /\ decision_queue \in Seq(Ids) /\ IsInjective(decision_queue)
  /\ \A id \in Ids : decisions[id].state = "Queued" <=> id \in ToSet(decision_queue)

\* The sequence handles a request, a group parent or a branch can own.
Handles == {"request", "parent", "branch"} \X Ids \X Nat

\* The pool holds the sequence of a branch exactly while the branch is active.
BranchInv ==
  /\ sequences \subseteq Handles
  /\ \A id \in Ids, k \in Nat : BranchSequence(id, k) \in sequences <=> k \in Branches(decisions[id])

\* The active branches, by their places.
LEMMA BranchAt ==
  ASSUME NEW g, g.active \in Seq(Branch)
  PROVE  /\ \A k : k \in Branches(g) <=> \E i \in 1..Len(g.active) : g.active[i].branch = k
         /\ Branches(g) \subseteq Nat
  <1>1. \A b : b \in ToSet(g.active) <=> \E i \in 1..Len(g.active) : g.active[i] = b
    BY MemberAt
  <1>2. \A i \in 1..Len(g.active) : g.active[i].branch \in Nat
    <2>1. \A i \in 1..Len(g.active) : g.active[i] \in Branch
      OBVIOUS
    <2> QED
      BY <2>1 DEF Branch
  <1> QED
    BY <1>1, <1>2 DEF Branches

\* Vec::swap_remove moves the last element into the hole.
LEMMA SwapRemoveFacts ==
  ASSUME NEW U, NEW s \in Seq(U), NEW i \in 1..Len(s)
  PROVE  /\ SwapRemove(s, i) \in Seq(U) /\ Len(SwapRemove(s, i)) = Len(s) - 1
         /\ \A j \in 1..(Len(s) - 1) : SwapRemove(s, i)[j] = IF j = i THEN s[Len(s)] ELSE s[j]
  <1> DEFINE t == [s EXCEPT ![i] = s[Len(s)]]
  <1>1. Len(s) \in Nat /\ Len(s) \in 1..Len(s) /\ s[Len(s)] \in U
    OBVIOUS
  <1>2. t \in Seq(U) /\ Len(t) = Len(s)
        /\ \A j \in 1..Len(s) : t[j] = IF j = i THEN s[Len(s)] ELSE s[j]
    BY <1>1
  <1> HIDE DEF t
  <1>3. Len(t) - 1 \in 0..Len(t)
    BY <1>1, <1>2
  <1>4. /\ SubSeq(t, 1, Len(t) - 1) \in Seq(U) /\ Len(SubSeq(t, 1, Len(t) - 1)) = Len(t) - 1
        /\ \A j \in 1..(Len(t) - 1) : SubSeq(t, 1, Len(t) - 1)[j] = t[j]
    BY <1>2, <1>3, ToSetSplit
  <1>5. SwapRemove(s, i) = SubSeq(t, 1, Len(t) - 1)
    BY <1>2 DEF SwapRemove, t
  <1> QED
    BY <1>1, <1>2, <1>4, <1>5

\* The recursion that defines RemoveReady holds.
LEMMA RemoveReadyRec ==
  ASSUME NEW s, NEW n \in Nat
  PROVE  \E f : /\ f[0] = s
                /\ \A m \in 1..n : f[m] = SwapRemove(f[m - 1], n - m + 1)
                /\ RemoveReady(s, n) = f[n]
  <1> DEFINE Step(x, i) == SwapRemove(x, n - i + 1)
             Def(f, k) == [i \in 0..k |-> IF i = 0 THEN s ELSE Step(f[i - 1], i)]
             K == CHOOSE f : f = Def(f, n)
             T == {k \in 0..n : \E g : g = Def(g, k)}
  <1>1. RemoveReady(s, n) = K[n]
    BY Zenon DEF RemoveReady
  <1> HIDE DEF Step
  <1>2. 0 \in T
    <2> DEFINE g == [i \in 0..0 |-> s]
    <2>1. g = Def(g, 0)
      OBVIOUS
    <2>2. 0 \in 0..n
      OBVIOUS
    <2> HIDE DEF g
    <2> QED
      BY <2>1, <2>2
  <1>3. ASSUME NEW k \in 1..n, k - 1 \in T PROVE k \in T
    <2>1. PICK g : g = Def(g, k - 1)
      BY <1>3
    <2> DEFINE h == [i \in 0..k |-> IF i = k THEN Step(g[k - 1], k) ELSE g[i]]
    <2>2. ASSUME NEW i \in 0..k PROVE h[i] = IF i = 0 THEN s ELSE Step(h[i - 1], i)
      <3>1. CASE i = 0
        <4>1. h[0] = g[0] /\ 0 \in 0..(k - 1)
          OBVIOUS
        <4>2. g[0] = s
          BY <2>1, <4>1
        <4> QED
          BY <3>1, <4>1, <4>2
      <3>2. CASE i # 0
        <4>1. i - 1 \in 0..k /\ i - 1 # k
          BY <3>2
        <4>2. h[i - 1] = g[i - 1]
          BY <4>1
        <4>3. CASE i = k
          BY <3>2, <4>2, <4>3
        <4>4. CASE i # k
          <5>1. i \in 0..(k - 1)
            BY <4>4
          <5>2. g[i] = Step(g[i - 1], i)
            BY <2>1, <3>2, <5>1
          <5> QED
            BY <3>2, <4>2, <4>4, <5>2
        <4> QED
          BY <4>3, <4>4
      <3> QED
        BY <3>1, <3>2
    <2>3. h = [i \in 0..k |-> h[i]]
      OBVIOUS
    <2> HIDE DEF h
    <2>4. h = Def(h, k)
      BY <2>2, <2>3, Zenon
    <2>5. k \in 0..n
      OBVIOUS
    <2> QED
      BY <2>4, <2>5
  <1>4. \A k \in 0..n : k \in T
    <2> HIDE DEF T
    <2> QED
      BY <1>2, <1>3, IntervalInduction
  <1>5. K = Def(K, n)
    <2>1. \E g : g = Def(g, n)
      BY <1>4
    <2> HIDE DEF Def
    <2> QED
      BY <2>1, Zenon
  <1> HIDE DEF K
  <1>6. K[0] = s
    BY <1>5
  <1>7. \A i \in 1..n : K[i] = Step(K[i - 1], i)
    <2> TAKE i \in 1..n
    <2>1. i \in 0..n /\ i # 0
      OBVIOUS
    <2> QED
      BY <1>5, <2>1
  <1> QED
    BY <1>1, <1>6, <1>7, Zenon DEF Step

\* The places h[1], ..., h[Len(s) - m] of s are what is left, in some order, of s without
\* its places k - m + 1 to k; the first k - m are still where they were.
LeftOver(h, r, s, k, m) ==
  /\ Len(r) = Len(s) - m
  /\ h \in [1..(Len(s) - m) -> 1..Len(s)]
  /\ \A i, j \in 1..(Len(s) - m) : h[i] = h[j] => i = j
  /\ \A i \in 1..(Len(s) - m) : r[i] = s[h[i]] /\ h[i] \notin (k - m + 1)..k
  /\ \A p \in 1..Len(s) : p \notin (k - m + 1)..k => \E i \in 1..(Len(s) - m) : h[i] = p
  /\ \A i \in 1..(k - m) : h[i] = i

\* One swap_remove of the loop.
LEMMA LeftOverStep ==
  ASSUME NEW U, NEW s \in Seq(U), NEW k \in 0..Len(s), NEW m \in 1..k,
         NEW r \in Seq(U), NEW h, LeftOver(h, r, s, k, m - 1)
  PROVE  /\ SwapRemove(r, k - m + 1) \in Seq(U)
         /\ \E g : LeftOver(g, SwapRemove(r, k - m + 1), s, k, m)
  <1> DEFINE n == Len(s)
             p == k - m + 1
             last == n - (m - 1)
             t == SwapRemove(r, p)
             g == [j \in 1..(n - m) |-> IF j = p THEN h[last] ELSE h[j]]
  <1>0. /\ n \in Nat /\ k \in Nat /\ m \in Nat /\ k <= n /\ m <= k /\ 1 <= m
        /\ p \in 1..last /\ Len(r) = last /\ last - 1 = n - m /\ last \in 1..last
        /\ p \in 1..k
    BY DEF LeftOver
  <1>1. t \in Seq(U) /\ Len(t) = n - m
        /\ \A j \in 1..(n - m) : t[j] = IF j = p THEN r[last] ELSE r[j]
    <2> HIDE DEF p, last, n
    <2>1. p \in 1..Len(r)
      BY <1>0
    <2>2. /\ SwapRemove(r, p) \in Seq(U) /\ Len(SwapRemove(r, p)) = Len(r) - 1
          /\ \A j \in 1..(Len(r) - 1) : SwapRemove(r, p)[j] = IF j = p THEN r[Len(r)] ELSE r[j]
      BY <2>1, SwapRemoveFacts, Zenon
    <2> QED
      BY <1>0, <2>2
  <1>2. /\ h \in [1..last -> 1..n]
        /\ \A i, j \in 1..last : h[i] = h[j] => i = j
        /\ \A i \in 1..last : r[i] = s[h[i]] /\ h[i] \notin (p + 1)..k
        /\ \A q \in 1..n : q \notin (p + 1)..k => \E i \in 1..last : h[i] = q
        /\ h[p] = p
    <2>1. k - (m - 1) + 1 = p + 1 /\ k - (m - 1) = p
      BY <1>0
    <2>2. p \in 1..p
      BY <1>0
    <2> HIDE DEF p, last
    <2> QED
      BY <2>1, <2>2 DEF LeftOver, last
  <1> HIDE DEF t, n, p, last
  <1>3. \A j \in 1..(n - m) : j \in 1..last /\ j # last
    BY <1>0
  <1>4. g \in [1..(n - m) -> 1..n]
    BY <1>0, <1>2, <1>3
  <1>5. ASSUME NEW i \in 1..(n - m), NEW j \in 1..(n - m), g[i] = g[j] PROVE i = j
    <2>1. g[i] = (IF i = p THEN h[last] ELSE h[i]) /\ g[j] = (IF j = p THEN h[last] ELSE h[j])
      OBVIOUS
    <2> QED
      BY <1>0, <1>2, <1>3, <1>5, <2>1
  <1>6. ASSUME NEW i \in 1..(n - m) PROVE t[i] = s[g[i]] /\ g[i] \notin p..k
    <2>1. CASE i = p
      <3>1. g[i] = h[last] /\ last # p
        BY <1>3, <2>1
      <3>2. h[last] # p
        BY <1>0, <1>2, <3>1
      <3>3. h[last] \notin (p + 1)..k /\ t[i] = s[h[last]] /\ h[last] \in 1..n
        BY <1>0, <1>1, <1>2, <2>1
      <3> QED
        BY <1>0, <3>1, <3>2, <3>3
    <2>2. CASE i # p
      <3>1. g[i] = h[i] /\ i \in 1..last
        BY <1>3, <2>2
      <3>2. h[i] # p
        BY <1>0, <1>2, <2>2, <3>1
      <3>3. h[i] \notin (p + 1)..k /\ t[i] = s[h[i]] /\ h[i] \in 1..n
        BY <1>1, <1>2, <2>2, <3>1
      <3> QED
        BY <1>0, <3>1, <3>2, <3>3
    <2> QED
      BY <2>1, <2>2
  <1>7. ASSUME NEW q \in 1..n, q \notin p..k PROVE \E i \in 1..(n - m) : g[i] = q
    <2>1. q \notin (p + 1)..k /\ q # p
      BY <1>0, <1>7
    <2>2. PICK i \in 1..last : h[i] = q
      BY <1>2, <2>1
    <2>3. i # p
      BY <1>2, <2>1, <2>2
    <2>4. CASE i = last
      <3>1. p \in 1..(n - m)
        BY <1>0, <2>3, <2>4
      <3> QED
        BY <2>2, <2>4, <3>1
    <2>5. CASE i # last
      <3>1. i \in 1..(n - m)
        BY <1>0, <2>5
      <3> QED
        BY <2>2, <2>3, <3>1
    <2> QED
      BY <2>4, <2>5
  <1>8. ASSUME NEW i \in 1..(k - m) PROVE g[i] = i
    <2>1. i \in 1..(k - (m - 1)) /\ i \in 1..(n - m) /\ i # p
      BY <1>0 DEF p
    <2> QED
      BY <2>1 DEF LeftOver
  <1> HIDE DEF g
  <1>9. LeftOver(g, t, s, k, m)
    <2>1. k - m + 1 = p /\ Len(s) = n
      BY DEF p, n
    <2> QED
      BY <1>1, <1>4, <1>5, <1>6, <1>7, <1>8, <2>1 DEF LeftOver
  <1> QED
    BY <1>1, <1>9 DEF t, p

\* RemoveReady leaves exactly what was behind the first k, in some order.
LEMMA RemoveReadyFacts ==
  ASSUME NEW U, NEW s \in Seq(U), NEW k \in 0..Len(s)
  PROVE  RemoveReady(s, k) \in Seq(U) /\ \E h : LeftOver(h, RemoveReady(s, k), s, k, k)
  <1>0. k \in Nat /\ Len(s) \in Nat
    OBVIOUS
  <1>1. PICK f : /\ f[0] = s
                 /\ \A m \in 1..k : f[m] = SwapRemove(f[m - 1], k - m + 1)
                 /\ RemoveReady(s, k) = f[k]
    BY <1>0, RemoveReadyRec
  <1> DEFINE T == {m \in 0..k : f[m] \in Seq(U) /\ \E h : LeftOver(h, f[m], s, k, m)}
  <1>2. 0 \in T
    <2>1. LeftOver([i \in 1..Len(s) |-> i], s, s, k, 0)
      <3>1. Len(s) - 0 = Len(s) /\ k - 0 = k /\ (k + 1)..k = {}
        BY <1>0
      <3>2. \A i \in 1..k : i \in 1..Len(s)
        BY <1>0
      <3> QED
        BY <3>1, <3>2 DEF LeftOver
    <2> QED
      BY <1>0, <1>1, <2>1
  <1>3. ASSUME NEW m \in 1..k, m - 1 \in T PROVE m \in T
    <2>1. PICK h : LeftOver(h, f[m - 1], s, k, m - 1)
      BY <1>3
    <2>2. f[m - 1] \in Seq(U) /\ m \in 0..k
      BY <1>3
    <2>3. /\ SwapRemove(f[m - 1], k - m + 1) \in Seq(U)
          /\ \E g : LeftOver(g, SwapRemove(f[m - 1], k - m + 1), s, k, m)
      BY <2>1, <2>2, LeftOverStep
    <2> QED
      BY <1>1, <2>2, <2>3
  <1>4. \A m \in 0..k : m \in T
    <2> HIDE DEF T
    <2> QED
      BY <1>0, <1>2, <1>3, IntervalInduction
  <1> QED
    BY <1>0, <1>1, <1>4

\* The plan before any branch was given a part of the budget.
NoSuffixes(g) ==
  [budget |-> PrefillTokenCapacity, rows |-> 0, suffixes |-> g.suffixes, active |-> <<>>]

\* The recursion that defines SuffixPlan holds.
LEMMA SuffixPlanRec ==
  ASSUME NEW G, NEW n \in Nat, n = Len(G.active)
  PROVE  \E f : /\ f[0] = NoSuffixes(G)
                /\ \A i \in 1..n : f[i] = GiveSuffix(f[i - 1], G.active[i])
                /\ SuffixPlan(G) = f[n]
  <1> DEFINE s == NoSuffixes(G)
             Step(x, i) == GiveSuffix(x, G.active[i])
             Def(f, k) == [i \in 0..k |-> IF i = 0 THEN s ELSE Step(f[i - 1], i)]
             K == CHOOSE f : f = Def(f, n)
             T == {k \in 0..n : \E g : g = Def(g, k)}
  <1>1. SuffixPlan(G) = K[n]
    BY Zenon DEF SuffixPlan, NoSuffixes
  <1> HIDE DEF s, Step
  <1>2. 0 \in T
    <2> DEFINE g == [i \in 0..0 |-> s]
    <2>1. g = Def(g, 0)
      OBVIOUS
    <2>2. 0 \in 0..n
      OBVIOUS
    <2> HIDE DEF g
    <2> QED
      BY <2>1, <2>2
  <1>3. ASSUME NEW k \in 1..n, k - 1 \in T PROVE k \in T
    <2>1. PICK g : g = Def(g, k - 1)
      BY <1>3
    <2> DEFINE h == [i \in 0..k |-> IF i = k THEN Step(g[k - 1], k) ELSE g[i]]
    <2>2. ASSUME NEW i \in 0..k PROVE h[i] = IF i = 0 THEN s ELSE Step(h[i - 1], i)
      <3>1. CASE i = 0
        <4>1. h[0] = g[0] /\ 0 \in 0..(k - 1)
          OBVIOUS
        <4>2. g[0] = s
          BY <2>1, <4>1
        <4> QED
          BY <3>1, <4>1, <4>2
      <3>2. CASE i # 0
        <4>1. i - 1 \in 0..k /\ i - 1 # k
          BY <3>2
        <4>2. h[i - 1] = g[i - 1]
          BY <4>1
        <4>3. CASE i = k
          BY <3>2, <4>2, <4>3
        <4>4. CASE i # k
          <5>1. i \in 0..(k - 1)
            BY <4>4
          <5>2. g[i] = Step(g[i - 1], i)
            BY <2>1, <3>2, <5>1
          <5> QED
            BY <3>2, <4>2, <4>4, <5>2
        <4> QED
          BY <4>3, <4>4
      <3> QED
        BY <3>1, <3>2
    <2>3. h = [i \in 0..k |-> h[i]]
      OBVIOUS
    <2> HIDE DEF h
    <2>4. h = Def(h, k)
      BY <2>2, <2>3, Zenon
    <2>5. k \in 0..n
      OBVIOUS
    <2> QED
      BY <2>4, <2>5
  <1>4. \A k \in 0..n : k \in T
    <2> HIDE DEF T
    <2> QED
      BY <1>2, <1>3, IntervalInduction
  <1>5. K = Def(K, n)
    <2>1. \E g : g = Def(g, n)
      BY <1>4
    <2> HIDE DEF Def
    <2> QED
      BY <2>1, Zenon
  <1> HIDE DEF K
  <1>6. K[0] = s
    BY <1>5
  <1>7. \A i \in 1..n : K[i] = Step(K[i - 1], i)
    <2> TAKE i \in 1..n
    <2>1. i \in 0..n /\ i # 0
      OBVIOUS
    <2> QED
      BY <1>5, <2>1
  <1> QED
    BY <1>1, <1>6, <1>7, Zenon DEF s, Step


\* The plan after i of the active branches were looked at.
SuffixAt(plan, g, i) ==
  /\ plan.active \in Seq(Branch) /\ Len(plan.active) = i
  /\ plan.budget \in Nat /\ plan.suffixes = g.suffixes
  /\ DOMAIN plan = {"budget", "rows", "suffixes", "active"}
  /\ \A j \in 1..i : /\ plan.active[j].branch = g.active[j].branch
                     /\ plan.active[j].position < g.suffixes[g.active[j].branch]

\* A branch takes no more than the budget and stops before its final token.
LEMMA SuffixStep ==
  ASSUME NEW g \in Groups, ActiveOK(g), NEW i \in 1..Len(g.active),
         NEW plan, SuffixAt(plan, g, i - 1)
  PROVE  SuffixAt(GiveSuffix(plan, g.active[i]), g, i)
  <1> DEFINE b == g.active[i]
             size == g.suffixes[b.branch]
             chunk == MinOf(SuffixLeft(plan, b), plan.budget)
             c == [b EXCEPT !.position = @ + chunk]
  <1>1. /\ b \in Branch /\ g.suffixes \in Seq(Nat) /\ b.branch \in 1..Len(g.suffixes)
        /\ b.position \in Nat /\ b.position < size /\ i \in Nat /\ i - 1 \in Nat
        /\ b.branch \in Nat
    <2>1. g.active \in Seq(Branch) /\ g.suffixes \in Seq(Nat)
      BY DEF Groups, Branch
    <2>2. b \in Branch
      BY <2>1
    <2>3. b.branch \in 1..Len(g.suffixes) /\ b.position < size
      BY DEF ActiveOK
    <2>4. b.position \in Nat /\ b.branch \in Nat
      BY <2>2 DEF Branch
    <2>5. i \in Nat /\ i - 1 \in Nat
      BY <2>1
    <2> HIDE DEF b
    <2> QED
      BY <2>1, <2>2, <2>3, <2>4, <2>5
  <1>2. size \in Nat
    <2> HIDE DEF b
    <2> QED
      BY <1>1
  <1> HIDE DEF b, size
  <1>3. /\ plan.active \in Seq(Branch) /\ Len(plan.active) = i - 1
        /\ plan.budget \in Nat /\ plan.suffixes = g.suffixes
        /\ DOMAIN plan = {"budget", "rows", "suffixes", "active"}
        /\ \A j \in 1..(i - 1) : /\ plan.active[j].branch = g.active[j].branch
                                 /\ plan.active[j].position < g.suffixes[g.active[j].branch]
    BY DEF SuffixAt
  <1>4. chunk \in Nat /\ chunk <= plan.budget /\ b.position + chunk < size
    <2>1. SuffixLeft(plan, b) = size - 1 - b.position
      BY <1>3 DEF SuffixLeft, size
    <2> QED
      BY <1>1, <1>2, <1>3, <2>1 DEF MinOf
  <1> HIDE DEF chunk
  <1>5. c \in Branch /\ c.branch = b.branch /\ c.position = b.position + chunk
    BY <1>1, <1>4 DEF Branch
  <1> HIDE DEF c
  <1>6. ASSUME NEW d \in Branch, d.branch = b.branch, d.position < size
        PROVE  /\ Append(plan.active, d) \in Seq(Branch) /\ Len(Append(plan.active, d)) = i
               /\ \A j \in 1..i :
                    /\ Append(plan.active, d)[j].branch = g.active[j].branch
                    /\ Append(plan.active, d)[j].position < g.suffixes[g.active[j].branch]
    <2> DEFINE s == plan.active
               t == Append(s, d)
    <2>1. s \in Seq(Branch) /\ Len(s) = i - 1
      BY <1>3
    <2> HIDE DEF s
    <2>2. t \in Seq(Branch) /\ Len(t) = (i - 1) + 1 /\ t[(i - 1) + 1] = d
          /\ \A j \in 1..(i - 1) : t[j] = s[j]
      BY <2>1
    <2>3. (i - 1) + 1 = i
      BY <1>1
    <2> HIDE DEF t
    <2>4. ASSUME NEW j \in 1..i
          PROVE  t[j].branch = g.active[j].branch
                 /\ t[j].position < g.suffixes[g.active[j].branch]
      <3>1. CASE j = i
        BY <1>6, <2>2, <2>3, <3>1 DEF b, size
      <3>2. CASE j # i
        <4>1. j \in 1..(i - 1)
          BY <1>1, <3>2
        <4> QED
          BY <1>3, <2>2, <4>1 DEF s
      <3> QED
        BY <3>1, <3>2
    <2> QED
      BY <2>2, <2>3, <2>4 DEF t, s
  <1>7. CASE chunk = 0 \/ plan.rows = PrefillSequenceCapacity
    <2> DEFINE p == [plan EXCEPT !.active = Append(@, b)]
    <2>1. GiveSuffix(plan, b) = p
      BY <1>7 DEF GiveSuffix, chunk
    <2>2. /\ p.active = Append(plan.active, b) /\ p.budget = plan.budget
          /\ p.suffixes = plan.suffixes /\ DOMAIN p = {"budget", "rows", "suffixes", "active"}
      BY <1>3
    <2> HIDE DEF p
    <2>3. SuffixAt(p, g, i)
      BY <1>1, <1>3, <1>6, <2>2 DEF SuffixAt
    <2> QED
      BY <2>1, <2>3 DEF b
  <1>8. CASE ~(chunk = 0 \/ plan.rows = PrefillSequenceCapacity)
    <2> DEFINE p == [plan EXCEPT !.budget = @ - chunk, !.rows = @ + 1, !.active = Append(@, c)]
    <2>1. GiveSuffix(plan, b) = p
      BY <1>8 DEF GiveSuffix, chunk, c
    <2>2. /\ p.active = Append(plan.active, c) /\ p.budget = plan.budget - chunk
          /\ p.suffixes = plan.suffixes /\ DOMAIN p = {"budget", "rows", "suffixes", "active"}
      BY <1>3
    <2> HIDE DEF p
    <2>3. p.budget \in Nat
      BY <1>3, <1>4, <2>2
    <2>4. /\ p.active \in Seq(Branch) /\ Len(p.active) = i
          /\ \A j \in 1..i : /\ p.active[j].branch = g.active[j].branch
                             /\ p.active[j].position < g.suffixes[g.active[j].branch]
      BY <1>4, <1>5, <1>6, <2>2
    <2>5. SuffixAt(p, g, i)
      BY <1>3, <2>2, <2>3, <2>4 DEF SuffixAt
    <2> QED
      BY <2>1, <2>5 DEF b
  <1> QED
    BY <1>7, <1>8

\* The suffix plan moves positions only.
LEMMA SuffixPlanFacts ==
  ASSUME NEW g \in Groups, ActiveOK(g)
  PROVE  SuffixAt(SuffixPlan(g), g, Len(g.active))
  <1> DEFINE n == Len(g.active)
  <1>0. n \in Nat
    BY DEF Groups
  <1>1. PICK f : /\ f[0] = NoSuffixes(g)
                 /\ \A i \in 1..n : f[i] = GiveSuffix(f[i - 1], g.active[i])
                 /\ SuffixPlan(g) = f[n]
    BY <1>0, SuffixPlanRec
  <1> DEFINE T == {i \in 0..n : SuffixAt(f[i], g, i)}
  <1>2. 0 \in T
    <2>1. <<>> \in Seq(Branch) /\ Len(<<>>) = 0 /\ PrefillTokenCapacity \in Nat /\ 1..0 = {}
      BY LimitsAssumption
    <2>2. SuffixAt(NoSuffixes(g), g, 0)
      BY <2>1 DEF SuffixAt, NoSuffixes
    <2> QED
      BY <1>0, <1>1, <2>2
  <1>3. ASSUME NEW i \in 1..n, i - 1 \in T PROVE i \in T
    <2>1. SuffixAt(f[i - 1], g, i - 1) /\ i \in 0..n
      BY <1>0, <1>3
    <2>2. SuffixAt(GiveSuffix(f[i - 1], g.active[i]), g, i)
      BY <2>1, SuffixStep
    <2> QED
      BY <1>1, <2>1, <2>2
  <1>4. \A i \in 0..n : i \in T
    <2> HIDE DEF T, n
    <2> QED
      BY <1>0, <1>2, <1>3, IntervalInduction
  <1> QED
    BY <1>0, <1>1, <1>4

\* The types behind GroupOK.
LEMMA GroupTypes ==
  ASSUME NEW g \in Groups
  PROVE  /\ g.suffixes \in Seq(Nat) /\ g.active \in Seq(Branch) /\ g.logits \in Seq(Nat)
         /\ g.next_branch \in Nat /\ Len(g.suffixes) \in Nat /\ Len(g.active) \in Nat
         /\ g.prefix \in Nat /\ g.parent_position \in Nat
         /\ g.parent \in BOOLEAN /\ g.aligned \in BOOLEAN
  BY DEF Groups, Branch

\* A group without active branches.
LEMMA NoActive ==
  ASSUME NEW g, g.active = <<>>
  PROVE  ActiveOK(g) /\ Branches(g) = {}
  BY DEF ActiveOK, Branches, ToSet

\* A new group has no branch yet.
LEMMA NewGroupOK ==
  ASSUME NEW shape \in DecisionShapes, NEW g,
         g = [AbsentGroup EXCEPT !.state = "Queued", !.prefix = shape.prefix,
                                 !.suffixes = shape.suffixes]
  PROVE  GroupOK(g) /\ g.state = "Queued" /\ Branches(g) = {}
  <1>1. shape.prefix \in Nat /\ shape.suffixes \in Seq(Nat \ {0})
    BY ShapesAssumption
  <1> DEFINE s == shape.suffixes
  <1>2. s \in Seq(Nat) /\ Len(s) \in Nat /\ \A k \in 1..Len(s) : s[k] > 0
    BY <1>1
  <1>3. /\ g.state = "Queued" /\ g.prefix = shape.prefix /\ g.suffixes = s /\ g.active = <<>>
        /\ g.logits = <<>> /\ g.next_branch = 0
    BY DEF AbsentGroup
  <1>4. g \in Groups
    <2>1. /\ <<>> \in Seq([branch : Nat, position : Nat]) /\ <<>> \in Seq(Nat)
          /\ s \in Seq(Nat) /\ shape.prefix \in Nat
      BY <1>1, <1>2
    <2>2. g = [state |-> "Queued", prefix |-> shape.prefix, suffixes |-> s, parent |-> FALSE,
               parent_position |-> 0, aligned |-> FALSE, next_branch |-> 0,
               active |-> <<>>, logits |-> <<>>]
      BY DEF AbsentGroup
    <2> DEFINE e == <<>>
               p == shape.prefix
    <2>3. /\ e \in Seq([branch : Nat, position : Nat]) /\ e \in Seq(Nat)
          /\ s \in Seq(Nat) /\ p \in Nat
      BY <2>1
    <2>4. g = [state |-> "Queued", prefix |-> p, suffixes |-> s, parent |-> FALSE,
               parent_position |-> 0, aligned |-> FALSE, next_branch |-> 0,
               active |-> e, logits |-> e]
      BY <2>2
    <2> HIDE DEF s, e, p
    <2>5. [state |-> "Queued", prefix |-> p, suffixes |-> s, parent |-> FALSE,
           parent_position |-> 0, aligned |-> FALSE, next_branch |-> 0,
           active |-> e, logits |-> e] \in Groups
      BY <2>3 DEF Groups
    <2> QED
      BY <2>4, <2>5, Zenon
  <1> HIDE DEF s
  <1>5. ActiveOK(g) /\ Branches(g) = {}
    BY <1>3, NoActive
  <1>6. IsInjective(<<>>) /\ ToSet(<<>>) = {} /\ 1..0 = {}
    BY DEF IsInjective, ToSet
  <1> QED
    BY <1>2, <1>3, <1>4, <1>5, <1>6 DEF GroupOK

\* A released group keeps nothing active; an answered one had read every branch.
LEMMA ReleasedGroupOK ==
  ASSUME NEW g, GroupOK(g), g.state = "Queued",
         NEW state \in {"Answered", "Failed", "Cancelled"},
         state = "Answered" => g.active = <<>> /\ AllAdmitted(g),
         NEW h, h = [g EXCEPT !.state = state, !.parent = FALSE, !.active = <<>>]
  PROVE  GroupOK(h) /\ h.state = state /\ Branches(h) = {}
  <1>1. g \in Groups
    BY DEF GroupOK
  <1>2. /\ h \in Groups /\ h.state = state /\ h.active = <<>> /\ h.suffixes = g.suffixes
        /\ h.logits = g.logits /\ h.next_branch = g.next_branch
    <2>1. <<>> \in Seq([branch : Nat, position : Nat])
      OBVIOUS
    <2> QED
      BY <1>1, <2>1 DEF Groups
  <1>3. ActiveOK(h) /\ Branches(h) = {}
    BY <1>2, NoActive
  <1>4. state = "Answered" => ToSet(g.logits) = 1..Len(g.suffixes) /\ IsInjective(g.logits)
    <2>1. g.active = <<>> => Branches(g) = {}
      BY NoActive
    <2> QED
      BY <2>1 DEF GroupOK, AllAdmitted
  <1> QED
    BY <1>2, <1>3, <1>4 DEF GroupOK

\* A step on the parent alone.
LEMMA SameBranchesOK ==
  ASSUME NEW g, GroupOK(g), NEW h \in Groups, h.state = g.state, h.suffixes = g.suffixes,
         h.active = g.active, h.logits = g.logits, h.next_branch = g.next_branch
  PROVE  GroupOK(h) /\ Branches(h) = Branches(g)
  BY DEF GroupOK, ActiveOK, Branches

\* A wave of branches enters behind the active ones.
LEMMA WaveOK ==
  ASSUME NEW g, GroupOK(g), g.state = "Queued", NEW n \in Nat, g.next_branch + n <= Len(g.suffixes),
         NEW wave, wave = [i \in 1..n |-> [branch |-> g.next_branch + i, position |-> 0]],
         NEW h, h = [g EXCEPT !.active = @ \o wave, !.next_branch = @ + n]
  PROVE  /\ GroupOK(h) /\ h.state = "Queued"
         /\ Branches(h) = Branches(g) \cup {g.next_branch + i : i \in 1..n}
  <1> DEFINE b == g.next_branch
             s == g.active
             m == Len(s)
             t == s \o wave
             N == {b + i : i \in 1..n}
  <1>0. g \in Groups /\ s \in Seq(Branch) /\ m \in Nat /\ b \in Nat /\ g.suffixes \in Seq(Nat)
        /\ Len(g.suffixes) \in Nat
    BY GroupTypes DEF GroupOK
  <1>1. wave \in Seq(Branch) /\ Len(wave) = n
    <2>1. \A i \in 1..n : [branch |-> b + i, position |-> 0] \in Branch
      BY <1>0 DEF Branch
    <2> QED
      BY <2>1
  <1>2. /\ h.state = g.state /\ h.active = t /\ h.next_branch = b + n
        /\ h.suffixes = g.suffixes /\ h.logits = g.logits
    BY <1>0 DEF Groups
  <1> HIDE DEF s, b
  <1>3. /\ t \in Seq(Branch) /\ Len(t) = m + n
        /\ \A i \in 1..m : t[i] = s[i]
        /\ \A i \in (m + 1)..(m + n) : t[i] = wave[i - m]
    BY <1>0, <1>1
  <1>4. h \in Groups
    <2>1. t \in Seq([branch : Nat, position : Nat]) /\ b + n \in Nat
      BY <1>0, <1>3 DEF Branch
    <2> QED
      BY <1>0, <2>1 DEF Groups, s, b
  <1>5. /\ \A i \in 1..m : t[i].branch = s[i].branch /\ t[i].position = s[i].position
        /\ \A i \in (m + 1)..(m + n) : /\ i - m \in 1..n
                                       /\ t[i].branch = b + (i - m) /\ t[i].position = 0
    <2>1. \A i \in (m + 1)..(m + n) : i - m \in 1..n
      BY <1>0
    <2> QED
      BY <1>3, <2>1 DEF b
  <1>6. \A k : k \in Branches(g) <=> \E i \in 1..m : s[i].branch = k
    BY <1>0, BranchAt DEF s
  <1>7. /\ Branches(g) \subseteq 1..b /\ ToSet(g.logits) \subseteq 1..b
        /\ Branches(g) \cap ToSet(g.logits) = {} /\ Branches(g) \cup ToSet(g.logits) = 1..b
        /\ IsInjective(g.logits)
    BY DEF GroupOK, b
  <1>8. \A i \in 1..m : s[i].branch \in 1..b
    BY <1>6, <1>7
  <1>9. \A i \in 1..(m + n) : i \in 1..m \/ i \in (m + 1)..(m + n)
    BY <1>0
  <1> HIDE DEF t, m
  <1>10. Branches(h) = Branches(g) \cup N
    <2>0. h.active \in Seq(Branch)
      BY <1>2, <1>3
    <2>a. \A k : k \in Branches(h) <=> \E i \in 1..Len(h.active) : h.active[i].branch = k
      BY <2>0, BranchAt
    <2>1. \A k : k \in Branches(h) <=> \E i \in 1..(m + n) : t[i].branch = k
      BY <1>2, <1>3, <2>a, Zenon
    <2>2. ASSUME NEW k \in Branches(h) PROVE k \in Branches(g) \cup N
      <3>1. PICK i \in 1..(m + n) : t[i].branch = k
        BY <2>1
      <3> QED
        BY <1>5, <1>6, <1>9, <3>1
    <2>3. ASSUME NEW k \in Branches(g) \cup N PROVE k \in Branches(h)
      <3>1. CASE k \in Branches(g)
        <4>1. PICK i \in 1..m : s[i].branch = k
          BY <1>6, <3>1
        <4>2. i \in 1..(m + n)
          BY <1>0 DEF m
        <4> QED
          BY <1>5, <2>1, <4>1, <4>2
      <3>2. CASE k \in N
        <4>1. PICK i \in 1..n : k = b + i
          BY <3>2
        <4>2. m + i \in (m + 1)..(m + n) /\ m + i \in 1..(m + n) /\ (m + i) - m = i
          BY <1>0 DEF m
        <4> QED
          BY <1>5, <2>1, <4>1, <4>2
      <3> QED
        BY <2>3, <3>1, <3>2
    <2> QED
      BY <2>2, <2>3
  <1>11. N \cap (1..b) = {} /\ (1..b) \cup N = 1..(b + n)
    <2>1. \A k \in 1..(b + n) : k \in 1..b \/ (k - b \in 1..n /\ k = b + (k - b))
      BY <1>0
    <2> QED
      BY <1>0, <2>1
  <1>12. ActiveOK(h)
    <2>1. ASSUME NEW i \in 1..(m + n), NEW j \in 1..(m + n), t[i].branch = t[j].branch PROVE i = j
      <3>1. CASE i \in 1..m /\ j \in 1..m
        BY <1>5, <2>1, <3>1 DEF GroupOK, ActiveOK, s, m
      <3>2. CASE i \in (m + 1)..(m + n) /\ j \in (m + 1)..(m + n)
        BY <1>0, <1>5, <2>1, <3>2 DEF m
      <3>3. CASE i \in 1..m /\ j \in (m + 1)..(m + n)
        <4>1. t[i].branch \in 1..b /\ t[j].branch = b + (j - m) /\ j - m \in 1..n
          BY <1>5, <1>8, <3>3
        <4> QED
          BY <1>0, <2>1, <4>1
      <3>4. CASE j \in 1..m /\ i \in (m + 1)..(m + n)
        <4>1. t[j].branch \in 1..b /\ t[i].branch = b + (i - m) /\ i - m \in 1..n
          BY <1>5, <1>8, <3>4
        <4> QED
          BY <1>0, <2>1, <4>1
      <3> QED
        BY <1>9, <3>1, <3>2, <3>3, <3>4
    <2>2. ASSUME NEW i \in 1..(m + n)
          PROVE  t[i].branch \in 1..Len(g.suffixes) /\ t[i].position < g.suffixes[t[i].branch]
      <3>1. CASE i \in 1..m
        BY <1>5, <3>1 DEF GroupOK, ActiveOK, s, m
      <3>2. CASE i \in (m + 1)..(m + n)
        <4>1. b + (i - m) \in 1..Len(g.suffixes)
          BY <1>0, <1>5, <3>2 DEF m, b
        <4>2. g.suffixes[b + (i - m)] > 0
          BY <4>1 DEF GroupOK
        <4> QED
          BY <1>5, <3>2, <4>1, <4>2
      <3> QED
        BY <1>9, <3>1, <3>2
    <2>3. Len(h.active) = m + n
      BY <1>2, <1>3
    <2> QED
      BY <1>2, <2>1, <2>2, <2>3, Zenon DEF ActiveOK
  <1>13. GroupOK(h)
    <2>1. Branches(h) \cap ToSet(g.logits) = {} /\ Branches(h) \cup ToSet(g.logits) = 1..(b + n)
      BY <1>7, <1>10, <1>11
    <2>2. b + n <= Len(g.suffixes) /\ \A k \in 1..Len(g.suffixes) : g.suffixes[k] > 0
      BY DEF GroupOK, b
    <2> QED
      BY <1>2, <1>4, <1>7, <1>12, <2>1, <2>2 DEF GroupOK
  <1> QED
    BY <1>2, <1>10, <1>13 DEF b

\* Prefilling suffixes moves positions, and none past its final token.
LEMMA SuffixesOK ==
  ASSUME NEW g, GroupOK(g), g.state = "Queued",
         NEW h, h = [g EXCEPT !.active = SuffixPlan(g).active]
  PROVE  GroupOK(h) /\ h.state = "Queued" /\ Branches(h) = Branches(g)
  <1> DEFINE t == SuffixPlan(g).active
             s == g.active
             m == Len(s)
  <1>0. g \in Groups /\ ActiveOK(g) /\ s \in Seq(Branch) /\ m \in Nat
    BY GroupTypes DEF GroupOK
  <1>1. /\ t \in Seq(Branch) /\ Len(t) = m
        /\ \A j \in 1..m : t[j].branch = s[j].branch /\ t[j].position < g.suffixes[s[j].branch]
    BY <1>0, SuffixPlanFacts DEF SuffixAt
  <1>2. /\ h.state = g.state /\ h.active = t /\ h.next_branch = g.next_branch
        /\ h.suffixes = g.suffixes /\ h.logits = g.logits
    BY <1>0 DEF Groups
  <1>3. h \in Groups
    <2>1. t \in Seq([branch : Nat, position : Nat])
      BY <1>1 DEF Branch
    <2> HIDE DEF t
    <2> QED
      BY <1>0, <2>1 DEF Groups, t
  <1> HIDE DEF t, s
  <1>4. Branches(h) = Branches(g)
    <2>0. h.active \in Seq(Branch)
      BY <1>1, <1>2
    <2>a. \A k : k \in Branches(h) <=> \E i \in 1..Len(h.active) : h.active[i].branch = k
      BY <2>0, BranchAt
    <2>1. \A k : k \in Branches(h) <=> \E i \in 1..m : t[i].branch = k
      BY <1>1, <1>2, <2>a, Zenon
    <2>2. \A k : k \in Branches(g) <=> \E i \in 1..m : s[i].branch = k
      BY <1>0, BranchAt DEF s
    <2> QED
      BY <1>1, <2>1, <2>2
  <1>5. ActiveOK(h)
    BY <1>0, <1>1, <1>2 DEF ActiveOK, s
  <1> QED
    BY <1>2, <1>3, <1>4, <1>5 DEF GroupOK

\* The group h is g after its first n active branches were read.
ReadTo(g, h, read, n) ==
  /\ GroupOK(g) /\ g.state = "Queued" /\ n \in 0..Len(g.active)
  /\ read \in Seq(Nat) /\ Len(read) = n /\ \A i \in 1..n : read[i] = g.active[i].branch
  /\ h \in Groups /\ h.state = g.state /\ h.next_branch = g.next_branch
  /\ h.suffixes = g.suffixes /\ h.logits = g.logits \o read /\ h.active = RemoveReady(g.active, n)

\* Reading the first n active branches moves them to the logits.
LEMMA ReadFieldsOK ==
  ASSUME NEW g, NEW h, NEW read, NEW n, ReadTo(g, h, read, n)
  PROVE  /\ GroupOK(h) /\ h.state = "Queued"
         /\ Branches(h) = Branches(g) \ {g.active[i].branch : i \in 1..n}
  <1> DEFINE s == g.active
             m == Len(s)
             t == RemoveReady(s, n)
             l == g.logits
             R == {s[i].branch : i \in 1..n}
  <1> USE DEF ReadTo
  <1>0. /\ g \in Groups /\ s \in Seq(Branch) /\ m \in Nat /\ n \in Nat /\ n <= m
        /\ l \in Seq(Nat)
    BY GroupTypes DEF GroupOK
  <1>1. t \in Seq(Branch) /\ \E p : LeftOver(p, t, s, n, n)
    BY <1>0, RemoveReadyFacts
  <1>2. /\ h.state = g.state /\ h.active = t /\ h.next_branch = g.next_branch
        /\ h.suffixes = g.suffixes /\ h.logits = l \o read
    OBVIOUS
  <1> HIDE DEF t, s, l
  <1>3. PICK p : LeftOver(p, t, s, n, n)
    BY <1>1
  <1>4. /\ Len(t) = m - n /\ p \in [1..(m - n) -> 1..m]
        /\ \A i, j \in 1..(m - n) : p[i] = p[j] => i = j
        /\ \A i \in 1..(m - n) : t[i] = s[p[i]] /\ p[i] \notin 1..n
        /\ \A q \in 1..m : q \notin 1..n => \E i \in 1..(m - n) : p[i] = q
    <2>1. n - n + 1 = 1
      BY <1>0
    <2> QED
      BY <1>3, <2>1 DEF LeftOver
  <1>5. \A i, j \in 1..m : s[i].branch = s[j].branch => i = j
    BY DEF GroupOK, ActiveOK, s
  <1>6. \A i \in 1..m : s[i].branch \in Nat
    <2>1. \A i \in 1..m : s[i] \in Branch
      BY <1>0
    <2> QED
      BY <2>1 DEF Branch
  <1>7. /\ read \in Seq(Nat) /\ IsInjective(read) /\ ToSet(read) = R
    <2>1. \A i \in 1..n : i \in 1..m
      BY <1>0
    <2>2. \A i \in 1..n : read[i] = s[i].branch
      BY DEF s
    <2>3. read \in Seq(Nat) /\ Len(read) = n /\ DOMAIN read = 1..n
      OBVIOUS
    <2>4. IsInjective(read)
      BY <1>5, <2>1, <2>2, <2>3 DEF IsInjective
    <2>5. \A x : x \in ToSet(read) <=> \E i \in 1..Len(read) : read[i] = x
      BY <2>3, MemberAt, Zenon
    <2> HIDE DEF m
    <2>7. ToSet(read) = R
      <3>1. \A x : x \in R <=> \E i \in 1..n : s[i].branch = x
        BY Zenon
      <3>2. \A x : x \in ToSet(read) <=> x \in R
        BY <2>2, <2>3, <2>5, <3>1, Zenon
      <3> QED
        BY <3>2, Zenon
    <2> QED
      BY <2>3, <2>4, <2>7, Zenon
  <1> HIDE DEF m
  <1>8. \A k : k \in Branches(g) <=> \E i \in 1..m : s[i].branch = k
    BY <1>0, BranchAt DEF s, m
  <1>9. Branches(h) = Branches(g) \ R
    <2>0. h.active \in Seq(Branch) /\ Len(h.active) = m - n
      BY <1>1, <1>2, <1>4
    <2>1. \A k : k \in Branches(h) <=> \E i \in 1..Len(h.active) : h.active[i].branch = k
      BY <2>0, BranchAt
    <2>2. \A k : k \in Branches(h) <=> \E i \in 1..(m - n) : t[i].branch = k
      BY <1>2, <2>0, <2>1, Zenon
    <2>3. ASSUME NEW k \in Branches(h) PROVE k \in Branches(g) \ R
      <3>1. PICK i \in 1..(m - n) : t[i].branch = k
        BY <2>2
      <3>2. p[i] \in 1..m /\ p[i] \notin 1..n /\ s[p[i]].branch = k
        BY <1>4, <3>1
      <3>3. k \in Branches(g)
        BY <1>8, <3>2
      <3>4. ASSUME k \in R PROVE FALSE
        <4>1. PICK j \in 1..n : s[j].branch = k
          BY <3>4
        <4>2. j \in 1..m
          BY <1>0
        <4> QED
          BY <1>5, <3>2, <4>1, <4>2
      <3> QED
        BY <3>3, <3>4
    <2>4. ASSUME NEW k \in Branches(g) \ R PROVE k \in Branches(h)
      <3>1. PICK q \in 1..m : s[q].branch = k
        BY <1>8
      <3>2. q \notin 1..n
        BY <3>1, <2>4
      <3>3. PICK i \in 1..(m - n) : p[i] = q
        BY <1>4, <3>2
      <3> QED
        BY <1>4, <2>2, <3>1, <3>3
    <2> QED
      BY <2>3, <2>4
  <1>10. R \subseteq Branches(g)
    <2>1. \A i \in 1..n : i \in 1..m
      BY <1>0
    <2> QED
      BY <1>8, <2>1
  <1>11. /\ IsInjective(l) /\ Branches(g) \cap ToSet(l) = {}
         /\ Branches(g) \cup ToSet(l) = 1..g.next_branch
    BY DEF GroupOK, l
  <1> HIDE DEF R
  <1>12. /\ l \o read \in Seq(Nat) /\ IsInjective(l \o read)
         /\ ToSet(l \o read) = ToSet(l) \cup R
    <2>1. ToSet(l) \cap ToSet(read) = {}
      BY <1>7, <1>10, <1>11
    <2>2. /\ l \o read \in Seq(Nat) /\ IsInjective(l \o read)
          /\ ToSet(l \o read) = ToSet(l) \cup ToSet(read)
      BY <1>0, <1>7, <1>11, <2>1, ToSetConcat
    <2> QED
      BY <1>7, <2>2, Zenon
  <1>14. ActiveOK(h)
    <2>0. Len(h.active) = m - n
      BY <1>2, <1>4
    <2>1. ASSUME NEW i \in 1..(m - n), NEW j \in 1..(m - n), t[i].branch = t[j].branch PROVE i = j
      <3>1. p[i] \in 1..m /\ p[j] \in 1..m /\ s[p[i]].branch = s[p[j]].branch
        BY <1>4, <2>1
      <3> QED
        BY <1>4, <1>5, <3>1
    <2>2. ASSUME NEW i \in 1..(m - n)
          PROVE  t[i].branch \in 1..Len(g.suffixes) /\ t[i].position < g.suffixes[t[i].branch]
      <3>1. p[i] \in 1..m /\ t[i] = s[p[i]]
        BY <1>4
      <3>2. \A q \in 1..m : /\ s[q].branch \in 1..Len(g.suffixes)
                            /\ s[q].position < g.suffixes[s[q].branch]
        BY DEF GroupOK, ActiveOK, s, m
      <3> QED
        BY <3>1, <3>2
    <2> QED
      BY <1>2, <2>0, <2>1, <2>2, Zenon DEF ActiveOK
  <1>15. GroupOK(h)
    <2>1. /\ Branches(h) \cap ToSet(h.logits) = {}
          /\ Branches(h) \cup ToSet(h.logits) = 1..h.next_branch
          /\ IsInjective(h.logits)
      BY <1>2, <1>9, <1>10, <1>11, <1>12
    <2>2. /\ h.next_branch <= Len(h.suffixes) /\ h.state = "Queued"
          /\ \A k \in 1..Len(h.suffixes) : h.suffixes[k] > 0
      BY <1>2 DEF GroupOK
    <2> QED
      BY <1>14, <2>1, <2>2 DEF GroupOK
  <1> QED
    BY <1>2, <1>9, <1>15 DEF R, s

\* The update that reads the first n active branches of g.
ReadBy(g, h, read, n) ==
  /\ GroupOK(g) /\ g.state = "Queued" /\ n \in 0..Len(g.active)
  /\ read \in Seq(Nat) /\ Len(read) = n /\ \A i \in 1..n : read[i] = g.active[i].branch
  /\ h = [g EXCEPT !.logits = @ \o read, !.active = RemoveReady(@, n)]

\* Reading the answers of a finished wave keeps a group sound, whichever branches it completes.
LEMMA ReadOK ==
  ASSUME NEW g, NEW h, NEW read, NEW n, ReadBy(g, h, read, n)
  PROVE  /\ GroupOK(h) /\ h.state = "Queued"
         /\ Branches(h) = Branches(g) \ {g.active[i].branch : i \in 1..n}
  <1> DEFINE x == g.logits \o read
             t == RemoveReady(g.active, n)
             k == [g EXCEPT !.logits = x, !.active = t]
  <1> USE DEF ReadBy
  <1>0. g \in Groups /\ g.active \in Seq(Branch) /\ g.logits \in Seq(Nat)
    BY GroupTypes DEF GroupOK
  <1>1. t \in Seq([branch : Nat, position : Nat]) /\ x \in Seq(Nat)
    <2>1. t \in Seq(Branch)
      BY <1>0, RemoveReadyFacts
    <2> QED
      BY <1>0, <2>1 DEF Branch
  <1>2. h = k
    OBVIOUS
  <1> HIDE DEF x, t
  <1>3. /\ k \in Groups /\ k.state = g.state /\ k.next_branch = g.next_branch
        /\ k.suffixes = g.suffixes /\ k.logits = x /\ k.active = t
    BY <1>0, <1>1 DEF Groups
  <1> HIDE DEF k
  <1>4. /\ GroupOK(k) /\ k.state = "Queued"
        /\ Branches(k) = Branches(g) \ {g.active[i].branch : i \in 1..n}
    <2>1. ReadTo(g, k, read, n)
      BY <1>3 DEF ReadTo, x, t
    <2> QED
      BY <2>1, ReadFieldsOK
  <1> QED
    BY <1>2, <1>4, Zenon

--------------------------------------------------------------------------------
(***************************************************************************)
(* The steps on decision groups.                                           *)
(***************************************************************************)

\* What every step keeps of the decision groups: their queue and their branches.
DecisionInv == GroupQueueInv /\ BranchInv

\* What the invariant says of one group.
LEMMA GroupFacts ==
  ASSUME DecisionInv, NEW id \in Ids
  PROVE  /\ GroupOK(decisions[id]) /\ decisions[id] \in Groups
         /\ id \in Nat /\ next_id \in Nat
         /\ ~(id < next_id) => decisions[id].state = "Absent"
         /\ decisions[id].state = "Queued" <=> id \in ToSet(decision_queue)
         /\ \A k \in Nat : BranchSequence(id, k) \in sequences <=> k \in Branches(decisions[id])
  <1>1. id \in Nat /\ next_id \in Nat
    BY LimitsAssumption DEF Ids, DecisionInv, GroupQueueInv
  <1> QED
    BY <1>1 DEF DecisionInv, GroupQueueInv, BranchInv

\* The types the decision invariant gives: the group queue holds each id at most once.
LEMMA GroupQueueFacts ==
  ASSUME DecisionInv
  PROVE  /\ decision_queue \in Seq(Ids) /\ IsInjective(decision_queue)
         /\ ToSet(decision_queue) \subseteq Ids /\ DOMAIN decisions = Ids
         /\ decisions \in [Ids -> Groups]
         /\ next_id \in 0..MaxRequests /\ next_id \in Nat /\ sequences \subseteq Handles
  <1>1. next_id \in Nat
    BY LimitsAssumption DEF DecisionInv, GroupQueueInv
  <1> QED
    BY <1>1, MemberAt DEF DecisionInv, GroupQueueInv, BranchInv

\* The branches of every other group keep their sequences.
OthersKeep(id) ==
  \A j \in Ids \ {id}, k \in Nat :
    BranchSequence(j, k) \in sequences' <=> BranchSequence(j, k) \in sequences

\* Replacing one group keeps the invariant when it does so for that group.
LEMMA ReplaceGroupQueue ==
  ASSUME DecisionInv, NEW id \in Ids, NEW h, decisions' = [decisions EXCEPT ![id] = h],
         GroupOK(h), next_id' \in 0..MaxRequests, next_id <= next_id', id < next_id',
         decision_queue' \in Seq(Ids), IsInjective(decision_queue'),
         ToSet(decision_queue') \ {id} = ToSet(decision_queue) \ {id},
         h.state = "Queued" <=> id \in ToSet(decision_queue'),
         sequences' \subseteq Handles, OthersKeep(id),
         \A k \in Nat : BranchSequence(id, k) \in sequences' <=> k \in Branches(h)
  PROVE  DecisionInv'
  <1>0. next_id' \in Nat
    BY LimitsAssumption
  <1>1. /\ decisions' = [j \in Ids |-> decisions'[j]] /\ decisions'[id] = h
        /\ \A j \in Ids \ {id} : decisions'[j] = decisions[j]
    BY GroupQueueFacts
  <1>2. ASSUME NEW j \in Ids
        PROVE  /\ GroupOK(decisions'[j])
               /\ ~(j < next_id') => decisions'[j].state = "Absent"
               /\ decisions'[j].state = "Queued" <=> j \in ToSet(decision_queue')
               /\ \A k \in Nat : BranchSequence(j, k) \in sequences' <=> k \in Branches(decisions'[j])
    <2>1. CASE j = id
      BY <1>1, <2>1
    <2>2. CASE j # id
      <3>1. j \in ToSet(decision_queue') <=> j \in ToSet(decision_queue)
        BY <2>2
      <3>2. decisions'[j] = decisions[j]
        BY <1>1, <2>2
      <3>3. ~(j < next_id') => ~(j < next_id)
        BY <1>0, GroupFacts
      <3>4. \A k \in Nat : BranchSequence(j, k) \in sequences' <=> BranchSequence(j, k) \in sequences
        BY <2>2 DEF OthersKeep
      <3> QED
        BY <3>1, <3>2, <3>3, <3>4, GroupFacts
    <2> QED
      BY <2>1, <2>2
  <1>3. decisions' \in [Ids -> Groups]
    <2>1. \A j \in Ids : decisions'[j] \in Groups
      BY <1>2 DEF GroupOK
    <2> QED
      BY <1>1, <2>1
  <1> QED
    BY <1>2, <1>3 DEF DecisionInv, GroupQueueInv, BranchInv

\* Taking a group from the head of the queue to its end.
LEMMA RotateFacts ==
  ASSUME DecisionInv, decision_queue # <<>>, NEW id, id = Head(decision_queue)
  PROVE  LET q == Append(Tail(decision_queue), id)
         IN  /\ id \in Ids /\ id \in ToSet(decision_queue)
             /\ q \in Seq(Ids) /\ IsInjective(q) /\ ToSet(q) = ToSet(decision_queue)
             /\ Tail(decision_queue) \in Seq(Ids) /\ IsInjective(Tail(decision_queue))
             /\ ToSet(Tail(decision_queue)) = ToSet(decision_queue) \ {id}
  <1> DEFINE t == Tail(decision_queue)
  <1>1. /\ id \in Ids /\ id \in ToSet(decision_queue) /\ t \in Seq(Ids) /\ IsInjective(t)
        /\ ToSet(decision_queue) = ToSet(t) \cup {id} /\ id \notin ToSet(t)
    BY GroupQueueFacts, ToSetTail
  <1> HIDE DEF t
  <1>2. /\ Append(t, id) \in Seq(Ids) /\ ToSet(Append(t, id)) = ToSet(t) \cup {id}
        /\ IsInjective(Append(t, id))
    BY <1>1, ToSetAppend
  <1> QED
    BY <1>1, <1>2 DEF t

\* A step of the group at the head.
LEMMA RotateKeepsGroups ==
  ASSUME DecisionInv, decision_queue # <<>>, NEW id, id = Head(decision_queue), NEW h,
         Rotate(id, h), next_id' = next_id, GroupOK(h), h.state = "Queued",
         sequences' \subseteq Handles, OthersKeep(id),
         \A k \in Nat : BranchSequence(id, k) \in sequences' <=> k \in Branches(h)
  PROVE  DecisionInv'
  <1>1. /\ id \in Ids /\ id \in ToSet(decision_queue) /\ decision_queue' \in Seq(Ids)
        /\ IsInjective(decision_queue') /\ ToSet(decision_queue') = ToSet(decision_queue)
        /\ decisions' = [decisions EXCEPT ![id] = h]
    BY RotateFacts DEF Rotate
  <1>2. decisions[id].state = "Queued" /\ next_id \in Nat /\ id \in Nat
    BY <1>1, GroupFacts
  <1>3. id < next_id' /\ next_id <= next_id' /\ next_id' \in 0..MaxRequests
    BY <1>1, <1>2, GroupFacts, GroupQueueFacts
  <1>4. ToSet(decision_queue') \ {id} = ToSet(decision_queue) \ {id}
    BY <1>1
  <1> QED
    BY <1>1, <1>3, <1>4, ReplaceGroupQueue

\* The end of a group: all its sequences leave the pool with it.
LEMMA ReleaseKeepsGroups ==
  ASSUME DecisionInv, NEW id \in Ids, decisions[id].state = "Queued",
         NEW state \in {"Answered", "Failed", "Cancelled"},
         state = "Answered" => decisions[id].active = <<>> /\ AllAdmitted(decisions[id]),
         decisions' = [decisions EXCEPT ![id] = ReleasedGroup(id, state)],
         decision_queue' \in Seq(Ids), IsInjective(decision_queue'),
         ToSet(decision_queue') = ToSet(decision_queue) \ {id}, next_id' = next_id,
         sequences' = sequences \ GroupSequences(id)
  PROVE  DecisionInv'
  <1> DEFINE h == ReleasedGroup(id, state)
             g == decisions[id]
  <1>1. GroupOK(h) /\ h.state = state /\ Branches(h) = {}
    <2>1. h = [g EXCEPT !.state = state, !.parent = FALSE, !.active = <<>>] /\ GroupOK(g)
      BY GroupFacts DEF ReleasedGroup
    <2>2. g.state = "Queued" /\ (state = "Answered" => g.active = <<>> /\ AllAdmitted(g))
      OBVIOUS
    <2> HIDE DEF h, g
    <2> QED
      BY <2>1, <2>2, ReleasedGroupOK, Zenon
  <1>2. decisions' = [decisions EXCEPT ![id] = h]
    OBVIOUS
  <1> HIDE DEF h
  <1>3. OthersKeep(id)
    BY DEF OthersKeep, GroupSequences, BranchSequence, ParentSequence
  <1>4. ASSUME NEW k \in Nat PROVE BranchSequence(id, k) \in sequences' <=> k \in Branches(h)
    <2>1. ASSUME BranchSequence(id, k) \in sequences PROVE BranchSequence(id, k) \in GroupSequences(id)
      <3>1. k \in Branches(g)
        BY <2>1, GroupFacts
      <3> QED
        BY <3>1 DEF Branches, GroupSequences
    <2> QED
      BY <1>1, <2>1
  <1>5. id < next_id' /\ next_id <= next_id' /\ next_id' \in 0..MaxRequests
    BY GroupFacts, GroupQueueFacts
  <1>6. sequences' \subseteq Handles /\ id \notin ToSet(decision_queue')
        /\ ToSet(decision_queue') \ {id} = ToSet(decision_queue) \ {id}
    BY GroupQueueFacts
  <1>7. h.state = "Queued" <=> id \in ToSet(decision_queue')
    BY <1>1, <1>6
  <1> QED
    BY <1>1, <1>2, <1>3, <1>4, <1>5, <1>6, <1>7, ReplaceGroupQueue

\* A step that touches neither the groups nor the sequences of their branches.
LEMMA IdleKeepsGroups ==
  ASSUME DecisionInv, decisions' = decisions, decision_queue' = decision_queue,
         next_id' \in 0..MaxRequests, next_id <= next_id', sequences' \subseteq Handles,
         \A id \in Ids, k \in Nat :
           BranchSequence(id, k) \in sequences' <=> BranchSequence(id, k) \in sequences
  PROVE  DecisionInv'
  <1>0. next_id' \in Nat
    BY LimitsAssumption
  <1>1. \A id \in Ids : ~(id < next_id') => ~(id < next_id)
    BY <1>0, GroupFacts
  <1> QED
    BY <1>1 DEF DecisionInv, GroupQueueInv, BranchInv

\* The requests' part of a step moves no branch.
LEMMA RequestHandles ==
  ASSUME NEW S \in SUBSET Ids
  PROVE  /\ {RequestSequence(id) : id \in S} \subseteq Handles
         /\ \A id \in Ids, k \in Nat : BranchSequence(id, k) \notin {RequestSequence(j) : j \in S}
  BY DEF RequestSequence, BranchSequence, Handles

\* add_decision: the new group enters the queue once, with all its branches pending.
LEMMA AddDecisionKeepsGroups ==
  ASSUME DecisionInv, NEW shape \in DecisionShapes, AddDecision(shape)
  PROVE  DecisionInv'
  <1> DEFINE h == [AbsentGroup EXCEPT !.state = "Queued", !.prefix = shape.prefix,
                                      !.suffixes = shape.suffixes]
             q == Append(decision_queue, next_id)
  <1>1. /\ decisions' = [decisions EXCEPT ![next_id] = h] /\ sequences' = sequences
        /\ decision_queue' = q /\ next_id' = next_id + 1 /\ next_id < MaxRequests
    BY DEF AddDecision
  <1>2. GroupOK(h) /\ h.state = "Queued" /\ Branches(h) = {}
    <2>1. \E g : g = h
      OBVIOUS
    <2> QED
      BY NewGroupOK, Zenon
  <1> HIDE DEF h
  <1>3. /\ next_id \in Ids /\ next_id' \in 0..MaxRequests /\ next_id <= next_id'
        /\ next_id < next_id'
    BY <1>1, GroupQueueFacts, LimitsAssumption DEF Ids
  <1>4. decisions[next_id].state = "Absent" /\ next_id \notin ToSet(decision_queue)
    BY <1>3, GroupFacts
  <1>5. q \in Seq(Ids) /\ IsInjective(q) /\ ToSet(q) = ToSet(decision_queue) \cup {next_id}
    BY <1>3, <1>4, GroupQueueFacts, ToSetAppend
  <1>6. Branches(decisions[next_id]) = {}
    BY <1>3, <1>4, GroupFacts, NoActive DEF GroupOK
  <1>7. \A k \in Nat : BranchSequence(next_id, k) \in sequences' <=> k \in Branches(h)
    BY <1>1, <1>2, <1>3, <1>6, GroupFacts
  <1>8. OthersKeep(next_id) /\ sequences' \subseteq Handles
    BY <1>1, GroupQueueFacts DEF OthersKeep
  <1> HIDE DEF q
  <1>9. /\ ToSet(decision_queue') \ {next_id} = ToSet(decision_queue) \ {next_id}
        /\ next_id \in ToSet(decision_queue')
    BY <1>1, <1>5
  <1> QED
    BY <1>1, <1>2, <1>3, <1>5, <1>7, <1>8, <1>9, ReplaceGroupQueue

\* cancel_decision: the group leaves the queue and its sequences are released.
LEMMA CancelDecisionKeepsGroups ==
  ASSUME DecisionInv, NEW id \in Ids, CancelDecision(id), next_id' = next_id
  PROVE  DecisionInv'
  <1>1. /\ decisions[id].state = "Queued"
        /\ decisions' = [decisions EXCEPT ![id] = ReleasedGroup(id, "Cancelled")]
        /\ decision_queue' = Without(decision_queue, {id})
        /\ sequences' = sequences \ GroupSequences(id)
    BY DEF CancelDecision
  <1>2. decision_queue' \in Seq(Ids) /\ IsInjective(decision_queue')
        /\ ToSet(decision_queue') = ToSet(decision_queue) \ {id}
    BY <1>1, GroupQueueFacts, WithoutFacts
  <1> QED
    BY <1>1, <1>2, ReleaseKeepsGroups

\* A step of the head of the queue on its parent, where no branch sequence moves.
LEMMA ParentStepKeepsGroups ==
  ASSUME DecisionInv, decision_queue # <<>>, NEW id, id = Head(decision_queue), NEW g, NEW h,
         g = decisions[id], Rotate(id, h), next_id' = next_id, g.state = "Queued",
         GroupOK(h), h.state = "Queued", Branches(h) = Branches(g),
         sequences' = sequences \/ sequences' = sequences \cup {ParentSequence(id)}
  PROVE  DecisionInv'
  <1>1. id \in Ids
    BY RotateFacts
  <1>2. sequences' \subseteq Handles
    BY <1>1, GroupQueueFacts DEF Handles, ParentSequence
  <1>3. OthersKeep(id)
    BY DEF OthersKeep, BranchSequence, ParentSequence
  <1>4. \A k \in Nat : BranchSequence(id, k) \in sequences' <=> BranchSequence(id, k) \in sequences
    BY DEF BranchSequence, ParentSequence
  <1>5. \A k \in Nat : BranchSequence(id, k) \in sequences' <=> k \in Branches(h)
    BY <1>1, <1>4, GroupFacts
  <1> QED
    BY <1>2, <1>3, <1>5, RotateKeepsGroups

\* Every step of a decision group (fork, prefill, suffix prefill, read, release) keeps the groups
\* and their branches accounted.
LEMMA DecisionKeepsGroups ==
  ASSUME DecisionInv, PoolInv, RunDecision
  PROVE  DecisionInv'
  <1>0. next_id' = next_id
    BY DEF RunDecision
  <1>1. CASE decision_queue = <<>>
    <2>1. decisions' = decisions /\ decision_queue' = decision_queue /\ sequences' = sequences
      BY <1>1 DEF RunDecision
    <2> QED
      BY <1>0, <2>1, GroupQueueFacts, IdleKeepsGroups
  <1>2. CASE decision_queue # <<>>
    <2> DEFINE id == Head(decision_queue)
               g == decisions[id]
               t == Tail(decision_queue)
    <2>0. /\ id \in Ids /\ GroupOK(g) /\ g.state = "Queued" /\ g \in Groups
          /\ t \in Seq(Ids) /\ IsInjective(t) /\ ToSet(t) = ToSet(decision_queue) \ {id}
      BY <1>2, RotateFacts, GroupFacts
    <2>1. ASSUME NEW h \in Groups, Rotate(id, h), h.state = g.state, h.suffixes = g.suffixes,
                 h.active = g.active, h.logits = g.logits, h.next_branch = g.next_branch,
                 sequences' = sequences \/ sequences' = sequences \cup {ParentSequence(id)}
          PROVE  DecisionInv'
      <3>1. GroupOK(h) /\ Branches(h) = Branches(g) /\ h.state = "Queued"
        BY <2>0, <2>1, SameBranchesOK
      <3> HIDE DEF g, id
      <3> QED
        BY <1>0, <1>2, <2>0, <2>1, <3>1, ParentStepKeepsGroups DEF g, id
    <2>2. CASE AdmitParent(id, g)
      <3>1. CASE SlotFree
        <4> DEFINE h == [g EXCEPT !.parent = TRUE]
        <4>1. /\ h \in Groups /\ h.state = g.state /\ h.suffixes = g.suffixes
              /\ h.active = g.active /\ h.logits = g.logits /\ h.next_branch = g.next_branch
          BY <2>0 DEF Groups
        <4>2. Rotate(id, h) /\ sequences' = sequences \cup {ParentSequence(id)}
          BY <2>2, <3>1 DEF AdmitParent
        <4> HIDE DEF h, g, id
        <4> QED
          BY <2>1, <4>1, <4>2
      <3>2. CASE ~SlotFree
        <4>1. Rotate(id, g) /\ sequences' = sequences
          BY <2>2, <3>2 DEF AdmitParent
        <4> HIDE DEF g, id
        <4> QED
          BY <2>0, <2>1, <4>1
      <3> QED
        BY <3>1, <3>2
    <2>3. CASE PrefillParent(id, g)
      <3> DEFINE h == [g EXCEPT !.parent_position = @ + MinOf(g.prefix - @, PrefillTokenCapacity)]
                 v == g.parent_position + MinOf(g.prefix - g.parent_position, PrefillTokenCapacity)
      <3>1. v \in Nat
        <4>1. /\ g.parent_position \in Nat /\ g.prefix \in Nat /\ g.parent_position < g.prefix
              /\ PrefillTokenCapacity \in Nat
          BY <2>0, <2>3, GroupTypes, LimitsAssumption DEF PrefillParent
        <4> QED
          BY <4>1 DEF MinOf
      <3>2. h = [g EXCEPT !.parent_position = v]
        OBVIOUS
      <3> HIDE DEF v
      <3>3. /\ h \in Groups /\ h.state = g.state /\ h.suffixes = g.suffixes
            /\ h.active = g.active /\ h.logits = g.logits /\ h.next_branch = g.next_branch
        BY <2>0, <3>1, <3>2 DEF Groups
      <3>4. Rotate(id, h) /\ sequences' = sequences
        BY <2>3 DEF PrefillParent
      <3> HIDE DEF h, g, id
      <3> QED
        BY <2>1, <3>3, <3>4
    <2>4. CASE RetainAlignedPrefix(id, g)
      <3> DEFINE h == [g EXCEPT !.aligned = TRUE]
      <3>1. /\ h \in Groups /\ h.state = g.state /\ h.suffixes = g.suffixes
            /\ h.active = g.active /\ h.logits = g.logits /\ h.next_branch = g.next_branch
        BY <2>0 DEF Groups
      <3>2. Rotate(id, h) /\ sequences' = sequences
        BY <2>4 DEF RetainAlignedPrefix
      <3> HIDE DEF h, g, id
      <3> QED
        BY <2>1, <3>1, <3>2
    <2>5. CASE AdmitBranches(id, g)
      <3>1. PICK n \in 1..WaveCapacity :
              LET wave == [i \in 1..n |-> [branch |-> g.next_branch + i, position |-> 0]]
                  h == [g EXCEPT !.active = @ \o wave, !.next_branch = @ + n]
              IN  /\ h.next_branch <= Len(g.suffixes)
                  /\ Rotate(id, h)
                  /\ sequences' = sequences \cup {BranchSequence(id, g.next_branch + i) : i \in 1..n}
        BY <2>5, Zenon DEF AdmitBranches
      <3> DEFINE wave == [i \in 1..n |-> [branch |-> g.next_branch + i, position |-> 0]]
                 h == [g EXCEPT !.active = @ \o wave, !.next_branch = @ + n]
                 b == g.next_branch
      <3>2. /\ h.next_branch <= Len(g.suffixes) /\ Rotate(id, h)
            /\ sequences' = sequences \cup {BranchSequence(id, b + i) : i \in 1..n}
        BY <3>1, Zenon
      <3>3. n \in Nat /\ b \in Nat /\ b + n <= Len(g.suffixes)
        <4>1. h.next_branch = b + n /\ b \in Nat
          BY <2>0, GroupTypes DEF Groups
        <4>2. WaveCapacity \in Int
          <5>1. Cardinality(sequences) \in Nat
            BY FS_CardinalityType DEF PoolInv
          <5> QED
            BY <5>1, LimitIsPositive DEF WaveCapacity, MinOf
        <4> QED
          BY <3>2, <4>1, <4>2
      <3>4. GroupOK(h) /\ h.state = "Queued" /\ Branches(h) = Branches(g) \cup {b + i : i \in 1..n}
        <4> HIDE DEF g, h, wave
        <4>1. h = [g EXCEPT !.active = @ \o wave, !.next_branch = @ + n]
          BY DEF h
        <4>2. wave = [i \in 1..n |-> [branch |-> g.next_branch + i, position |-> 0]]
          BY DEF wave
        <4> QED
          BY <2>0, <3>3, <4>1, <4>2, WaveOK
      <3> HIDE DEF h, g, id, b
      <3>5. sequences' \subseteq Handles
        BY <2>0, <3>2, <3>3, GroupQueueFacts DEF Handles, BranchSequence
      <3>6. OthersKeep(id)
        BY <3>2 DEF OthersKeep, BranchSequence
      <3>7. ASSUME NEW k \in Nat PROVE BranchSequence(id, k) \in sequences' <=> k \in Branches(h)
        <4>1. BranchSequence(id, k) \in sequences <=> k \in Branches(g)
          BY <2>0, GroupFacts DEF g
        <4>2. BranchSequence(id, k) \in {BranchSequence(id, b + i) : i \in 1..n}
                <=> k \in {b + i : i \in 1..n}
          BY DEF BranchSequence
        <4> QED
          BY <3>2, <3>4, <4>1, <4>2
      <3> QED
        BY <1>0, <1>2, <3>2, <3>4, <3>5, <3>6, <3>7, RotateKeepsGroups DEF id
    <2>6. CASE PrefillSuffixes(id, g)
      <3> DEFINE h == [g EXCEPT !.active = SuffixPlan(g).active]
      <3>1. Rotate(id, h) /\ sequences' = sequences
        BY <2>6 DEF PrefillSuffixes
      <3>2. GroupOK(h) /\ h.state = "Queued" /\ Branches(h) = Branches(g)
        <4>1. \E x : x = h
          OBVIOUS
        <4> HIDE DEF g
        <4> QED
          BY <2>0, SuffixesOK, Zenon
      <3> HIDE DEF h, g, id
      <3> QED
        BY <1>0, <1>2, <2>0, <3>1, <3>2, ParentStepKeepsGroups DEF id, g
    <2>7. CASE ReadBranches(id, g)
      <3> DEFINE n == MinOf(DecisionBranchCapacity, Len(g.active))
                 read == [i \in 1..n |-> g.active[i].branch]
                 h == [g EXCEPT !.logits = @ \o read, !.active = RemoveReady(@, n)]
                 R == {g.active[i].branch : i \in 1..n}
      <3>1. /\ Rotate(id, h)
            /\ sequences' = sequences \ {BranchSequence(id, g.active[i].branch) : i \in 1..n}
        BY <2>7, Zenon DEF ReadBranches
      <3>2. g.active \in Seq(Branch) /\ Len(g.active) \in Nat
        BY <2>0, GroupTypes
      <3>3. n \in 0..Len(g.active)
        BY <3>2, LimitIsPositive DEF MinOf
      <3> HIDE DEF n, g, id
      <3>4. read \in Seq(Nat) /\ Len(read) = n /\ \A i \in 1..n : read[i] = g.active[i].branch
        <4>1. \A i \in 1..n : g.active[i] \in Branch
          BY <3>2, <3>3
        <4>2. \A i \in 1..n : g.active[i].branch \in Nat
          BY <4>1 DEF Branch
        <4>3. n \in Nat
          BY <3>2, <3>3
        <4> QED
          BY <4>2, <4>3
      <3> HIDE DEF read
      <3>5. GroupOK(h) /\ h.state = "Queued" /\ Branches(h) = Branches(g) \ R
        <4>1. h = [g EXCEPT !.logits = @ \o read, !.active = RemoveReady(@, n)]
          OBVIOUS
        <4> HIDE DEF h
        <4>2. ReadBy(g, h, read, n)
          BY <2>0, <3>3, <3>4, <4>1 DEF ReadBy
        <4> QED
          BY <4>2, ReadOK
      <3> HIDE DEF h
      <3>6. OthersKeep(id) /\ sequences' \subseteq Handles
        BY <3>1, GroupQueueFacts DEF OthersKeep, BranchSequence
      <3>7. ASSUME NEW k \in Nat PROVE BranchSequence(id, k) \in sequences' <=> k \in Branches(h)
        <4>1. BranchSequence(id, k) \in sequences <=> k \in Branches(g)
          BY <2>0, GroupFacts DEF g
        <4>2. BranchSequence(id, k) \in {BranchSequence(id, g.active[i].branch) : i \in 1..n}
                <=> k \in R
          BY DEF BranchSequence
        <4> QED
          BY <3>1, <3>5, <4>1, <4>2
      <3> QED
        BY <1>0, <1>2, <3>1, <3>5, <3>6, <3>7, RotateKeepsGroups DEF id
    <2>8. CASE CompleteDecision(id, g)
      <3>1. CASE AllAdmitted(g)
        <4>1. /\ decisions' = [decisions EXCEPT ![id] = ReleasedGroup(id, "Answered")]
              /\ decision_queue' = t /\ sequences' = sequences \ GroupSequences(id)
              /\ g.active = <<>>
          BY <2>8, <3>1 DEF CompleteDecision
        <4> HIDE DEF id, t
        <4> QED
          BY <1>0, <2>0, <3>1, <4>1, ReleaseKeepsGroups
      <3>2. CASE ~AllAdmitted(g)
        <4>1. Rotate(id, g) /\ sequences' = sequences
          BY <2>8, <3>2 DEF CompleteDecision
        <4> HIDE DEF g, id
        <4> QED
          BY <2>0, <2>1, <4>1
      <3> QED
        BY <3>1, <3>2
    <2>9. CASE FailDecision(id, g)
      <3>1. /\ decisions' = [decisions EXCEPT ![id] = ReleasedGroup(id, "Failed")]
            /\ decision_queue' = t /\ sequences' = sequences \ GroupSequences(id)
        BY <2>9 DEF FailDecision
      <3> HIDE DEF id, t
      <3> QED
        BY <1>0, <2>0, <3>1, ReleaseKeepsGroups
    <2> QED
      BY <1>2, <2>2, <2>3, <2>4, <2>5, <2>6, <2>7, <2>8, <2>9 DEF RunDecision
  <1> QED
    BY <1>1, <1>2

\* Every step keeps the groups, their queue and their branches together.
LEMMA NextKeepsGroups ==
  ASSUME DecisionInv, RequestQueuesInv, PoolInv, [Next]_vars
  PROVE  DecisionInv'
  <1>0. next_id \in 0..MaxRequests /\ next_id \in Nat /\ MaxRequests \in Nat
        /\ sequences \subseteq Handles
    BY GroupQueueFacts, LimitsAssumption
  <1>1. ASSUME decisions' = decisions, decision_queue' = decision_queue,
               next_id' \in 0..MaxRequests, next_id <= next_id', NEW S \in SUBSET Ids,
               \/ sequences' = sequences \cup {RequestSequence(id) : id \in S}
               \/ sequences' = sequences \ {RequestSequence(id) : id \in S}
               \/ sequences' = sequences
        PROVE  DecisionInv'
    <2> DEFINE Q == {RequestSequence(id) : id \in S}
    <2>1. Q \subseteq Handles /\ \A id \in Ids, k \in Nat : BranchSequence(id, k) \notin Q
      BY RequestHandles
    <2> HIDE DEF Q
    <2>2. /\ sequences' \subseteq Handles
          /\ \A id \in Ids, k \in Nat :
               BranchSequence(id, k) \in sequences' <=> BranchSequence(id, k) \in sequences
      BY <1>0, <1>1, <2>1 DEF Q
    <2> QED
      BY <1>1, <2>2, IdleKeepsGroups
  <1>2. CASE AdmitWaiting \/ AdmitFails
    <2> DEFINE id == Head(waiting)
               S == {id}
    <2>1. waiting # <<>> /\ decisions' = decisions /\ decision_queue' = decision_queue
          /\ next_id' = next_id
          /\ (sequences' = sequences \/ sequences' = sequences \cup {RequestSequence(id)})
      BY <1>2 DEF AdmitWaiting, AdmitFails
    <2>2. S \in SUBSET Ids
      BY <2>1, QueueFacts, ToSetTail
    <2>3. {RequestSequence(j) : j \in S} = {RequestSequence(id)}
      OBVIOUS
    <2> HIDE DEF id, S
    <2>4. sequences' = sequences \/ sequences' = sequences \cup {RequestSequence(j) : j \in S}
      BY <2>1, <2>3
    <2> QED
      BY <1>0, <1>1, <2>1, <2>2, <2>4
  <1>3. CASE StartTick \/ AdmitDone \/ RunPrefill \/ DecodeFails \/ PrefillFails \/ PrefillLoses
               \/ UNCHANGED vars
    <2>1. UNCHANGED <<decisions, decision_queue, sequences, next_id>>
      BY <1>3
      DEF StartTick, AdmitDone, RunPrefill, DecodeFails, PrefillFails, PrefillLoses, vars
    <2>2. {} \in SUBSET Ids
      OBVIOUS
    <2> QED
      BY <1>0, <1>1, <2>1, <2>2
  <1>4. CASE RunDecode
    <2> DEFINE U == ToSet(DecodeSelection)
    <2>1. PICK out : sequences' = sequences \
                       {RequestSequence(id) : id \in {i \in U : out[i].finished}}
      BY <1>4, Zenon DEF RunDecode
    <2> DEFINE S == {i \in U : out[i].finished}
    <2>2. S \in SUBSET Ids
      <3>1. U \subseteq Ids
        BY SelectionFacts, MemberAt
      <3> QED
        BY <3>1
    <2>3. decisions' = decisions /\ decision_queue' = decision_queue /\ next_id' = next_id
      BY <1>4 DEF RunDecode
    <2>4. sequences' = sequences \ {RequestSequence(id) : id \in S}
      BY <2>1, Zenon
    <2>5. next_id' \in 0..MaxRequests /\ next_id <= next_id'
      BY <1>0, <2>3
    <2> HIDE DEF S
    <2> QED
      BY <1>1, <2>2, <2>3, <2>4, <2>5, Zenon
  <1>5. CASE DecodeLoses
    <2> DEFINE selected == DecodeSelection
    <2>1. PICK out \in [ToSet(selected) -> Outcomes], k \in 1..Len(selected), released \in BOOLEAN :
            LET done == ToSet(SubSeq(selected, 1, k - 1))
                freed == {i \in done : out[i].finished} \cup
                         {i \in {selected[k]} : released /\ out[i].finished}
            IN  sequences' = sequences \ {RequestSequence(id) : id \in freed}
      BY <1>5, Zenon DEF DecodeLoses
    <2> DEFINE done == ToSet(SubSeq(selected, 1, k - 1))
               S == {i \in done : out[i].finished} \cup
                    {i \in {selected[k]} : released /\ out[i].finished}
    <2>2. S \in SUBSET Ids
      <3>1. selected \in Seq(Ids)
        BY SelectionFacts
      <3> HIDE DEF selected
      <3>a. k - 1 \in 0..Len(selected)
        BY <3>1
      <3>b. SubSeq(selected, 1, k - 1) \in Seq(Ids)
        BY <3>1, <3>a, ToSetSplit
      <3>2. done \subseteq Ids /\ selected[k] \in Ids
        BY <3>1, <3>b, MemberAt
      <3> HIDE DEF done
      <3> QED
        BY <3>2
    <2>3. decisions' = decisions /\ decision_queue' = decision_queue /\ next_id' = next_id
      BY <1>5 DEF DecodeLoses
    <2>4. sequences' = sequences \ {RequestSequence(id) : id \in S}
      BY <2>1, Zenon
    <2>5. next_id' \in 0..MaxRequests /\ next_id <= next_id'
      BY <1>0, <2>3
    <2> HIDE DEF S
    <2> QED
      BY <1>1, <2>2, <2>3, <2>4, <2>5, Zenon
  <1>6. CASE RunDecision
    BY <1>6, DecisionKeepsGroups
  <1>7. CASE \E shape \in DecisionShapes : AddDecision(shape)
    BY <1>7, AddDecisionKeepsGroups
  <1>8. CASE \E shape \in ChatShapes : AddRequest(shape)
    <2>1. decisions' = decisions /\ decision_queue' = decision_queue /\ sequences' = sequences
          /\ next_id' = next_id + 1 /\ next_id < MaxRequests
      BY <1>8 DEF AddRequest
    <2>2. next_id' \in 0..MaxRequests /\ next_id <= next_id' /\ {} \in SUBSET Ids
      BY <1>0, <2>1
    <2> QED
      BY <1>1, <2>1, <2>2
  <1>9. ASSUME NEW id \in Ids, Cancel(id)
        PROVE  DecisionInv'
    <2>1. CASE CancelDecision(id)
      BY <1>9, <2>1, CancelDecisionKeepsGroups DEF Cancel
    <2>2. CASE CancelRequest(id)
      <3> DEFINE S == {i \in {id} : requests[id].sequence}
      <3>1. S \in SUBSET Ids
        OBVIOUS
      <3>2. decisions' = decisions /\ decision_queue' = decision_queue /\ next_id' = next_id
        BY <1>9, <2>2 DEF Cancel, CancelRequest
      <3>3. sequences' = sequences \ {RequestSequence(i) : i \in S}
        BY <2>2 DEF CancelRequest
      <3>4. next_id' \in 0..MaxRequests /\ next_id <= next_id'
        BY <1>0, <3>2
      <3> HIDE DEF S
      <3> QED
        BY <1>1, <3>1, <3>2, <3>3, <3>4, Zenon
    <2> QED
      BY <1>9, <2>1, <2>2 DEF Cancel
  <1>10. CASE \E id \in Ids : RemoveFinished(id)
    <2>1. UNCHANGED <<decisions, decision_queue, sequences, next_id>>
      BY <1>10 DEF RemoveFinished
    <2>2. {} \in SUBSET Ids
      OBVIOUS
    <2> QED
      BY <1>0, <1>1, <2>1, <2>2
  <1> QED
    BY <1>2, <1>3, <1>4, <1>5, <1>6, <1>7, <1>8, <1>9, <1>10 DEF Next, Tick, TickFails, Call

\* The scheduler starts without decision groups.
LEMMA InitGroups ==
  ASSUME Init
  PROVE  DecisionInv
  <1>1. AbsentGroup.active = <<>> /\ AbsentGroup.state = "Absent" /\ AbsentGroup.suffixes = <<>>
        /\ AbsentGroup.next_branch = 0
    BY DEF AbsentGroup
  <1>2. ActiveOK(AbsentGroup) /\ Branches(AbsentGroup) = {}
    BY <1>1, NoActive
  <1>3. AbsentGroup \in Groups
    <2> DEFINE e == <<>>
    <2>1. e \in Seq([branch : Nat, position : Nat]) /\ e \in Seq(Nat)
      OBVIOUS
    <2>2. AbsentGroup = [state |-> "Absent", prefix |-> 0, suffixes |-> e, parent |-> FALSE,
               parent_position |-> 0, aligned |-> FALSE, next_branch |-> 0,
               active |-> e, logits |-> e]
      BY DEF AbsentGroup
    <2> HIDE DEF e
    <2>3. [state |-> "Absent", prefix |-> 0, suffixes |-> e, parent |-> FALSE,
           parent_position |-> 0, aligned |-> FALSE, next_branch |-> 0,
           active |-> e, logits |-> e] \in Groups
      BY <2>1 DEF Groups
    <2> QED
      BY <2>2, <2>3, Zenon
  <1>4. GroupOK(AbsentGroup)
    BY <1>1, <1>2, <1>3 DEF GroupOK
  <1>5. <<>> \in Seq(Ids) /\ IsInjective(<<>>) /\ ToSet(<<>>) = {}
    BY DEF IsInjective, ToSet
  <1>6. /\ decisions = [id \in Ids |-> AbsentGroup] /\ decision_queue = <<>> /\ sequences = {}
        /\ next_id = 0 /\ 0 \in 0..MaxRequests
    BY LimitsAssumption DEF Init
  <1> QED
    BY <1>1, <1>2, <1>3, <1>4, <1>5, <1>6 DEF DecisionInv, GroupQueueInv, BranchInv

--------------------------------------------------------------------------------
(***************************************************************************)
(* The scheduler.                                                          *)
(***************************************************************************)

\* The inductive invariant of the scheduler.
SchedulerInv ==
  PoolInv /\ RequestInv /\ ParentInv /\ RequestQueuesInv /\ DecisionInv
  /\ (~DeviceFaults => RequestsNotLeaked)
  /\ phase \in {"idle", "admit", "decode", "prefill", "decision"}

\* A tick is always at one of its five stages (scheduler.rs tick): between calls or in one of its
\* four passes.
LEMMA NextKeepsPhase ==
  ASSUME phase \in {"idle", "admit", "decode", "prefill", "decision"}, [Next]_vars
  PROVE  phase' \in {"idle", "admit", "decode", "prefill", "decision"}
  BY DEF Next, Tick, TickFails, Call, StartTick, AdmitWaiting, AdmitDone, RunDecode, RunPrefill,
     RunDecision, AdmitFails, DecodeFails, DecodeLoses, PrefillFails, PrefillLoses, AddRequest,
     AddDecision, Cancel, RemoveFinished, vars

\* The invariant holds throughout.
LEMMA SchedulerInvariant == Spec => []SchedulerInv
  <1>1. Init => SchedulerInv
    <2> SUFFICES ASSUME Init PROVE SchedulerInv
      OBVIOUS
    <2>1. PoolInv
      BY FS_EmptySet, LimitIsPositive DEF Init, PoolInv
    <2>2. RequestInv
      BY DEF Init, RequestInv, RequestTable, RequestShape, FreshRequests,
        RequestsOwnLive, AbsentRequest
    <2>3. ParentInv
      BY DEF Init, ParentInv, GroupTable, GroupShape, FreshGroups,
        ParentsOwnLive, ParentsNotLeaked, AbsentGroup
    <2>4. RequestsNotLeaked /\ phase = "idle"
      BY DEF Init, RequestsNotLeaked
    <2> QED
      BY <2>1, <2>2, <2>3, <2>4, InitQueues, InitGroups DEF SchedulerInv
  <1>2. SchedulerInv /\ [Next]_vars => SchedulerInv'
    <2> SUFFICES ASSUME SchedulerInv, [Next]_vars PROVE SchedulerInv'
      OBVIOUS
    <2>1. PoolInv' /\ ParentInv' /\ RequestStepOK
      BY NextKeepsPool, NextKeepsParents, NextKeepsRequests DEF SchedulerInv
    <2>2. RequestQueuesInv' /\ DecisionInv'
      BY NextKeepsQueues, NextKeepsGroups DEF SchedulerInv
    <2>3. phase' \in {"idle", "admit", "decode", "prefill", "decision"}
      BY NextKeepsPhase DEF SchedulerInv
    <2> QED
      BY <2>1, <2>2, <2>3 DEF SchedulerInv, RequestStepOK
  <1> QED
    BY <1>1, <1>2, PTL DEF Spec

\* Whatever was sent, cancelled or failed, every popped id belongs to a retained request or
\* group in the lifecycle of its queue, and none is queued twice: no expect() on a popped id
\* panics and no batch holds a request twice.
THEOREM QueuesAreSound == Spec => []QueuedIsRetained
  <1>1. SchedulerInv => QueuedIsRetained
    <2> SUFFICES ASSUME SchedulerInv PROVE QueuedIsRetained
      OBVIOUS
    <2>0. RequestQueuesInv /\ DecisionInv
      BY DEF SchedulerInv
    <2>1. \A queue \in {waiting, prefilling, decoding, decision_queue} : NoDuplicates(queue)
      <3>1. \A queue \in {waiting, prefilling, decoding, decision_queue} :
              queue \in Seq(Ids) /\ IsInjective(queue)
        BY <2>0, QueueFacts, GroupQueueFacts
      <3> QED
        BY <3>1, DistinctIffInjective DEF NoDuplicates
    <2>2. \A id \in ToSet(waiting) : requests[id].lifecycle = "Waiting" /\ ~requests[id].sequence
      BY <2>0, QueueFacts, RequestFacts
    <2>3. \A id \in ToSet(prefilling) : requests[id].lifecycle = "Prefilling" /\ requests[id].sequence
      BY <2>0, QueueFacts, RequestFacts DEF RequestOK
    <2>4. \A id \in ToSet(decoding) : requests[id].lifecycle = "Decoding" /\ requests[id].sequence
      BY <2>0, QueueFacts, RequestFacts DEF RequestOK
    <2>5. \A id \in ToSet(decision_queue) : decisions[id].state = "Queued"
      BY <2>0, GroupQueueFacts, GroupFacts
    <2> QED
      BY <2>1, <2>2, <2>3, <2>4, <2>5 DEF QueuedIsRetained
  <1> QED
    BY <1>1, SchedulerInvariant, PTL

\* Without device faults no live request and no queued group is forgotten by its queue.
THEOREM NothingForgotten == Spec => [](~DeviceFaults => RetainedIsQueued)
  <1>1. SchedulerInv => (~DeviceFaults => RetainedIsQueued)
    <2> SUFFICES ASSUME SchedulerInv, ~DeviceFaults PROVE RetainedIsQueued
      OBVIOUS
    <2>0. RequestQueuesInv /\ DecisionInv
      BY DEF SchedulerInv
    <2> QED
      BY <2>0, RequestFacts, GroupFacts DEF RetainedIsQueued
  <1> QED
    BY <1>1, SchedulerInvariant, PTL

\* The lifecycle a request shows agrees with how many tokens it prefilled and generated.
THEOREM ProgressMatches == Spec => []LifecycleMatchesProgress
  <1>1. SchedulerInv => LifecycleMatchesProgress
    <2> SUFFICES ASSUME SchedulerInv, NEW id \in Ids
                 PROVE  LET r == requests[id]
                        IN  /\ r.lifecycle = "Prefilling" =>
                                 r.prompt_position < r.prompt /\ r.generated = 0
                            /\ r.lifecycle = "Decoding" =>
                                 r.prompt_position = r.prompt /\ r.generated \in 1..(r.max_new - 1)
                            /\ r.lifecycle \in {"Finished", "Removed"} =>
                                 /\ r.generated <= r.max_new
                                 /\ r.generated = 0 => r.max_new = 0
      BY DEF LifecycleMatchesProgress
    <2>1. RequestOK(requests[id])
      BY RequestFacts DEF SchedulerInv
    <2> QED
      BY <2>1 DEF RequestOK
  <1> QED
    BY <1>1, SchedulerInvariant, PTL

\* No prefill chunk carries a prompt past its page-aligned checkpoint before the prefix was
\* offered to the cache there.
THEOREM CheckpointIsKept == Spec => []CheckpointNeverSkipped
  <1>1. SchedulerInv => CheckpointNeverSkipped
    <2> SUFFICES ASSUME SchedulerInv, NEW id \in Ids,
                        requests[id].lifecycle \in {"Prefilling", "Decoding"},
                        PrefixTarget(requests[id]) > 0,
                        requests[id].prompt_position > PrefixTarget(requests[id])
                 PROVE  requests[id].prefix_retained
      BY DEF CheckpointNeverSkipped
    <2>1. RequestOK(requests[id])
      BY RequestFacts DEF SchedulerInv
    <2>2. PrefixTarget(requests[id]) \in Nat /\ requests[id].prompt_position \in Nat
      BY <2>1, TargetFacts DEF RequestOK, Requests
    <2> QED
      BY <2>1, <2>2 DEF RequestOK
  <1> QED
    BY <1>1, SchedulerInvariant, PTL

\* Every sequence id that a request, a parent or a branch keeps resolves in the pool, faults
\* or not: no lease and no release meets a released sequence.
THEOREM OwnersAreLive == Spec => []OwnedIsLive
  <1>1. SchedulerInv => OwnedIsLive
    <2> SUFFICES ASSUME SchedulerInv PROVE OwnedIsLive
      OBVIOUS
    <2>1. BranchesOwnLive
      <3> SUFFICES ASSUME NEW id \in Ids, NEW k \in BranchesOf(id)
                   PROVE  BranchSequence(id, k) \in sequences
        BY DEF BranchesOwnLive
      <3>1. DecisionInv /\ k \in Branches(decisions[id])
        BY DEF SchedulerInv, BranchesOf, Branches
      <3>2. k \in Nat
        BY <3>1, GroupFacts, GroupTypes, BranchAt
      <3> QED
        BY <3>1, <3>2, GroupFacts
    <2> QED
      BY <2>1 DEF OwnedIsLive, SchedulerInv, RequestInv, ParentInv
  <1> QED
    BY <1>1, SchedulerInvariant, PTL

\* Without device faults every sequence of the pool has a request or a group that releases
\* it; the sequences of decision groups never leak, faults or not.
THEOREM PoolNeverLeaks ==
  Spec => []((~DeviceFaults => NoSequenceLeak) /\ ParentsNotLeaked /\ BranchesNotLeaked)
  <1>1. SchedulerInv => ((~DeviceFaults => NoSequenceLeak) /\ ParentsNotLeaked /\ BranchesNotLeaked)
    <2> SUFFICES ASSUME SchedulerInv
                 PROVE  (~DeviceFaults => NoSequenceLeak) /\ ParentsNotLeaked /\ BranchesNotLeaked
      OBVIOUS
    <2>1. BranchesNotLeaked
      <3> SUFFICES ASSUME NEW s \in sequences, s[1] = "branch" PROVE s[3] \in BranchesOf(s[2])
        BY DEF BranchesNotLeaked
      <3>0. DecisionInv
        BY DEF SchedulerInv
      <3>1. s \in Handles
        BY <3>0, GroupQueueFacts
      <3>2. s[2] \in Ids /\ s[3] \in Nat /\ s = BranchSequence(s[2], s[3])
        BY <3>1 DEF Handles, BranchSequence
      <3>3. s[3] \in Branches(decisions[s[2]])
        BY <3>0, <3>2, GroupFacts
      <3> QED
        BY <3>3 DEF Branches, BranchesOf
    <2> QED
      BY <2>1 DEF NoSequenceLeak, SchedulerInv, ParentInv
  <1> QED
    BY <1>1, SchedulerInvariant, PTL

\* The branches of the active ones, place by place.
ActiveNames(g) == [i \in DOMAIN g.active |-> g.active[i].branch]

\* They repeat none.
LEMMA ActiveNamesFacts ==
  ASSUME NEW g, GroupOK(g)
  PROVE  /\ ActiveNames(g) \in Seq(Nat) /\ IsInjective(ActiveNames(g))
         /\ ToSet(ActiveNames(g)) = Branches(g)
  <1> DEFINE s == g.active
             m == Len(s)
             a == [i \in 1..m |-> s[i].branch]
  <1>1. s \in Seq(Branch) /\ m \in Nat /\ DOMAIN s = 1..m
    BY GroupTypes DEF GroupOK
  <1>2. \A i \in 1..m : s[i].branch \in Nat
    <2>1. \A i \in 1..m : s[i] \in Branch
      BY <1>1
    <2> QED
      BY <2>1 DEF Branch
  <1>3. ActiveNames(g) = a
    BY <1>1 DEF ActiveNames
  <1>4. \A k : k \in Branches(g) <=> \E i \in 1..m : s[i].branch = k
    BY <1>1, BranchAt
  <1>5. \A i, j \in 1..m : s[i].branch = s[j].branch => i = j
    BY DEF GroupOK, ActiveOK
  <1> HIDE DEF s, m
  <1>6. a \in Seq(Nat) /\ Len(a) = m /\ DOMAIN a = 1..m /\ \A i \in 1..m : a[i] = s[i].branch
    BY <1>1, <1>2
  <1> HIDE DEF a
  <1>7. IsInjective(a)
    BY <1>5, <1>6 DEF IsInjective
  <1>8. \A k : k \in ToSet(a) <=> \E i \in 1..Len(a) : a[i] = k
    BY <1>6, MemberAt
  <1>9. \A k : k \in ToSet(a) <=> k \in Branches(g)
    BY <1>4, <1>6, <1>8
  <1> QED
    BY <1>3, <1>6, <1>7, <1>9

\* Each branch of a decision group is in exactly one place, and an answered group has the
\* logits of every question exactly once.
THEOREM BranchesAreAccounted == Spec => []BranchesAccounted
  <1>1. SchedulerInv => BranchesAccounted
    <2> SUFFICES ASSUME SchedulerInv, NEW id \in Ids
                 PROVE  LET g == decisions[id]
                            active == ActiveNames(g)
                        IN  /\ g.state = "Queued" =>
                                 /\ ToSet(active \o g.logits) = 1..g.next_branch
                                 /\ NoDuplicates(active \o g.logits)
                                 /\ \A b \in ToSet(g.active) : b.position < g.suffixes[b.branch]
                            /\ g.state = "Answered" =>
                                 ToSet(g.logits) = DOMAIN g.suffixes /\ NoDuplicates(g.logits)
      BY Zenon DEF BranchesAccounted, ActiveNames
    <2> DEFINE g == decisions[id]
               active == ActiveNames(g)
               s == g.active
               m == Len(s)
               l == g.logits
    <2>0. GroupOK(g)
      BY GroupFacts DEF SchedulerInv
    <2> HIDE DEF g
    <2>1. /\ g \in Groups /\ s \in Seq(Branch) /\ l \in Seq(Nat) /\ m \in Nat
          /\ DOMAIN g.suffixes = 1..Len(g.suffixes)
      BY <2>0, GroupTypes DEF GroupOK
    <2>2. active \in Seq(Nat) /\ IsInjective(active) /\ ToSet(active) = Branches(g)
      BY <2>0, ActiveNamesFacts
    <2> HIDE DEF active, s, m, l
    <2>3. ASSUME g.state = "Queued"
          PROVE  ToSet(active \o l) = 1..g.next_branch /\ NoDuplicates(active \o l)
      <3>1. /\ IsInjective(l) /\ ToSet(active) \cap ToSet(l) = {}
            /\ ToSet(active) \cup ToSet(l) = 1..g.next_branch
        BY <2>0, <2>2, <2>3 DEF GroupOK, l
      <3>2. /\ active \o l \in Seq(Nat) /\ ToSet(active \o l) = ToSet(active) \cup ToSet(l)
            /\ IsInjective(active \o l)
        BY <2>1, <2>2, <3>1, ToSetConcat
      <3> QED
        BY <3>1, <3>2, DistinctIffInjective DEF NoDuplicates
    <2>4. \A b \in ToSet(s) : b.position < g.suffixes[b.branch]
      <3>1. \A i \in 1..m : s[i].position < g.suffixes[s[i].branch]
        BY <2>0 DEF GroupOK, ActiveOK, s, m
      <3>2. \A b \in ToSet(s) : \E i \in 1..m : s[i] = b
        BY <2>1, MemberAt DEF m
      <3> QED
        BY <3>1, <3>2
    <2>5. g.state = "Answered" => ToSet(l) = DOMAIN g.suffixes /\ NoDuplicates(l)
      <3>1. g.state = "Answered" => ToSet(l) = DOMAIN g.suffixes /\ IsInjective(l)
        BY <2>0, <2>1 DEF GroupOK, l
      <3> QED
        BY <2>1, <3>1, DistinctIffInjective DEF NoDuplicates
    <2> QED
      BY <2>3, <2>4, <2>5, Zenon DEF active, s, l, g
  <1> QED
    BY <1>1, SchedulerInvariant, PTL

\* Every variable of the scheduler keeps its type.
THEOREM TypesHold == Spec => []TypeOK
  <1>1. SchedulerInv => TypeOK
    <2> SUFFICES ASSUME SchedulerInv PROVE TypeOK
      OBVIOUS
    <2>0. RequestQueuesInv /\ DecisionInv
      BY DEF SchedulerInv
    <2>1. \A id \in Ids : requests[id].prompt_position <= requests[id].prompt
      BY <2>0, RequestFacts DEF RequestOK
    <2>2. {waiting, prefilling, decoding, decision_queue} \subseteq Seq(Ids)
      BY <2>0, QueueFacts, GroupQueueFacts
    <2>3. requests \in [Ids -> Requests]
      BY <2>0 DEF RequestQueuesInv
    <2> QED
      BY <2>0, <2>1, <2>2, <2>3, GroupQueueFacts DEF TypeOK, SchedulerInv, Handles
  <1> QED
    BY <1>1, SchedulerInvariant, PTL

\* Only admission brings a request into the prefilling queue.
LEMMA OnlyAdmissionPrefills ==
  ASSUME RequestQueuesInv, ~DeviceFaults, [Next]_vars, ~AdmitWaiting
  PROVE  ToSet(prefilling') \subseteq ToSet(prefilling)
  <1>1. CASE RunDecode
    <2>1. \E S : prefilling' = Without(prefilling, S)
      BY <1>1 DEF RunDecode
    <2> QED
      BY <2>1, QueueFacts, WithoutFacts
  <1>2. CASE RunPrefill
    <2> DEFINE ids == PrefillPlan.ids
               u == UnselectedPrefills(ids)
    <2>1. prefilling' = u \o ids
      BY <1>2, Zenon DEF RunPrefill
    <2>2. /\ ids \in Seq(Ids) /\ ToSet(ids) \subseteq ToSet(prefilling)
          /\ u \in Seq(Ids) /\ ToSet(u) = ToSet(prefilling) \ ToSet(ids)
      BY UnselectedFacts
    <2> HIDE DEF ids, u
    <2>3. ToSet(u \o ids) = ToSet(u) \cup ToSet(ids)
      BY <2>2, ToSetConcat
    <2> QED
      BY <2>1, <2>2, <2>3
  <1>3. CASE \E id \in Ids : Cancel(id)
    <2>1. prefilling' = prefilling \/ \E id \in Ids : prefilling' = Without(prefilling, {id})
      BY <1>3 DEF Cancel, CancelDecision, CancelRequest, queues
    <2>2. \A id : ToSet(Without(prefilling, {id})) = ToSet(prefilling) \ {id}
      BY QueueFacts, WithoutFacts
    <2> QED
      BY <2>1, <2>2
  <1>4. CASE \/ StartTick \/ AdmitDone \/ RunDecision \/ UNCHANGED vars
             \/ \E shape \in ChatShapes : AddRequest(shape)
             \/ \E shape \in DecisionShapes : AddDecision(shape)
             \/ \E id \in Ids : RemoveFinished(id)
    <2>1. prefilling' = prefilling
      BY <1>4 DEF StartTick, AdmitDone, RunDecision, AddRequest, AddDecision, RemoveFinished,
         vars, queues
    <2> QED
      BY <2>1
  <1> QED
    BY <1>1, <1>2, <1>3, <1>4
    DEF Next, Tick, TickFails, Call, AdmitFails, DecodeFails, DecodeLoses, PrefillFails, PrefillLoses

\* Without device faults requests are admitted in the order they were added.
THEOREM AdmissionIsFifo ==
  ASSUME ~DeviceFaults
  PROVE  Spec => FifoAdmission
  <1> DEFINE A == \A id \in Ids :
       requests[id].lifecycle = "Waiting" /\ requests'[id].lifecycle = "Prefilling" =>
         \A earlier \in 0..(id - 1) : requests[earlier].lifecycle # "Waiting"
  <1>1. ASSUME SchedulerInv, SchedulerInv', [Next]_vars PROVE A
    <2> SUFFICES ASSUME NEW id \in Ids, requests[id].lifecycle = "Waiting",
                        requests'[id].lifecycle = "Prefilling",
                        NEW earlier \in 0..(id - 1), requests[earlier].lifecycle = "Waiting"
                 PROVE  FALSE
      OBVIOUS
    <2>0. RequestQueuesInv /\ RequestQueuesInv'
      BY <1>1 DEF SchedulerInv
    <2>1. id \in ToSet(prefilling') /\ id \notin ToSet(prefilling)
      <3>1. id \notin ToSet(prefilling)
        BY <2>0, RequestFacts
      <3>2. id \in ToSet(prefilling')
        BY <2>0 DEF RequestQueuesInv
      <3> QED
        BY <3>1, <3>2
    <2>2. AdmitWaiting
      BY <1>1, <2>0, <2>1, OnlyAdmissionPrefills
    <2>3. waiting # <<>> /\ prefilling' = Append(prefilling, Head(waiting))
      BY <2>2 DEF AdmitWaiting
    <2>4. id = Head(waiting)
      <3>1. Head(waiting) \in Ids
        BY <2>0, <2>3, QueueFacts, ToSetTail
      <3>2. ToSet(Append(prefilling, Head(waiting))) = ToSet(prefilling) \cup {Head(waiting)}
        BY <2>0, <3>1, QueueFacts, ToSetAppend
      <3> QED
        BY <2>1, <2>3, <3>2
    <2>5. earlier \in Ids /\ id \in Nat /\ earlier \in Nat /\ earlier < id
      BY LimitsAssumption DEF Ids
    <2>6. earlier \in ToSet(waiting)
      BY <1>1, <2>0, <2>5, RequestFacts
    <2>7. earlier = Head(waiting) \/ Head(waiting) < earlier
      BY <2>0, <2>3, <2>6, QueueFacts, TailAscends
    <2> QED
      BY <2>4, <2>5, <2>7
  <1>2. SchedulerInv /\ SchedulerInv' /\ [Next]_vars => [A]_vars
    BY <1>1
  <1> QED
    BY <1>2, SchedulerInvariant, PTL DEF Spec, FifoAdmission

\* A batch that ran advanced the requests of its plan, each by its chunk.
LEMMA PrefillAdvances ==
  ASSUME RequestQueuesInv, RunPrefill
  PROVE  LET plan == PrefillPlan
         IN  /\ {id \in Ids : requests'[id] # requests[id]} = ToSet(plan.ids)
             /\ \A j \in 1..Len(plan.ids) :
                  /\ plan.ids[j] \in Ids /\ plan.chunks[j] \in Nat \ {0}
                  /\ Advance[plan.ids[j]] = plan.chunks[j]
                  /\ requests'[plan.ids[j]].prompt_position < requests[plan.ids[j]].prompt
  <1>0. PICK plan \in {PrefillPlan} :
          requests' = [id \in Ids |-> IF id \in ToSet(plan.ids)
            THEN PrefilledRequest(requests[id],
                   plan.chunks[CHOOSE i \in DOMAIN plan.ids : plan.ids[i] = id])
            ELSE requests[id]]
    BY Zenon DEF RunPrefill
  <1> DEFINE ids == plan.ids
             m == Len(ids)
             K(id) == CHOOSE i \in DOMAIN ids : ids[i] = id
  <1>1. /\ ids \in Seq(Ids) /\ IsInjective(ids) /\ DOMAIN ids = 1..m
        /\ ToSet(ids) \subseteq ToSet(prefilling)
    BY UnselectedFacts
  <1>2. GoodPlan(plan)
    BY PlanFacts
  <1>3. ASSUME NEW j \in 1..m
        PROVE  /\ ids[j] \in Ids /\ ids[j] \in ToSet(ids) /\ K(ids[j]) = j
               /\ GoodChunk(requests[ids[j]], plan.chunks[j])
    <2>1. ids[j] \in Ids /\ ids[j] \in ToSet(ids)
      BY <1>1, MemberAt
    <2>2. K(ids[j]) \in DOMAIN ids /\ ids[K(ids[j])] = ids[j]
      BY <1>1, Zenon
    <2>3. K(ids[j]) = j
      <3> HIDE DEF K
      <3> QED
        BY <1>1, <2>2 DEF IsInjective
    <2> QED
      BY <1>2, <2>1, <2>3 DEF GoodPlan
  <1>4. ASSUME NEW j \in 1..m
        PROVE  /\ plan.chunks[j] \in Nat \ {0}
               /\ Advance[ids[j]] = plan.chunks[j]
               /\ requests'[ids[j]].prompt_position < requests[ids[j]].prompt
               /\ requests'[ids[j]] # requests[ids[j]]
    <2> DEFINE r == requests[ids[j]]
               c == plan.chunks[j]
    <2>1. requests'[ids[j]] = PrefilledRequest(r, c)
      <3>1. requests'[ids[j]] = PrefilledRequest(requests[ids[j]], plan.chunks[K(ids[j])])
        BY <1>0, <1>3
      <3> QED
        BY <1>3, <3>1
    <2>2. RequestOK(r) /\ GoodChunk(r, c) /\ ids[j] \in Ids
      BY <1>3, RequestFacts
    <2>3. r \in Requests
      BY <2>2 DEF RequestOK
    <2>4. r.prompt \in Nat /\ r.prompt_position \in Nat
      BY <2>3 DEF Requests
    <2>5. c \in Nat \ {0} /\ r.prompt_position + c < r.prompt
      BY <2>2, <2>4 DEF GoodChunk, PrefillableTokens, RemainingPromptTokens
    <2>6. PrefilledRequest(r, c).prompt_position = r.prompt_position + c
      BY <2>3 DEF PrefilledRequest, Requests
    <2>7. Advance[ids[j]] = requests'[ids[j]].prompt_position - r.prompt_position
      BY <2>2 DEF Advance
    <2>8. requests'[ids[j]].prompt_position = r.prompt_position + c
      BY <2>1, <2>6, Zenon
    <2> HIDE DEF r, c
    <2>9. requests'[ids[j]] # r
      BY <2>4, <2>5, <2>8
    <2> QED
      BY <2>4, <2>5, <2>7, <2>8, <2>9 DEF r, c
  <1>5. ASSUME NEW id \in Ids PROVE requests'[id] # requests[id] <=> id \in ToSet(ids)
    <2>1. CASE id \in ToSet(ids)
      <3>1. PICK j \in 1..m : ids[j] = id
        BY <1>1, <2>1, MemberAt
      <3> QED
        BY <1>4, <2>1, <3>1
    <2>2. CASE id \notin ToSet(ids)
      BY <1>0, <2>2
    <2> QED
      BY <2>1, <2>2
  <1>6. ToSet(ids) \subseteq Ids
    BY <1>1, MemberAt
  <1>7. {id \in Ids : requests'[id] # requests[id]} = ToSet(ids)
    BY <1>5, <1>6
  <1>8. plan = PrefillPlan
    OBVIOUS
  <1> QED
    BY <1>3, <1>4, <1>7, <1>8

\* The rows of a plan together take no more than its budget.
LEMMA PlanWithinBudget ==
  ASSUME RequestQueuesInv, NEW f,
         \A j \in 1..Len(PrefillPlan.ids) : f[PrefillPlan.ids[j]] = PrefillPlan.chunks[j]
  PROVE  /\ IsFiniteSet(ToSet(PrefillPlan.ids))
         /\ Cardinality(ToSet(PrefillPlan.ids)) = Len(PrefillPlan.ids)
         /\ SumFunctionOnSet(f, ToSet(PrefillPlan.ids)) <= PrefillTokenCapacity
  <1> DEFINE ids == PrefillPlan.ids
             c == PrefillPlan.chunks
             m == Len(ids)
             S == ToSet(ids)
  <1>1. ids \in Seq(Ids) /\ IsInjective(ids) /\ m \in Nat
    BY UnselectedFacts
  <1>2. c \in Seq(Nat) /\ Len(c) = m /\ PrefillPlan.budget \in Nat
    BY PlanFacts DEF GoodPlan
  <1>3. PICK t : Totals(t, PrefillPlan)
    BY PlanFacts
  <1>4. /\ t \in [0..m -> Nat] /\ t[0] = 0
        /\ \A j \in 1..m : t[j] = t[j - 1] + c[j]
        /\ t[m] + PrefillPlan.budget = PrefillTokenCapacity
    BY <1>2, <1>3 DEF Totals
  <1>5. IsFiniteSet(S) /\ Cardinality(S) = m
    BY <1>1, DistinctIffInjective
  <1>6. \A x \in S : f[x] \in Nat
    <2> TAKE x \in S
    <2>1. PICK j \in 1..m : ids[j] = x
      BY <1>1, MemberAt
    <2> QED
      BY <1>2, <2>1
  <1> HIDE DEF S
  <1>7. PICK g \in [SUBSET S -> Nat] :
          /\ g[{}] = 0
          /\ \A s \in SUBSET S : \A x \in s : g[s] = f[x] + g[s \ {x}]
          /\ SumFunctionOnSet(f, S) = g[S]
    BY <1>5, <1>6, SumFacts
  <1> DEFINE F(j) == {ids[i] : i \in 1..j}
             T == {j \in 0..m : g[F(j)] = t[j]}
  <1>8. \A j \in 0..m : F(j) \in SUBSET S
    <2> TAKE j \in 0..m
    <2>1. \A i \in 1..j : ids[i] \in S
      BY <1>1, MemberAt DEF S
    <2> QED
      BY <2>1
  <1>9. 0 \in T
    <2>1. F(0) = {} /\ 0 \in 0..m
      BY <1>1
    <2> QED
      BY <1>4, <1>7, <2>1
  <1>10. ASSUME NEW j \in 1..m, j - 1 \in T PROVE j \in T
    <2>0. j \in 0..m /\ j - 1 \in 0..m /\ j \in 1..j
      BY <1>1
    <2>1. ids[j] \in F(j) /\ F(j) \ {ids[j]} = F(j - 1)
      <3>1. \A i \in 1..j : i \in DOMAIN ids /\ (i = j \/ i \in 1..(j - 1))
        BY <1>1
      <3>2. \A i \in 1..(j - 1) : i \in 1..j /\ i # j
        BY <1>1
      <3>3. \A i \in 1..(j - 1) : ids[i] # ids[j]
        BY <1>1, <2>0, <3>1, <3>2 DEF IsInjective
      <3> QED
        BY <2>0, <3>1, <3>2, <3>3
    <2>2. g[F(j)] = f[ids[j]] + g[F(j - 1)]
      <3> HIDE DEF F
      <3> QED
        BY <1>7, <1>8, <2>0, <2>1
    <2>3. g[F(j - 1)] = t[j - 1] /\ f[ids[j]] = c[j]
      BY <1>10
    <2>4. t[j] = t[j - 1] + c[j] /\ t[j - 1] \in Nat /\ c[j] \in Nat
      <3>1. c[j] \in Nat
        BY <1>2
      <3> HIDE DEF c, m
      <3> QED
        BY <1>4, <2>0, <3>1
    <2>5. g[F(j)] = t[j]
      <3> HIDE DEF F
      <3> QED
        BY <2>2, <2>3, <2>4
    <2> QED
      BY <2>0, <2>5
  <1>11. m \in T
    <2>1. \A j \in 0..m : j \in T
      <3> HIDE DEF T, m
      <3> QED
        BY <1>1, <1>9, <1>10, IntervalInduction
    <2>2. m \in 0..m
      BY <1>1
    <2> HIDE DEF T
    <2> QED
      BY <2>1, <2>2
  <1>12. F(m) = S
    BY <1>1, MemberAt DEF S
  <1>13. SumFunctionOnSet(f, S) = t[m] /\ t[m] \in Nat
    BY <1>1, <1>4, <1>7, <1>11, <1>12
  <1>14. SumFunctionOnSet(f, S) <= PrefillTokenCapacity
    BY <1>2, <1>4, <1>13
  <1> QED
    BY <1>5, <1>14 DEF S

\* A prefill batch (run_prefill_batch) stays within its sequence and token capacity, moves every
\* row it holds on but not past the final prompt token, and takes every request it could take when the
\* budget has a token for each.
THEOREM PrefillsStayFair == Spec => PrefillBatchFair
  <1> DEFINE rows == {id \in Ids : requests'[id] # requests[id]}
             A == phase = "prefill" /\ phase' = "decision" =>
                    /\ Cardinality(rows) <= PrefillSequenceCapacity
                    /\ \A id \in rows :
                         Advance[id] > 0 /\ requests'[id].prompt_position < requests[id].prompt
                    /\ SumFunctionOnSet(Advance, rows) <= PrefillTokenCapacity
                    /\ PrefillTokenCapacity >= Len(EligiblePrefills) =>
                         ToSet(EligiblePrefills) = rows
  <1>1. ASSUME SchedulerInv, [Next]_vars PROVE A
    <2> SUFFICES ASSUME phase = "prefill", phase' = "decision"
                 PROVE  /\ Cardinality(rows) <= PrefillSequenceCapacity
                        /\ \A id \in rows :
                             Advance[id] > 0 /\ requests'[id].prompt_position < requests[id].prompt
                        /\ SumFunctionOnSet(Advance, rows) <= PrefillTokenCapacity
                        /\ PrefillTokenCapacity >= Len(EligiblePrefills) =>
                             ToSet(EligiblePrefills) = rows
      OBVIOUS
    <2>0. RequestQueuesInv
      BY <1>1 DEF SchedulerInv
    <2>1. RunPrefill
      BY <1>1 DEF Next, Tick, TickFails, Call, StartTick, AdmitWaiting, AdmitDone, RunDecode,
        RunDecision, AdmitFails, DecodeFails, DecodeLoses, PrefillFails, PrefillLoses, AddRequest,
        AddDecision, Cancel, RemoveFinished, vars
    <2> DEFINE ids == PrefillPlan.ids
               e == EligiblePrefills
    <2>2. /\ rows = ToSet(ids)
          /\ \A j \in 1..Len(ids) :
               /\ Advance[ids[j]] = PrefillPlan.chunks[j] /\ PrefillPlan.chunks[j] \in Nat \ {0}
               /\ requests'[ids[j]].prompt_position < requests[ids[j]].prompt
      BY <2>0, <2>1, PrefillAdvances
    <2>3. /\ Cardinality(ToSet(ids)) = Len(ids)
          /\ SumFunctionOnSet(Advance, ToSet(ids)) <= PrefillTokenCapacity
      BY <2>0, <2>2, PlanWithinBudget
    <2>4. /\ ids \in Seq(Ids) /\ Len(ids) <= Len(e) /\ \A j \in 1..Len(ids) : ids[j] = e[j]
          /\ e \in Seq(Ids) /\ Len(e) \in 0..PrefillSequenceCapacity
          /\ Len(e) <= PrefillTokenCapacity => Len(ids) = Len(e)
      BY <2>0, PlanFacts, EligibleFacts DEF GoodPlan
    <2> HIDE DEF ids, e, rows
    <2>5. Cardinality(rows) <= PrefillSequenceCapacity
      BY <2>2, <2>3, <2>4, LimitsAssumption
    <2>6. \A id \in rows :
            Advance[id] > 0 /\ requests'[id].prompt_position < requests[id].prompt
      <3> TAKE id \in rows
      <3>1. PICK j \in 1..Len(ids) : ids[j] = id
        BY <2>2, <2>4, MemberAt
      <3> QED
        BY <2>2, <3>1
    <2>7. ASSUME PrefillTokenCapacity >= Len(e) PROVE ToSet(e) = rows
      <3>1. Len(ids) = Len(e)
        BY <2>4, <2>7, LimitsAssumption
      <3>2. ids = e
        BY <2>4, <3>1
      <3> QED
        BY <2>2, <3>2
    <2> QED
      BY <2>2, <2>3, <2>5, <2>6, <2>7 DEF e
  <1>2. SchedulerInv /\ [Next]_vars => [A]_vars
    BY <1>1
  <1> QED
    BY <1>2, SchedulerInvariant, PTL DEF Spec, PrefillBatchFair

================================================================================
