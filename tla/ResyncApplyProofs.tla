------------------------- MODULE ResyncApplyProofs --------------------------
(***************************************************************************)
(* What ResyncPlan, AckMatch and ResyncApply promise, for any lists, chunk *)
(* sizes, batch sizes and sequence counters: the chunks of                 *)
(* fill_resync_chunk are the symmetric difference of the snapshot and the  *)
(* tracked set, acknowledgements find their operations, the job runs the   *)
(* two step by step, and the tracked set is true of the kernel between its *)
(* batches.                                                                *)
(***************************************************************************)
EXTENDS ResyncApply, FiniteSetTheorems, SequenceTheorems, TLAPS

-----------------------------------------------------------------------------
(* ResyncPlan: the merge loop.                                              *)

\* The elements of a list behind a cursor.
Behind(s, idx) == {s[i] : i \in 1 .. idx}

\* The loop invariant: what lies behind one cursor is below everything ahead of
\* the other, and the plan is the difference of what lies behind the cursors.
Frontier ==
    /\ \A i \in 1 .. target_idx, j \in current_idx + 1 .. Len(current) : target[i] < current[j]
    /\ \A j \in 1 .. current_idx, i \in target_idx + 1 .. Len(target) : current[j] < target[i]

PlanSoFar == plan = resync_ops(Behind(current, current_idx), Behind(target, target_idx))

MergeInv == TypeOK /\ Frontier /\ PlanSoFar

-----------------------------------------------------------------------------
\* One more element behind the cursor.
LEMMA BehindNext ==
    ASSUME NEW s, NEW n \in Nat
    PROVE  Behind(s, n + 1) = Behind(s, n) \cup {s[n + 1]}
<1>1. 1 .. (n + 1) = (1 .. n) \cup {n + 1}
  OBVIOUS
<1> QED
  BY <1>1 DEF Behind

\* The lists the job starts from are what sort and dedup leave.
LEMMA MergeInit == Init => MergeInv
<1> SUFFICES ASSUME Init PROVE MergeInv
  OBVIOUS
<1>1. ASSUME NEW s \in SortedLists PROVE s \in Seq(Key) /\ Increasing(s)
  BY <1>1, FS_CardinalityType, PlanAssumption DEF SortedLists
<1>2. TypeOK
  BY <1>1, PlanAssumption DEF Init, TypeOK, NoOps, Batch
<1>3. Frontier
  BY DEF Init, Frontier
<1>4. PlanSoFar
  BY DEF Init, PlanSoFar, Behind, resync_ops, NoOps
<1> QED
  BY <1>2, <1>3, <1>4 DEF MergeInv

\* The steps keep the types.
LEMMA MergeType == TypeOK /\ [Next]_vars => TypeOK'
<1> SUFFICES ASSUME TypeOK, [Next]_vars PROVE TypeOK'
  OBVIOUS
<1> USE PlanAssumption DEF TypeOK, lists
<1>1. CASE NextChunk
  BY <1>1 DEF NextChunk
<1>2. CASE AddTarget
  <2>1. target_key \in Key
    BY <1>2 DEF AddTarget, TargetLeft, target_key
  <2>2. plan' \in Batch
    BY <1>2, <2>1 DEF AddTarget, Push, Batch, Action
  <2> QED
    BY <1>2, <2>2 DEF AddTarget, TargetLeft, Push, Room
<1>3. CASE DeleteCurrent
  <2>1. current_key \in Key
    BY <1>3 DEF DeleteCurrent, CurrentLeft, current_key
  <2>2. plan' \in Batch
    BY <1>3, <2>1 DEF DeleteCurrent, Push, Batch, Action
  <2> QED
    BY <1>3, <2>2 DEF DeleteCurrent, CurrentLeft, Push, Room
<1>4. CASE SkipEqual
  BY <1>4 DEF SkipEqual, TargetLeft, CurrentLeft
<1>5. CASE ReturnChunk
  BY <1>5 DEF ReturnChunk
<1>6. CASE UNCHANGED vars
  BY <1>6 DEF vars
<1> QED
  BY <1>1, <1>2, <1>3, <1>4, <1>5, <1>6 DEF Next

\* The lists hold integers.
LEMMA ListTypes == ASSUME TypeOK PROVE target \in Seq(Int) /\ current \in Seq(Int)
BY PlanAssumption, SeqMonotonic DEF TypeOK

\* A smaller target key is in no part of the tracked list, and the frontier
\* moves past it.
LEMMA AddTargetStep ==
    ASSUME MergeInv, AddTarget
    PROVE  Frontier' /\ PlanSoFar'
<1> DEFINE t == target[target_idx + 1]
<1>1. /\ target_idx \in 0 .. Len(target) - 1 /\ current_idx \in 0 .. Len(current)
      /\ target \in Seq(Int) /\ current \in Seq(Int)
      /\ Increasing(target) /\ Increasing(current) /\ t \in Key
  BY ListTypes DEF MergeInv, TypeOK, AddTarget, TargetLeft
<1>2. \A j \in current_idx + 1 .. Len(current) : t < current[j]
  <2> SUFFICES ASSUME NEW j \in current_idx + 1 .. Len(current) PROVE t < current[j]
    OBVIOUS
  <2>1. current_idx + 1 \in 1 .. Len(current) /\ t < current[current_idx + 1]
    BY <1>1 DEF AddTarget, CurrentLeft, target_key, current_key
  <2>2. j = current_idx + 1 \/ current[current_idx + 1] < current[j]
    BY <1>1, <2>1 DEF Increasing
  <2>3. current[j] \in Int /\ current[current_idx + 1] \in Int /\ t \in Int
    BY <1>1, <2>1
  <2> QED
    BY <2>1, <2>2, <2>3
<1>3. \A j \in 1 .. current_idx : current[j] < t
  BY <1>1 DEF MergeInv, Frontier
<1>4. Frontier'
  <2>1. target_idx' = target_idx + 1 /\ UNCHANGED <<target, current, current_idx>>
    BY DEF AddTarget, lists
  <2>2. ASSUME NEW i \in 1 .. target_idx + 1, NEW j \in current_idx + 1 .. Len(current)
        PROVE  target[i] < current[j]
    <3>1. CASE i = target_idx + 1
      BY <1>2, <3>1
    <3>2. CASE i \in 1 .. target_idx
      BY <3>2 DEF MergeInv, Frontier
    <3> QED
      BY <1>1, <3>1, <3>2
  <2>3. ASSUME NEW j \in 1 .. current_idx, NEW i \in target_idx + 2 .. Len(target)
        PROVE  current[j] < target[i]
    <3>1. i \in target_idx + 1 .. Len(target)
      BY <1>1
    <3> QED
      BY <3>1 DEF MergeInv, Frontier
  <2>4. (target_idx + 1) + 1 = target_idx + 2
    BY <1>1
  <2> QED
    BY <2>1, <2>2, <2>3, <2>4 DEF Frontier
<1>5. PlanSoFar'
  <2>1. /\ plan' = [plan EXCEPT ![t] = "Add"] /\ target_idx' = target_idx + 1
        /\ UNCHANGED <<target, current, current_idx>>
    BY DEF AddTarget, Push, target_key, lists
  <2>2. Behind(target, target_idx + 1) = Behind(target, target_idx) \cup {t}
    <3>1. target_idx \in Nat /\ current_idx \in Nat
      BY <1>1
    <3> QED
      BY <1>1, <3>1, BehindNext, Zenon
  <2>3. t \notin Behind(current, current_idx)
    <3>1. \A j \in 1 .. current_idx : current[j] # t
      BY <1>1, <1>3
    <3> QED
      BY <3>1 DEF Behind
  <2>4. plan = resync_ops(Behind(current, current_idx), Behind(target, target_idx))
    BY DEF MergeInv, PlanSoFar
  <2>5. plan' = resync_ops(Behind(current, current_idx), Behind(target, target_idx) \cup {t})
    BY <1>1, <2>1, <2>3, <2>4 DEF resync_ops
  <2> QED
    BY <2>1, <2>2, <2>5 DEF PlanSoFar
<1> QED
  BY <1>4, <1>5

\* The same for a smaller key of the tracked list.
LEMMA DeleteCurrentStep ==
    ASSUME MergeInv, DeleteCurrent
    PROVE  Frontier' /\ PlanSoFar'
<1> DEFINE c == current[current_idx + 1]
<1>1. /\ current_idx \in 0 .. Len(current) - 1 /\ target_idx \in 0 .. Len(target)
      /\ target \in Seq(Int) /\ current \in Seq(Int)
      /\ Increasing(target) /\ Increasing(current) /\ c \in Key
  BY ListTypes DEF MergeInv, TypeOK, DeleteCurrent, CurrentLeft
<1>2. \A i \in target_idx + 1 .. Len(target) : c < target[i]
  <2> SUFFICES ASSUME NEW i \in target_idx + 1 .. Len(target) PROVE c < target[i]
    OBVIOUS
  <2>1. target_idx + 1 \in 1 .. Len(target) /\ target[target_idx + 1] > c
    BY <1>1 DEF DeleteCurrent, TargetLeft, target_key, current_key
  <2>2. i = target_idx + 1 \/ target[target_idx + 1] < target[i]
    BY <1>1, <2>1 DEF Increasing
  <2>3. target[i] \in Int /\ target[target_idx + 1] \in Int /\ c \in Int
    BY <1>1, <2>1
  <2> QED
    BY <2>1, <2>2, <2>3
<1>3. \A i \in 1 .. target_idx : target[i] < c
  BY <1>1 DEF MergeInv, Frontier
<1>4. Frontier'
  <2>1. current_idx' = current_idx + 1 /\ UNCHANGED <<target, current, target_idx>>
    BY DEF DeleteCurrent, lists
  <2>2. ASSUME NEW j \in 1 .. current_idx + 1, NEW i \in target_idx + 1 .. Len(target)
        PROVE  current[j] < target[i]
    <3>1. CASE j = current_idx + 1
      BY <1>2, <3>1
    <3>2. CASE j \in 1 .. current_idx
      BY <3>2 DEF MergeInv, Frontier
    <3> QED
      BY <1>1, <3>1, <3>2
  <2>3. ASSUME NEW i \in 1 .. target_idx, NEW j \in current_idx + 2 .. Len(current)
        PROVE  target[i] < current[j]
    <3>1. j \in current_idx + 1 .. Len(current)
      BY <1>1
    <3> QED
      BY <3>1 DEF MergeInv, Frontier
  <2>4. (current_idx + 1) + 1 = current_idx + 2
    BY <1>1
  <2> QED
    BY <2>1, <2>2, <2>3, <2>4 DEF Frontier
<1>5. PlanSoFar'
  <2>1. /\ plan' = [plan EXCEPT ![c] = "Delete"] /\ current_idx' = current_idx + 1
        /\ UNCHANGED <<target, current, target_idx>>
    BY DEF DeleteCurrent, Push, current_key, lists
  <2>2. Behind(current, current_idx + 1) = Behind(current, current_idx) \cup {c}
    <3>1. target_idx \in Nat /\ current_idx \in Nat
      BY <1>1
    <3> QED
      BY <1>1, <3>1, BehindNext, Zenon
  <2>3. c \notin Behind(target, target_idx)
    <3>1. \A i \in 1 .. target_idx : target[i] # c
      BY <1>1, <1>3
    <3> QED
      BY <3>1 DEF Behind
  <2>4. plan = resync_ops(Behind(current, current_idx), Behind(target, target_idx))
    BY DEF MergeInv, PlanSoFar
  <2>5. plan' = resync_ops(Behind(current, current_idx) \cup {c}, Behind(target, target_idx))
    BY <1>1, <2>1, <2>3, <2>4 DEF resync_ops
  <2> QED
    BY <2>1, <2>2, <2>5 DEF PlanSoFar
<1> QED
  BY <1>4, <1>5

\* Equal keys are in both lists and ask for nothing.
LEMMA SkipEqualStep ==
    ASSUME MergeInv, SkipEqual
    PROVE  Frontier' /\ PlanSoFar'
<1> DEFINE t == target[target_idx + 1]
           c == current[current_idx + 1]
<1>1. /\ target_idx \in 0 .. Len(target) - 1 /\ current_idx \in 0 .. Len(current) - 1
      /\ target \in Seq(Int) /\ current \in Seq(Int)
      /\ Increasing(target) /\ Increasing(current) /\ t \in Key /\ t = c
  BY ListTypes DEF MergeInv, TypeOK, SkipEqual, TargetLeft, CurrentLeft, target_key, current_key
<1>2. /\ target_idx' = target_idx + 1 /\ current_idx' = current_idx + 1
      /\ UNCHANGED <<target, current, plan>>
  BY DEF SkipEqual, lists
<1>3. Frontier'
  <2>1. \A j \in current_idx + 2 .. Len(current) : c < current[j]
    BY <1>1 DEF Increasing
  <2>2. \A i \in target_idx + 2 .. Len(target) : t < target[i]
    BY <1>1 DEF Increasing
  <2>3. /\ \A i \in 1 .. target_idx + 1, j \in current_idx + 2 .. Len(current) : target[i] < current[j]
        /\ \A j \in 1 .. current_idx + 1, i \in target_idx + 2 .. Len(target) : current[j] < target[i]
    <3>1. ASSUME NEW i \in 1 .. target_idx + 1, NEW j \in current_idx + 2 .. Len(current)
          PROVE  target[i] < current[j]
      <4>1. CASE i = target_idx + 1
        BY <1>1, <2>1, <4>1
      <4>2. CASE i \in 1 .. target_idx
        <5>1. j \in current_idx + 1 .. Len(current)
          BY <1>1
        <5> QED
          BY <4>2, <5>1 DEF MergeInv, Frontier
      <4> QED
        BY <1>1, <4>1, <4>2
    <3>2. ASSUME NEW j \in 1 .. current_idx + 1, NEW i \in target_idx + 2 .. Len(target)
          PROVE  current[j] < target[i]
      <4>1. CASE j = current_idx + 1
        BY <1>1, <2>2, <4>1
      <4>2. CASE j \in 1 .. current_idx
        <5>1. i \in target_idx + 1 .. Len(target)
          BY <1>1
        <5> QED
          BY <4>2, <5>1 DEF MergeInv, Frontier
      <4> QED
        BY <1>1, <4>1, <4>2
    <3> QED
      BY <3>1, <3>2
  <2>4. (target_idx + 1) + 1 = target_idx + 2 /\ (current_idx + 1) + 1 = current_idx + 2
    BY <1>1
  <2> QED
    BY <1>2, <2>3, <2>4 DEF Frontier
<1>4. PlanSoFar'
  <2>1. /\ Behind(target, target_idx + 1) = Behind(target, target_idx) \cup {t}
        /\ Behind(current, current_idx + 1) = Behind(current, current_idx) \cup {t}
    <3>1. target_idx \in Nat /\ current_idx \in Nat
      BY <1>1
    <3> QED
      BY <1>1, <3>1, BehindNext, Zenon
  <2>2. t \notin Behind(target, target_idx) /\ t \notin Behind(current, current_idx)
    <3>1. \A i \in 1 .. target_idx : target[i] # t
      <4> SUFFICES ASSUME NEW i \in 1 .. target_idx PROVE target[i] # t
        OBVIOUS
      <4>1. i \in 1 .. Len(target) /\ target_idx + 1 \in 1 .. Len(target) /\ i < target_idx + 1
        BY <1>1
      <4>2. target[i] < target[target_idx + 1] /\ target[i] \in Int /\ target[target_idx + 1] \in Int
        BY <1>1, <4>1 DEF Increasing
      <4> QED
        BY <1>1, <4>2
    <3>2. \A j \in 1 .. current_idx : current[j] # t
      <4> SUFFICES ASSUME NEW j \in 1 .. current_idx PROVE current[j] # t
        OBVIOUS
      <4>1. j \in 1 .. Len(current) /\ current_idx + 1 \in 1 .. Len(current) /\ j < current_idx + 1
        BY <1>1
      <4>2. current[j] < current[current_idx + 1] /\ current[j] \in Int /\ current[current_idx + 1] \in Int
        BY <1>1, <4>1 DEF Increasing
      <4> QED
        BY <1>1, <4>2
    <3> QED
      BY <3>1, <3>2 DEF Behind
  <2>3. resync_ops(Behind(current, current_idx) \cup {t}, Behind(target, target_idx) \cup {t})
          = resync_ops(Behind(current, current_idx), Behind(target, target_idx))
    BY <2>2 DEF resync_ops
  <2> QED
    BY <1>2, <2>1, <2>3 DEF MergeInv, PlanSoFar
<1> QED
  BY <1>3, <1>4

\* The loop invariant is inductive.
LEMMA MergeStep == MergeInv /\ [Next]_vars => MergeInv'
<1> SUFFICES ASSUME MergeInv, [Next]_vars PROVE Frontier' /\ PlanSoFar'
  BY MergeType DEF MergeInv
<1>1. CASE NextChunk \/ ReturnChunk \/ UNCHANGED vars
  BY <1>1 DEF NextChunk, ReturnChunk, vars, lists, MergeInv, Frontier, PlanSoFar
<1> QED
  BY <1>1, AddTargetStep, DeleteCurrentStep, SkipEqualStep DEF Next

\* Whatever the sizes of the chunks, the plan is complete and correct when the
\* job sees the empty chunk: the additions are the snapshot's keys that are not
\* tracked, the deletions the tracked keys that are not in the snapshot.
THEOREM PlanIsCorrect == Spec => []PlanIsDifference
<1> DEFINE AtEnd == where = "done" => target_idx = Len(target) /\ current_idx = Len(current)
<1>1. Init => MergeInv /\ AtEnd
  BY MergeInit DEF Init
<1>2. MergeInv /\ AtEnd /\ [Next]_vars => (MergeInv /\ AtEnd)'
  <2> SUFFICES ASSUME MergeInv, AtEnd, [Next]_vars PROVE AtEnd'
    BY MergeStep
  <2>1. CASE ReturnChunk
    BY <2>1 DEF ReturnChunk, TargetLeft, CurrentLeft, MergeInv, TypeOK, lists
  <2>2. CASE NextChunk \/ AddTarget \/ DeleteCurrent \/ SkipEqual \/ UNCHANGED vars
    BY <2>2 DEF NextChunk, AddTarget, DeleteCurrent, SkipEqual, Room, vars, lists
  <2> QED
    BY <2>1, <2>2 DEF Next
<1>3. MergeInv /\ AtEnd => PlanIsDifference
  BY DEF MergeInv, PlanSoFar, PlanIsDifference, Behind, Elements
<1> QED
  BY <1>1, <1>2, <1>3, PTL DEF Spec

-----------------------------------------------------------------------------
\* An element ahead of its cursor has not been sent yet.
LEMMA Fresh ==
    ASSUME MergeInv
    PROVE  /\ AddTarget => plan[target_key] = "None" /\ target_key \in Key
           /\ DeleteCurrent => plan[current_key] = "None" /\ current_key \in Key
<1>1. ASSUME AddTarget PROVE plan[target_key] = "None" /\ target_key \in Key
  <2>1. /\ target_idx \in 0 .. Len(target) - 1 /\ target \in Seq(Int) /\ Increasing(target)
        /\ current \in Seq(Int) /\ current_idx \in 0 .. Len(current)
    BY <1>1, ListTypes DEF MergeInv, TypeOK, AddTarget, TargetLeft
  <2>2. target_key \in Key
    BY <2>1 DEF MergeInv, TypeOK, target_key
  <2>3. \A i \in 1 .. target_idx : target[i] # target_key
    BY <2>1 DEF Increasing, target_key
  <2>4. \A j \in 1 .. current_idx : current[j] # target_key
    BY <2>1 DEF MergeInv, Frontier, target_key
  <2> QED
    BY <2>2, <2>3, <2>4 DEF MergeInv, PlanSoFar, Behind, resync_ops
<1>2. ASSUME DeleteCurrent PROVE plan[current_key] = "None" /\ current_key \in Key
  <2>1. /\ current_idx \in 0 .. Len(current) - 1 /\ current \in Seq(Int) /\ Increasing(current)
        /\ target \in Seq(Int) /\ target_idx \in 0 .. Len(target)
    BY <1>2, ListTypes DEF MergeInv, TypeOK, DeleteCurrent, CurrentLeft
  <2>2. current_key \in Key
    BY <2>1 DEF MergeInv, TypeOK, current_key
  <2>3. \A j \in 1 .. current_idx : current[j] # current_key
    BY <2>1 DEF Increasing, current_key
  <2>4. \A i \in 1 .. target_idx : target[i] # current_key
    BY <2>1 DEF MergeInv, Frontier, current_key
  <2> QED
    BY <2>2, <2>3, <2>4 DEF MergeInv, PlanSoFar, Behind, resync_ops
<1> QED
  BY <1>1, <1>2

\* An operation on a new key is one more operation.
LEMMA PushCounts ==
    ASSUME MergeInv, NoKeyTwice, NEW k \in Key, NEW action \in Action,
           plan[k] = "None", Push(k, action)
    PROVE  NoKeyTwice'
<1>1. OpKeys(plan') = OpKeys(plan) \cup {k} /\ k \notin OpKeys(plan)
  BY DEF MergeInv, TypeOK, Batch, Push, OpKeys, Action
<1>2. IsFiniteSet(OpKeys(plan))
  BY PlanAssumption, FS_Subset DEF OpKeys
<1>3. Cardinality(OpKeys(plan) \cup {k}) = Cardinality(OpKeys(plan)) + 1
  BY <1>1, <1>2, FS_AddElement
<1> QED
  BY <1>1, <1>3 DEF NoKeyTwice, Push

\* Every step of the loop keeps the invariant and the count.
LEMMA PlanStep == MergeInv /\ NoKeyTwice /\ [Next]_vars => MergeInv' /\ NoKeyTwice'
<1> SUFFICES ASSUME MergeInv, NoKeyTwice, [Next]_vars PROVE NoKeyTwice'
  BY MergeStep
<1>1. CASE AddTarget
  BY <1>1, Fresh, PushCounts DEF AddTarget, Action
<1>2. CASE DeleteCurrent
  BY <1>2, Fresh, PushCounts DEF DeleteCurrent, Action
<1>3. CASE NextChunk \/ SkipEqual \/ ReturnChunk \/ UNCHANGED vars
  BY <1>3 DEF NextChunk, SkipEqual, ReturnChunk, vars, NoKeyTwice
<1> QED
  BY <1>1, <1>2, <1>3 DEF Next

\* No key is sent twice by the chunks of one resync, so the keys of a batch and
\* of a plan are distinct.
THEOREM KeysAreDistinct == Spec => []NoKeyTwice
<1>1. Init => MergeInv /\ NoKeyTwice
  <2>1. OpKeys(NoOps) = {}
    BY DEF OpKeys, NoOps
  <2> QED
    BY <2>1, MergeInit, FS_EmptySet DEF Init, NoKeyTwice
<1>2. MergeInv /\ NoKeyTwice /\ [Next]_vars => (MergeInv /\ NoKeyTwice)'
  BY PlanStep
<1> QED
  BY <1>1, <1>2, PTL DEF Spec

-----------------------------------------------------------------------------
(* AckMatch: the sequence arithmetic of codec.rs, for every width of the    *)
(* counter.  Numbering a block and looking a number up in it are inverse to *)
(* each other, also where the block wraps round; from that,                 *)
(* acknowledgements find their operations whatever times out and however    *)
(* often the numbers come round.                                            *)

\* The remainder of a number below the modulus, and of one below twice the
\* modulus.
LEMMA SmallMod ==
    ASSUME NEW n \in Nat \ {0}, NEW x \in 0 .. 2 * n - 1
    PROVE  x % n = IF x < n THEN x ELSE x - n
<1>1. CASE x < n
  BY <1>1
<1>2. CASE x >= n
  BY <1>2
<1> QED
  BY <1>1, <1>2

\* seq_advance steps through 1 .. Span and starts again at 1.
LEMMA AdvanceWraps ==
    ASSUME NEW start \in 1 .. Span, NEW steps \in 0 .. Span - 1
    PROVE  /\ seq_advance(start, steps) = IF start + steps <= Span THEN start + steps
                                          ELSE start + steps - Span
           /\ seq_advance(start, steps) \in 1 .. Span
<1>1. Span \in Nat \ {0}
  BY AckAssumption
<1>2. normalize_seq(start) = start
  BY DEF normalize_seq
<1>3. steps % Span = steps
  BY <1>1, SmallMod
<1> DEFINE x == start - 1 + steps
<1>4. x % Span = IF x < Span THEN x ELSE x - Span
  <2>1. x \in 0 .. 2 * Span - 1
    BY <1>1
  <2> HIDE DEF x
  <2> QED
    BY <1>1, <2>1, SmallMod
<1>5. seq_advance(start, steps) = (x % Span) + 1
  BY <1>2, <1>3 DEF seq_advance
<1> QED
  BY <1>1, <1>4, <1>5

\* The number given to the i-th request of a batch is looked up as i, wherever
\* in the number space the batch starts: its acknowledgement finds its
\* operation, and no two requests of a batch share a number
\* (seq_with_offset in start_apply_rules_batch, seq_to_batch_index in
\* drain_apply_ack_messages).
THEOREM OwnSeqIsFound ==
    ASSUME NEW first \in 1 .. Span, NEW n \in 1 .. Span, NEW i \in 0 .. n - 1
    PROVE  seq_to_batch_index(seq_with_offset(first, i), first, n) = i
<1> DEFINE seq == seq_with_offset(first, i)
<1>1. Span \in Nat \ {0}
  BY AckAssumption
<1>2. seq = seq_advance(first, i)
  BY DEF seq_with_offset, normalize_seq
<1>3. /\ seq = IF first + i <= Span THEN first + i ELSE first + i - Span
      /\ seq \in 1 .. Span
  BY <1>1, <1>2, AdvanceWraps
<1> HIDE DEF seq
<1>4. normalize_seq(first) = first /\ normalize_seq(seq) = seq
  BY <1>3 DEF normalize_seq
<1> DEFINE delta == IF seq >= first THEN seq - first ELSE Span - (first - seq)
<1>5. delta = i
  <2>1. CASE first + i <= Span
    BY <1>1, <1>3, <2>1
  <2>2. CASE first + i > Span
    <3>1. seq = first + i - Span /\ seq < first
      BY <1>1, <1>3, <2>2
    <3> QED
      BY <1>1, <3>1
  <2> QED
    BY <1>1, <2>1, <2>2
<1>6. seq # 0 /\ n # 0 /\ i < n
  BY <1>1, <1>3
<1>7. seq_to_batch_index(seq, first, n) = IF n # 0 /\ seq # 0 /\ delta < n THEN delta ELSE NoIndex
  BY <1>4 DEF seq_to_batch_index
<1> QED
  BY <1>5, <1>6, <1>7 DEF seq

\* A number that is looked up as i was given to the i-th request of the block:
\* an acknowledgement of an earlier batch or of a dump, whose number lies
\* outside the block, is never credited to this one.
THEOREM FoundSeqIsOwn ==
    ASSUME NEW first \in 1 .. Span, NEW n \in 1 .. Span, NEW seq \in 1 .. Span,
           seq_to_batch_index(seq, first, n) # NoIndex
    PROVE  /\ seq_to_batch_index(seq, first, n) \in 0 .. n - 1
           /\ seq = seq_with_offset(first, seq_to_batch_index(seq, first, n))
<1> DEFINE i == seq_to_batch_index(seq, first, n)
<1>1. Span \in Nat \ {0}
  BY AckAssumption
<1>2. normalize_seq(first) = first /\ normalize_seq(seq) = seq
  BY DEF normalize_seq
<1>3. i = (IF seq >= first THEN seq - first ELSE Span - (first - seq)) /\ i < n
  BY <1>1, <1>2 DEF seq_to_batch_index
<1>4. i \in 0 .. n - 1
  BY <1>1, <1>3
<1> HIDE DEF i
<1>5. seq_advance(first, i) = IF first + i <= Span THEN first + i ELSE first + i - Span
  BY <1>1, <1>4, AdvanceWraps
<1>6. seq_with_offset(first, i) = seq_advance(first, i)
  BY <1>2 DEF seq_with_offset
<1>7. seq = seq_with_offset(first, i)
  BY <1>1, <1>3, <1>5, <1>6
<1> QED
  BY <1>4, <1>7 DEF i

-----------------------------------------------------------------------------
(* The inductive invariant.                                                 *)

\* The number that many steps ahead of another one.
Before(seq, steps) == IF seq > steps THEN seq - steps ELSE seq - steps + Span

Ack == [request : Nat, seq : 1 .. Span]

AckTypes ==
    /\ next_seq \in 1 .. Span /\ first_seq \in 1 .. Span
    /\ requests \in Nat /\ batch \in Nat \cup {NoBatch} /\ pending \in Nat
    /\ seen \in Seq(BOOLEAN)
    /\ inbox \in Seq(Ack)

\* Every request is answered once.
Distinct == \A l, m \in DOMAIN inbox : l # m => inbox[l].request # inbox[m].request

\* An unread acknowledgement is younger than one round of the counter, and its
\* number lies as far before the counter as its request lies back.
Numbered ==
    \A m \in DOMAIN inbox :
        /\ requests - inbox[m].request \in 1 .. Span
        /\ inbox[m].seq = Before(next_seq, requests - inbox[m].request)

\* Seen from the batch in flight, which may have started more than a round ago, an
\* unread acknowledgement is its own or lies before its block, and not so far before
\* it that it is in the block again.
Own(m)     == /\ inbox[m].request \in batch .. batch + Len(seen) - 1
              /\ inbox[m].seq = seq_with_offset(first_seq, inbox[m].request - batch)
Earlier(m) == /\ inbox[m].request < batch
              /\ batch - inbox[m].request + Len(seen) <= Span
              /\ inbox[m].seq = Before(first_seq, batch - inbox[m].request)
InFlight ==
    batch # NoBatch =>
        /\ Len(seen) \in 1 .. Span /\ batch + Len(seen) <= requests
        /\ \A m \in DOMAIN inbox : Own(m) \/ Earlier(m)

AckInv == AckTypes /\ Distinct /\ Numbered /\ InFlight /\ AcksFindTheirOps

-----------------------------------------------------------------------------
\* A block may fill the whole number space; then the counter is where it was.
LEMMA AdvanceRound ==
    ASSUME NEW start \in 1 .. Span, NEW steps \in 0 .. Span
    PROVE  /\ seq_advance(start, steps) = IF start + steps <= Span THEN start + steps
                                          ELSE start + steps - Span
           /\ seq_advance(start, steps) \in 1 .. Span
<1>1. Span \in Nat \ {0}
  BY AckAssumption
<1>2. CASE steps < Span
  <2>1. steps \in 0 .. Span - 1
    BY <1>1, <1>2
  <2> QED
    BY <2>1, AdvanceWraps
<1>3. CASE steps = Span
  <2>1. steps % Span = 0
    BY <1>1, <1>3, SmallMod
  <2> DEFINE x == start - 1
  <2>2. x \in 0 .. Span - 1
    BY <1>1
  <2>3. x % Span = x
    <3> HIDE DEF x
    <3> QED
      BY <1>1, <2>2, SmallMod
  <2>4. normalize_seq(start) = start
    BY DEF normalize_seq
  <2>5. seq_advance(start, steps) = ((x + 0) % Span) + 1
    BY <2>1, <2>4 DEF seq_advance
  <2>6. seq_advance(start, steps) = start
    BY <1>1, <2>2, <2>3, <2>5
  <2> QED
    BY <1>1, <1>3, <2>6
<1> QED
  BY <1>1, <1>2, <1>3

\* A number lies further back by what the counter advances.
LEMMA BeforeAdvance ==
    ASSUME NEW start \in 1 .. Span, NEW n \in 0 .. Span, NEW d \in 1 .. Span, d + n <= Span
    PROVE  Before(seq_advance(start, n), d + n) = Before(start, d)
<1>1. Span \in Nat \ {0}
  BY AckAssumption
<1> DEFINE next == seq_advance(start, n)
<1>2. next = IF start + n <= Span THEN start + n ELSE start + n - Span
  BY AdvanceRound
<1> HIDE DEF next
<1>3. CASE start + n <= Span
  <2>1. next = start + n /\ (next > d + n <=> start > d) /\ next - (d + n) = start - d
    BY <1>1, <1>2, <1>3
  <2> QED
    BY <2>1 DEF Before, next
<1>4. CASE start + n > Span
  <2>1. /\ next = start + n - Span /\ ~(next > d + n) /\ start > d
        /\ next - (d + n) + Span = start - d
    BY <1>1, <1>2, <1>4
  <2> QED
    BY <2>1 DEF Before, next
<1> QED
  BY <1>1, <1>3, <1>4 DEF next

\* The numbers of a block, seen from the counter behind it.
LEMMA OwnBefore ==
    ASSUME NEW start \in 1 .. Span, NEW n \in 1 .. Span, NEW i \in 0 .. n - 1
    PROVE  /\ seq_with_offset(start, i) = Before(seq_advance(start, n), n - i)
           /\ seq_with_offset(start, i) \in 1 .. Span
<1>1. Span \in Nat \ {0}
  BY AckAssumption
<1> DEFINE next == seq_advance(start, n)
           own  == seq_advance(start, i)
<1>2. next = IF start + n <= Span THEN start + n ELSE start + n - Span
  BY <1>1, AdvanceRound
<1>3. /\ own = IF start + i <= Span THEN start + i ELSE start + i - Span
      /\ own \in 1 .. Span
  BY <1>1, AdvanceRound
<1>4. seq_with_offset(start, i) = own
  BY DEF seq_with_offset, normalize_seq
<1> HIDE DEF next, own
<1>5. own = Before(next, n - i)
  <2>1. CASE start + n <= Span
    BY <1>1, <1>2, <1>3, <2>1 DEF Before
  <2>2. CASE start + n > Span /\ start + i <= Span
    BY <1>1, <1>2, <1>3, <2>2 DEF Before
  <2>3. CASE start + n > Span /\ start + i > Span
    BY <1>1, <1>2, <1>3, <2>3 DEF Before
  <2> QED
    BY <1>1, <2>1, <2>2, <2>3
<1> QED
  BY <1>3, <1>4, <1>5 DEF next

\* A number before a block is not found in it, as long as block and distance fit in
\* one round.
LEMMA EarlierIsNotFound ==
    ASSUME NEW first \in 1 .. Span, NEW n \in 1 .. Span, NEW back \in Nat \ {0}, back + n <= Span
    PROVE  seq_to_batch_index(Before(first, back), first, n) = NoIndex
<1> DEFINE seq   == Before(first, back)
           delta == IF seq >= first THEN seq - first ELSE Span - (first - seq)
<1>1. Span \in Nat \ {0}
  BY AckAssumption
<1>2. seq \in 1 .. Span /\ delta = Span - back
  <2>1. CASE first > back
    BY <1>1, <2>1 DEF Before
  <2>2. CASE first <= back
    BY <1>1, <2>2 DEF Before
  <2> QED
    BY <1>1, <2>1, <2>2
<1> HIDE DEF seq
<1>3. normalize_seq(first) = first /\ normalize_seq(seq) = seq
  BY <1>2 DEF normalize_seq
<1>4. seq_to_batch_index(seq, first, n) = IF n # 0 /\ seq # 0 /\ delta < n THEN delta ELSE NoIndex
  BY <1>3 DEF seq_to_batch_index
<1>5. ~(delta < n)
  BY <1>1, <1>2
<1> QED
  BY <1>4, <1>5 DEF seq

-----------------------------------------------------------------------------
(* The steps.                                                               *)

\* A queue with messages appended.
LEMMA Appended ==
    ASSUME NEW R, NEW s \in Seq(R), NEW n \in Nat, NEW f \in [1 .. n -> R]
    PROVE  /\ s \o f \in Seq(R) /\ Len(s \o f) = Len(s) + n
           /\ \A m \in 1 .. Len(s) : (s \o f)[m] = s[m]
           /\ \A m \in Len(s) + 1 .. Len(s) + n :
                 m - Len(s) \in 1 .. n /\ (s \o f)[m] = f[m - Len(s)]
<1>1. f \in Seq(R) /\ Len(f) = n
  OBVIOUS
<1> QED
  BY <1>1

\* What the invariant says of the types, and of the messages.
LEMMA AckFacts ==
    ASSUME AckInv
    PROVE  /\ Span \in Nat \ {0} /\ next_seq \in 1 .. Span /\ first_seq \in 1 .. Span
           /\ requests \in Nat /\ pending \in Nat /\ batch \in Nat \cup {NoBatch}
           /\ seen \in Seq(BOOLEAN) /\ inbox \in Seq(Ack)
           /\ Len(inbox) \in Nat /\ DOMAIN inbox = 1 .. Len(inbox)
           /\ \A m \in DOMAIN inbox : /\ inbox[m] \in Ack /\ inbox[m].request \in Nat
                                      /\ inbox[m].seq \in 1 .. Span
                                      /\ requests - inbox[m].request \in 1 .. Span
                                      /\ inbox[m].request < requests
                                      /\ inbox[m].seq = Before(next_seq, requests - inbox[m].request)
<1>1. Span \in Nat \ {0}
  BY AckAssumption
<1>2. /\ next_seq \in 1 .. Span /\ first_seq \in 1 .. Span
      /\ requests \in Nat /\ pending \in Nat /\ batch \in Nat \cup {NoBatch}
      /\ seen \in Seq(BOOLEAN) /\ inbox \in Seq(Ack)
  BY Zenon DEF AckInv, AckTypes
<1>3. Len(inbox) \in Nat /\ DOMAIN inbox = 1 .. Len(inbox)
  BY <1>2
<1>4. ASSUME NEW m \in DOMAIN inbox
      PROVE  inbox[m] \in Ack /\ inbox[m].request \in Nat /\ inbox[m].seq \in 1 .. Span
  <2>1. inbox[m] \in Ack
    BY <1>2
  <2> QED
    BY <2>1 DEF Ack
<1>5. ASSUME NEW m \in DOMAIN inbox
      PROVE  /\ requests - inbox[m].request \in 1 .. Span
             /\ inbox[m].seq = Before(next_seq, requests - inbox[m].request)
  BY Zenon DEF AckInv, Numbered
<1>6. ASSUME NEW m \in DOMAIN inbox PROVE inbox[m].request < requests
  BY <1>1, <1>2, <1>4, <1>5
<1> QED
  BY <1>1, <1>2, <1>3, <1>4, <1>5, <1>6, Zenon

\* The invariant holds when the process starts, wherever the counter is.
LEMMA AckInitHolds == AckInit => AckInv
<1> SUFFICES ASSUME AckInit PROVE AckInv
  OBVIOUS
<1>1. AckTypes
  <2>1. <<>> \in Seq(BOOLEAN) /\ <<>> \in Seq(Ack) /\ 1 \in 1 .. Span /\ 0 \in Nat
    BY AckAssumption
  <2> QED
    BY <2>1, Zenon DEF AckInit, AckTypes
<1> QED
  BY <1>1 DEF AckInit, AckInv, Distinct, Numbered, InFlight, AcksFindTheirOps

\* The counter advances by a block: every unread acknowledgement lies that much
\* further back.
LEMMA CounterAdvances ==
    ASSUME AckInv, NEW n \in 1 .. Span, Window(n), NEW m \in DOMAIN inbox
    PROVE  /\ requests + n - inbox[m].request \in 1 .. Span
           /\ inbox[m].seq = Before(seq_advance(next_seq, n), requests + n - inbox[m].request)
<1>1. /\ next_seq \in 1 .. Span /\ requests \in Nat /\ inbox[m].request \in Nat
      /\ Span \in Nat \ {0}
  BY AckFacts
<1> DEFINE d == requests - inbox[m].request
<1>2. d \in 1 .. Span /\ inbox[m].seq = Before(next_seq, d)
  BY AckFacts
<1>3. requests + n - inbox[m].request = d + n /\ d + n <= Span
  BY <1>1 DEF Window
<1> HIDE DEF d
<1>4. Before(seq_advance(next_seq, n), d + n) = Before(next_seq, d)
  BY <1>1, <1>2, <1>3, BeforeAdvance
<1>5. d + n \in 1 .. Span
  BY <1>1, <1>2, <1>3
<1> QED
  BY <1>2, <1>3, <1>4, <1>5

\* Numbers are never 0, so that normalize_seq changes nothing.
LEMMA NoZero == ASSUME NEW seq \in 1 .. Span PROVE normalize_seq(seq) = seq
BY DEF normalize_seq

\* Cardinality of a block of flags none of which is set.
LEMMA AllUnseen ==
    ASSUME NEW n \in Nat, NEW s, s = [i \in 1 .. n |-> FALSE]
    PROVE  Cardinality({i \in DOMAIN s : ~s[i]}) = n
<1>1. {i \in DOMAIN s : ~s[i]} = 1 .. n
  OBVIOUS
<1>2. Cardinality(1 .. n) = n
  BY FS_Interval
<1> QED
  BY <1>1, <1>2

\* start_apply_rules_batch keeps the invariant.
LEMMA StartStep ==
    ASSUME AckInv, NEW n \in 1 .. Span, start_apply_rules_batch(n)
    PROVE  AckInv'
<1> DEFINE block == [i \in 1 .. n |-> [request |-> requests + i - 1,
                                       seq |-> seq_with_offset(next_seq, i - 1)]]
<1>1. /\ next_seq \in 1 .. Span /\ requests \in Nat /\ inbox \in Seq(Ack)
      /\ Span \in Nat \ {0} /\ n \in Nat
      /\ Len(inbox) \in Nat /\ DOMAIN inbox = 1 .. Len(inbox)
  <2>1. n \in Nat
    BY AckAssumption
  <2> QED
    BY <2>1, AckFacts
<1>2. /\ first_seq' = next_seq /\ next_seq' = seq_advance(next_seq, n)
      /\ seen' = [i \in 1 .. n |-> FALSE] /\ pending' = n
      /\ batch' = requests /\ requests' = requests + n /\ inbox' = inbox \o block
  BY <1>1, NoZero DEF start_apply_rules_batch, reserve_seq_block
<1>3. ASSUME NEW i \in 1 .. n
      PROVE  /\ seq_with_offset(next_seq, i - 1) = Before(seq_advance(next_seq, n), n - (i - 1))
             /\ seq_with_offset(next_seq, i - 1) \in 1 .. Span
  <2>1. i - 1 \in 0 .. n - 1
    BY <1>1
  <2> QED
    BY <1>1, <2>1, OwnBefore
<1>4. block \in [1 .. n -> Ack]
  <2>1. ASSUME NEW i \in 1 .. n PROVE requests + i - 1 \in Nat
    BY <1>1
  <2> QED
    BY <1>3, <2>1 DEF Ack
<1> HIDE DEF block
<1>5. /\ inbox' \in Seq(Ack) /\ Len(inbox') = Len(inbox) + n
      /\ \A m \in 1 .. Len(inbox) : inbox'[m] = inbox[m]
      /\ \A m \in Len(inbox) + 1 .. Len(inbox) + n :
            m - Len(inbox) \in 1 .. n /\ inbox'[m] = block[m - Len(inbox)]
  <2>1. /\ inbox \o block \in Seq(Ack) /\ Len(inbox \o block) = Len(inbox) + n
        /\ \A m \in 1 .. Len(inbox) : (inbox \o block)[m] = inbox[m]
        /\ \A m \in Len(inbox) + 1 .. Len(inbox) + n :
              m - Len(inbox) \in 1 .. n /\ (inbox \o block)[m] = block[m - Len(inbox)]
    BY <1>1, <1>4, Appended
  <2> QED
    BY <1>2, <2>1, Zenon
<1>6. Window(n)
  BY DEF start_apply_rules_batch
<1>7. ASSUME NEW m \in DOMAIN inbox'
      PROVE  \/ m \in DOMAIN inbox /\ inbox'[m] = inbox[m]
             \/ \E i \in 1 .. n : /\ m = Len(inbox) + i /\ inbox'[m] = block[i]
                                  /\ inbox'[m].request = requests + i - 1
                                  /\ inbox'[m].seq = seq_with_offset(next_seq, i - 1)
  <2>1. m \in 1 .. Len(inbox) + n
    BY <1>5
  <2>2. CASE m \in 1 .. Len(inbox)
    BY <1>1, <1>5, <2>2
  <2>3. CASE m \in Len(inbox) + 1 .. Len(inbox) + n
    <3>1. m - Len(inbox) \in 1 .. n /\ m = Len(inbox) + (m - Len(inbox))
      BY <1>1, <1>5, <2>3
    <3>2. inbox'[m] = block[m - Len(inbox)]
      BY <1>5, <2>3
    <3>3. \A i \in 1 .. n : /\ block[i].request = requests + i - 1
                            /\ block[i].seq = seq_with_offset(next_seq, i - 1)
      BY DEF block
    <3> QED
      BY <3>1, <3>2, <3>3, Zenon
  <2> QED
    BY <1>1, <2>1, <2>2, <2>3
<1>8. ASSUME NEW m \in DOMAIN inbox
      PROVE  /\ inbox[m].request \in Nat /\ inbox[m].request < requests
             /\ requests + n - inbox[m].request \in 1 .. Span
             /\ inbox[m].seq = Before(next_seq, requests - inbox[m].request)
             /\ inbox[m].seq = Before(seq_advance(next_seq, n), requests + n - inbox[m].request)
  BY <1>6, AckFacts, CounterAdvances, Zenon
<1>9. AckTypes'
  <2>1. next_seq' \in 1 .. Span
    BY <1>1, <1>2, AdvanceRound
  <2>2. seen' \in Seq(BOOLEAN)
    BY <1>1, <1>2
  <2> QED
    BY <1>1, <1>2, <1>5, <2>1, <2>2 DEF AckTypes
<1>10. Distinct'
  <2> SUFFICES ASSUME NEW l \in DOMAIN inbox', NEW m \in DOMAIN inbox', l # m,
                      inbox'[l].request = inbox'[m].request
               PROVE  FALSE
    BY DEF Distinct
  <2>1. CASE l \in DOMAIN inbox /\ m \in DOMAIN inbox
    BY <1>5, <2>1 DEF AckInv, Distinct
  <2>2. CASE l \notin DOMAIN inbox /\ m \notin DOMAIN inbox
    <3>1. PICK i \in 1 .. n : l = Len(inbox) + i /\ inbox'[l].request = requests + i - 1
      BY <1>7, <2>2
    <3>2. PICK j \in 1 .. n : m = Len(inbox) + j /\ inbox'[m].request = requests + j - 1
      BY <1>7, <2>2
    <3> QED
      BY <1>1, <3>1, <3>2
  <2>3. ASSUME NEW a \in DOMAIN inbox, NEW b \in DOMAIN inbox', b \notin DOMAIN inbox
        PROVE  inbox[a].request # inbox'[b].request
    <3>1. PICK j \in 1 .. n : inbox'[b].request = requests + j - 1
      BY <1>7, <2>3
    <3> QED
      BY <1>1, <1>8, <3>1
  <2>4. \A a \in DOMAIN inbox : inbox'[a] = inbox[a]
    BY <1>1, <1>5, Zenon
  <2> QED
    BY <2>1, <2>2, <2>3, <2>4, Zenon
<1>11. Numbered'
  <2> SUFFICES ASSUME NEW m \in DOMAIN inbox'
               PROVE  /\ requests' - inbox'[m].request \in 1 .. Span
                      /\ inbox'[m].seq = Before(next_seq', requests' - inbox'[m].request)
    BY DEF Numbered
  <2>1. CASE m \in DOMAIN inbox /\ inbox'[m] = inbox[m]
    <3>1. /\ requests + n - inbox[m].request \in 1 .. Span
          /\ inbox[m].seq = Before(seq_advance(next_seq, n), requests + n - inbox[m].request)
      BY <1>8, <2>1
    <3>2. requests' = requests + n /\ next_seq' = seq_advance(next_seq, n)
      BY <1>2, Zenon
    <3>3. inbox[m].request \in Nat /\ requests \in Nat /\ n \in Nat
      BY <1>1, <1>8, <2>1
    <3>4. requests' - inbox'[m].request = requests + n - inbox[m].request
      BY <2>1, <3>2, <3>3
    <3> QED
      BY <2>1, <3>1, <3>2, <3>4, Zenon
  <2>2. ASSUME NEW i \in 1 .. n, inbox'[m].request = requests + i - 1,
               inbox'[m].seq = seq_with_offset(next_seq, i - 1)
        PROVE  /\ requests' - inbox'[m].request \in 1 .. Span
               /\ inbox'[m].seq = Before(next_seq', requests' - inbox'[m].request)
    <3>1. requests' - inbox'[m].request = n - (i - 1) /\ n - (i - 1) \in 1 .. Span
      BY <1>1, <1>2, <2>2
    <3> QED
      BY <1>2, <1>3, <2>2, <3>1
  <2> QED
    BY <1>7, <2>1, <2>2
<1>12. InFlight'
  <2>1. Len(seen') = n
    BY <1>1, <1>2
  <2>2. ASSUME NEW m \in DOMAIN inbox' PROVE Own(m)' \/ Earlier(m)'
    <3>1. CASE m \in DOMAIN inbox /\ inbox'[m] = inbox[m]
      <4>1. /\ inbox'[m].request < batch'
            /\ batch' - inbox'[m].request + Len(seen') <= Span
            /\ inbox'[m].seq = Before(first_seq', batch' - inbox'[m].request)
        BY <1>1, <1>2, <1>8, <2>1, <3>1
      <4> QED
        BY <4>1 DEF Earlier
    <3>2. ASSUME NEW i \in 1 .. n, inbox'[m].request = requests + i - 1,
                 inbox'[m].seq = seq_with_offset(next_seq, i - 1)
          PROVE  Own(m)'
      <4>1. /\ inbox'[m].request \in batch' .. batch' + Len(seen') - 1
            /\ inbox'[m].request - batch' = i - 1
        BY <1>1, <1>2, <2>1, <3>2
      <4> QED
        BY <1>2, <3>2, <4>1 DEF Own
    <3> QED
      BY <1>7, <3>1, <3>2
  <2>3. batch' + Len(seen') <= requests'
    BY <1>1, <1>2, <2>1
  <2> QED
    BY <2>1, <2>2, <2>3 DEF InFlight
<1>13. AcksFindTheirOps'
  <2>1. \A i \in DOMAIN seen' : ~seen'[i] /\ inbox'[Len(inbox) + i].request = batch' + i - 1
                                /\ Len(inbox) + i \in DOMAIN inbox'
    <3> SUFFICES ASSUME NEW i \in 1 .. n
                 PROVE  /\ inbox'[Len(inbox) + i].request = requests + i - 1
                        /\ Len(inbox) + i \in DOMAIN inbox'
      BY <1>2
    <3>1. Len(inbox) + i \in Len(inbox) + 1 .. Len(inbox) + n /\ (Len(inbox) + i) - Len(inbox) = i
      BY <1>1
    <3>2. inbox'[Len(inbox) + i] = block[i]
      BY <1>5, <3>1
    <3> QED
      BY <1>5, <3>1, <3>2 DEF block
  <2>2. pending' = Cardinality({i \in DOMAIN seen' : ~seen'[i]})
    BY <1>1, <1>2, AllUnseen
  <2> QED
    BY <2>1, <2>2 DEF AcksFindTheirOps
<1> QED
  BY <1>9, <1>10, <1>11, <1>12, <1>13 DEF AckInv

\* A dump takes a number as a batch of one does, and nobody answers it.
LEMMA DumpStep ==
    ASSUME AckInv, start_dump
    PROVE  AckInv'
<1>1. /\ next_seq' = seq_advance(next_seq, 1) /\ requests' = requests + 1
      /\ UNCHANGED <<first_seq, seen, pending, batch, inbox>>
  BY AckFacts, NoZero DEF start_dump, reserve_seq_block
<1>2. 1 \in 1 .. Span /\ requests \in Nat /\ next_seq \in 1 .. Span
  BY AckFacts
<1>3. Window(1)
  BY DEF start_dump
<1>4. AckTypes'
  <2>1. 1 \in 0 .. Span
    BY AckFacts
  <2>2. seq_advance(next_seq, 1) \in 1 .. Span
    BY <1>2, <2>1, AdvanceRound
  <2>3. next_seq' \in 1 .. Span /\ requests' \in Nat
    BY <1>1, <1>2, <2>2
  <2> QED
    BY <1>1, <2>3, Zenon DEF AckInv, AckTypes
<1>5. Distinct' /\ AcksFindTheirOps'
  BY <1>1, Zenon DEF AckInv, Distinct, AcksFindTheirOps
<1>6. Numbered'
  <2>1. ASSUME NEW m \in DOMAIN inbox
        PROVE  /\ requests + 1 - inbox[m].request \in 1 .. Span
               /\ inbox[m].seq = Before(seq_advance(next_seq, 1), requests + 1 - inbox[m].request)
    BY <1>2, <1>3, CounterAdvances, Zenon
  <2>2. inbox' = inbox /\ requests' = requests + 1 /\ next_seq' = seq_advance(next_seq, 1)
    BY <1>1
  <2> SUFFICES ASSUME NEW m \in DOMAIN inbox
               PROVE  /\ requests' - inbox[m].request \in 1 .. Span
                      /\ inbox[m].seq = Before(next_seq', requests' - inbox[m].request)
    BY <2>2 DEF Numbered
  <2>3. inbox[m].request \in Nat
    BY AckFacts
  <2>4. requests' - inbox[m].request = requests + 1 - inbox[m].request
    BY <1>2, <2>2, <2>3
  <2> QED
    BY <2>1, <2>2, <2>4, Zenon
<1>7. InFlight'
  <2>1. ASSUME batch # NoBatch PROVE batch + Len(seen) <= requests + 1
    <3>1. batch + Len(seen) <= requests /\ Len(seen) \in 1 .. Span
      BY <2>1, Zenon DEF AckInv, InFlight
    <3>2. batch \in Nat /\ Len(seen) \in Nat
      BY <2>1, <3>1, AckFacts
    <3> QED
      BY <1>2, <3>1, <3>2
  <2> QED
    BY <1>1, <2>1, Zenon DEF AckInv, InFlight, Own, Earlier
<1> QED
  BY <1>4, <1>5, <1>6, <1>7, Zenon DEF AckInv

\* A batch that is over leaves its acknowledgements and the counter as they are.
LEMMA OverStep ==
    ASSUME AckInv, batch' = NoBatch, UNCHANGED <<next_seq, first_seq, seen, pending, requests, inbox>>
    PROVE  AckInv'
<1>1. AckTypes' /\ Distinct' /\ Numbered'
  BY Zenon DEF AckInv, AckTypes, Distinct, Numbered
<1>2. InFlight' /\ AcksFindTheirOps'
  BY DEF InFlight, AcksFindTheirOps
<1> QED
  BY <1>1, <1>2 DEF AckInv

\* The message that is read next belongs to an operation of the batch exactly if it
\* answers one of its requests, and then to that one.
LEMMA HeadIsFound ==
    ASSUME AckInv, batch # NoBatch, inbox # <<>>
    PROVE  LET idx == seq_to_batch_index(inbox[1].seq, first_seq, Len(seen))
               req == inbox[1].request
           IN /\ idx \in Int
              /\ idx # NoIndex => idx + 1 \in 1 .. Len(seen) /\ req = batch + idx
              /\ idx = NoIndex => req < batch
<1> DEFINE idx == seq_to_batch_index(inbox[1].seq, first_seq, Len(seen))
           req == inbox[1].request
<1>1. 1 \in DOMAIN inbox
  BY AckFacts
<1>2. /\ first_seq \in 1 .. Span /\ batch \in Nat /\ req \in Nat /\ Span \in Nat \ {0}
  BY <1>1, AckFacts
<1>3. Len(seen) \in 1 .. Span /\ (Own(1) \/ Earlier(1))
  BY <1>1, Zenon DEF AckInv, InFlight
<1> SUFFICES /\ idx \in Int
             /\ idx # NoIndex => idx + 1 \in 1 .. Len(seen) /\ req = batch + idx
             /\ idx = NoIndex => req < batch
  OBVIOUS
<1>4. CASE Own(1)
  <2> DEFINE i == req - batch
  <2>1. req \in batch .. batch + Len(seen) - 1 /\ inbox[1].seq = seq_with_offset(first_seq, i)
    BY <1>4 DEF Own
  <2>2. i \in 0 .. Len(seen) - 1
    BY <1>2, <1>3, <2>1
  <2>3. idx = i
    <3> HIDE DEF i
    <3> QED
      BY <1>2, <1>3, <2>1, <2>2, OwnSeqIsFound
  <2> HIDE DEF idx
  <2>4. idx \in 0 .. Len(seen) - 1 /\ Len(seen) \in Nat
    BY <1>3, <2>2, <2>3
  <2>5. idx # NoIndex /\ idx + 1 \in 1 .. Len(seen) /\ idx \in Int
    BY <2>4 DEF NoIndex
  <2>6. req = batch + idx
    <3> HIDE DEF req
    <3> QED
      BY <1>2, <2>3
  <2> QED
    BY <2>5, <2>6
<1>5. CASE Earlier(1)
  <2> DEFINE back == batch - req
  <2>1. req < batch /\ back + Len(seen) <= Span /\ inbox[1].seq = Before(first_seq, back)
    BY <1>5 DEF Earlier
  <2>2. back \in Nat \ {0}
    BY <1>2, <2>1
  <2>3. idx = NoIndex
    <3> HIDE DEF back
    <3> QED
      BY <1>2, <1>3, <2>1, <2>2, EarlierIsNotFound
  <2> QED
    BY <2>1, <2>3 DEF NoIndex
<1> QED
  BY <1>3, <1>4, <1>5

\* What is left of the queue when its head is read.
LEMMA Rest ==
    ASSUME NEW R, NEW s \in Seq(R), s # <<>>
    PROVE  /\ Tail(s) \in Seq(R) /\ DOMAIN Tail(s) = 1 .. Len(s) - 1
           /\ \A m \in DOMAIN Tail(s) : Tail(s)[m] = s[m + 1] /\ m + 1 \in DOMAIN s /\ m + 1 # 1
           /\ \A m \in DOMAIN s : m # 1 => m - 1 \in DOMAIN Tail(s) /\ s[m] = Tail(s)[m - 1]
<1>1. Tail(s) \in Seq(R) /\ Len(Tail(s)) = Len(s) - 1 /\ Len(s) \in Nat /\ Len(s) > 0
  OBVIOUS
<1>2. DOMAIN Tail(s) = 1 .. Len(s) - 1 /\ DOMAIN s = 1 .. Len(s)
  BY <1>1
<1>3. \A m \in 1 .. Len(s) - 1 : Tail(s)[m] = s[m + 1]
  OBVIOUS
<1>4. \A m \in 1 .. Len(s) : m # 1 => m - 1 \in 1 .. Len(s) - 1 /\ (m - 1) + 1 = m
  BY <1>1
<1> QED
  BY <1>1, <1>2, <1>3, <1>4

\* Marking one operation leaves one less to wait for.
LEMMA OneLess ==
    ASSUME NEW s \in Seq(BOOLEAN), NEW i \in DOMAIN s, s[i] = FALSE
    PROVE  LET t == [s EXCEPT ![i] = TRUE]
           IN Cardinality({j \in DOMAIN t : ~t[j]}) = Cardinality({j \in DOMAIN s : ~s[j]}) - 1
<1> DEFINE t == [s EXCEPT ![i] = TRUE]
           U == {j \in DOMAIN s : ~s[j]}
<1>1. IsFiniteSet(DOMAIN s)
  BY FS_Interval
<1>2. IsFiniteSet(U)
  BY <1>1, FS_Subset
<1>3. i \in U
  OBVIOUS
<1>4. {j \in DOMAIN t : ~t[j]} = U \ {i}
  OBVIOUS
<1> QED
  BY <1>2, <1>3, <1>4, FS_RemoveElement

\* Reading an acknowledgement keeps the invariant: it marks the operation it answers,
\* which was not marked, or none if it is late.
LEMMA DrainStep ==
    ASSUME AckInv, drain_apply_ack_message
    PROVE  AckInv'
<1> DEFINE idx == seq_to_batch_index(inbox[1].seq, first_seq, Len(seen))
           req == inbox[1].request
<1>1. /\ batch # NoBatch /\ inbox # <<>> /\ inbox' = Tail(inbox)
      /\ UNCHANGED <<next_seq, first_seq, requests, batch>>
      /\ mark_status(idx)
  BY DEF drain_apply_ack_message
<1>2. /\ idx \in Int
      /\ idx # NoIndex => idx + 1 \in 1 .. Len(seen) /\ req = batch + idx
      /\ idx = NoIndex => req < batch
  BY <1>1, HeadIsFound
<1>3. /\ seen \in Seq(BOOLEAN) /\ DOMAIN seen = 1 .. Len(seen) /\ Len(seen) \in Nat
      /\ inbox \in Seq(Ack) /\ batch \in Nat
  BY <1>1, AckFacts
<1>4. /\ inbox' \in Seq(Ack)
      /\ \A m \in DOMAIN inbox' : inbox'[m] = inbox[m + 1] /\ m + 1 \in DOMAIN inbox /\ m + 1 # 1
      /\ \A m \in DOMAIN inbox : m # 1 => m - 1 \in DOMAIN inbox' /\ inbox[m] = inbox'[m - 1]
  BY <1>1, <1>3, Rest, Zenon
<1>5. 1 \in DOMAIN inbox /\ req \in Nat
  BY <1>1, AckFacts
<1> HIDE DEF idx
<1>6. \A i \in DOMAIN seen : seen[i] <=> \A m \in DOMAIN inbox : inbox[m].request # batch + i - 1
  BY <1>1, Zenon DEF AckInv, AcksFindTheirOps
<1>7. pending = Cardinality({i \in DOMAIN seen : ~seen[i]})
  BY <1>1, Zenon DEF AckInv, AcksFindTheirOps
<1>8. ASSUME NEW x
      PROVE  (\A m \in DOMAIN inbox' : inbox'[m].request # x) <=>
             (\A m \in DOMAIN inbox : inbox[m].request # x) \/ x = req
  <2>1. ASSUME x = req, NEW m \in DOMAIN inbox' PROVE inbox'[m].request # x
    <3>1. inbox'[m] = inbox[m + 1] /\ m + 1 \in DOMAIN inbox /\ m + 1 # 1
      BY <1>4, <2>1
    <3>2. inbox[m + 1].request # inbox[1].request
      BY <1>5, <3>1 DEF AckInv, Distinct
    <3> QED
      BY <2>1, <3>1, <3>2
  <2>2. ASSUME \A m \in DOMAIN inbox' : inbox'[m].request # x, x # req
        PROVE  \A m \in DOMAIN inbox : inbox[m].request # x
    BY <1>4, <2>2, Zenon
  <2>3. ASSUME \A m \in DOMAIN inbox : inbox[m].request # x
        PROVE  \A m \in DOMAIN inbox' : inbox'[m].request # x
    BY <1>4, <2>3, Zenon
  <2> QED
    BY <2>1, <2>2, <2>3
<1>9. /\ seen' \in Seq(BOOLEAN) /\ Len(seen') = Len(seen) /\ DOMAIN seen' = DOMAIN seen
      /\ pending' \in Nat /\ AcksFindTheirOps'
  <2>1. CASE idx = NoIndex
    <3>1. seen' = seen /\ pending' = pending
      BY <1>1, <2>1 DEF mark_status
    <3>2. ASSUME NEW i \in DOMAIN seen PROVE batch + i - 1 # req
      BY <1>2, <1>3, <1>5, <2>1
    <3>3. AcksFindTheirOps'
      <4>1. batch' = batch
        BY <1>1
      <4>2. ASSUME NEW i \in DOMAIN seen
            PROVE  seen[i] <=> \A m \in DOMAIN inbox' : inbox'[m].request # batch + i - 1
        BY <1>6, <1>8, <3>2, <4>2, Zenon
      <4> QED
        BY <1>7, <3>1, <4>1, <4>2, Zenon DEF AcksFindTheirOps
    <3> QED
      BY <1>3, <3>1, <3>3, AckFacts
  <2>2. CASE idx # NoIndex
    <3> DEFINE k == idx + 1
    <3>1. k \in DOMAIN seen /\ req = batch + k - 1
      <4>1. idx + 1 \in 1 .. Len(seen) /\ req = batch + idx
        BY <1>2, <2>2
      <4>2. idx \in Int
        BY <1>2
      <4> QED
        BY <1>3, <4>1, <4>2
    <3> HIDE DEF k
    <3>2. ~seen[k]
      BY <1>5, <1>6, <3>1, Zenon
    <3>3. seen' = [seen EXCEPT ![k] = TRUE] /\ pending' = pending - 1
      BY <1>1, <2>2, <3>2 DEF mark_status, k
    <3>4. /\ seen' \in Seq(BOOLEAN) /\ Len(seen') = Len(seen) /\ DOMAIN seen' = DOMAIN seen
          /\ seen'[k] = TRUE /\ \A i \in DOMAIN seen : i # k => seen'[i] = seen[i]
      BY <1>3, <3>1, <3>3
    <3>5. Cardinality({i \in DOMAIN seen' : ~seen'[i]}) = pending - 1
      <4>1. seen[k] = FALSE
        BY <1>3, <3>1, <3>2
      <4> QED
        BY <1>3, <1>7, <3>1, <3>3, <4>1, OneLess
    <3>6. ASSUME NEW i \in DOMAIN seen
          PROVE  seen'[i] <=> \A m \in DOMAIN inbox' : inbox'[m].request # batch + i - 1
      <4>1. CASE i = k
        BY <1>8, <3>1, <3>4, <4>1, Zenon
      <4>2. CASE i # k
        <5>1. batch + i - 1 # req
          BY <1>3, <3>1, <4>2
        <5>2. seen'[i] = seen[i]
          BY <3>4, <4>2, Zenon
        <5>3. seen[i] <=> \A m \in DOMAIN inbox : inbox[m].request # batch + i - 1
          BY <1>6, Zenon
        <5>4. (\A m \in DOMAIN inbox' : inbox'[m].request # batch + i - 1) <=>
              (\A m \in DOMAIN inbox : inbox[m].request # batch + i - 1)
          BY <1>8, <5>1, Zenon
        <5> QED
          BY <5>2, <5>3, <5>4, Zenon
      <4> QED
        BY <4>1, <4>2
    <3>7. AcksFindTheirOps'
      BY <1>1, <3>3, <3>4, <3>5, <3>6, Zenon DEF AcksFindTheirOps
    <3>8. pending' \in Nat
      <4> DEFINE U == {i \in DOMAIN seen' : ~seen'[i]}
      <4>1. IsFiniteSet(1 .. Len(seen)) /\ DOMAIN seen' = 1 .. Len(seen)
        BY <1>3, <3>4, FS_Interval
      <4>2. IsFiniteSet(U)
        BY <4>1, FS_Subset
      <4>3. Cardinality(U) \in Nat
        BY <4>2, FS_CardinalityType
      <4> QED
        BY <3>3, <3>5, <4>3, Zenon
    <3> QED
      BY <3>4, <3>7, <3>8
  <2> QED
    BY <2>1, <2>2
<1>10. AckTypes'
  <2>1. AckTypes
    BY DEF AckInv
  <2> QED
    BY <1>1, <1>4, <1>9, <2>1, Zenon DEF AckTypes
<1>11. Distinct'
  <2> SUFFICES ASSUME NEW l \in DOMAIN inbox', NEW m \in DOMAIN inbox', l # m
               PROVE  inbox'[l].request # inbox'[m].request
    BY DEF Distinct
  <2>1. l + 1 \in DOMAIN inbox /\ m + 1 \in DOMAIN inbox
        /\ inbox'[l] = inbox[l + 1] /\ inbox'[m] = inbox[m + 1]
    BY <1>4
  <2>2. l + 1 # m + 1
    BY <1>4
  <2> QED
    BY <2>1, <2>2, Zenon DEF AckInv, Distinct
<1>12. Numbered'
  <2>1. Numbered
    BY DEF AckInv
  <2> QED
    BY <1>1, <1>4, <2>1, Zenon DEF Numbered
<1>13. InFlight'
  <2>1. /\ Len(seen) \in 1 .. Span /\ batch + Len(seen) <= requests
        /\ \A m \in DOMAIN inbox : Own(m) \/ Earlier(m)
    BY <1>1, Zenon DEF AckInv, InFlight
  <2>2. ASSUME NEW m \in DOMAIN inbox' PROVE Own(m)' \/ Earlier(m)'
    <3>1. Own(m + 1) \/ Earlier(m + 1)
      BY <1>4, <2>1, <2>2, Zenon
    <3> QED
      BY <1>1, <1>4, <1>9, <2>2, <3>1, Zenon DEF Own, Earlier
  <2> QED
    BY <1>1, <1>9, <2>1, <2>2, Zenon DEF InFlight
<1> QED
  BY <1>9, <1>10, <1>11, <1>12, <1>13, Zenon DEF AckInv

\* Every step keeps the invariant.
LEMMA AckStep == AckInv /\ [AckNext]_ack_vars => AckInv'
<1> SUFFICES ASSUME AckInv, [AckNext]_ack_vars PROVE AckInv'
  OBVIOUS
<1>1. ASSUME NEW n \in 1 .. MaxBatch, start_apply_rules_batch(n) PROVE AckInv'
  <2>1. n \in 1 .. Span
    BY AckAssumption
  <2> QED
    BY <1>1, <2>1, StartStep
<1>2. CASE start_dump
  BY <1>2, DumpStep
<1>3. CASE drain_apply_ack_message
  BY <1>3, DrainStep
<1>4. CASE finish_batch
  BY <1>4, OverStep DEF finish_batch
<1>5. CASE handle_ack_timeout
  BY <1>5, OverStep DEF handle_ack_timeout
<1>6. CASE UNCHANGED ack_vars
  BY <1>6, Zenon DEF ack_vars, AckInv, AckTypes, Distinct, Numbered, InFlight, Own, Earlier,
                     AcksFindTheirOps
<1> QED
  BY <1>1, <1>2, <1>3, <1>4, <1>5, <1>6 DEF AckNext

\* For every width of the counter and every batch size up to it: an operation is
\* marked exactly when its own acknowledgement was read, and the batch waits for
\* exactly the unmarked ones, whatever timed out before and however often the numbers
\* came round (AckTracker, seq_to_batch_index, drain_apply_ack_messages).
THEOREM AcksAreFound == AckSpec => []AcksFindTheirOps
<1>1. AckInv => AcksFindTheirOps
  BY DEF AckInv
<1> QED
  BY <1>1, AckInitHolds, AckStep, PTL DEF AckSpec

-----------------------------------------------------------------------------
(* ResyncApply: the job.                                                    *)

\* While a chunk is filled, and until it is sent, its operations are the ones that
\* were pushed and not sent.
Counted == where = "fill" \/ Unsent => Cardinality(sent) + filled = emitted

\* The job waits for its batch, and the operations of a batch are its requests.
InOrder ==
    /\ sent \subseteq OpKeys(plan) /\ lost \subseteq sent /\ Elements(ops) \subseteq sent \ lost
    /\ where = "fill" \/ Unsent => batch = NoBatch
    /\ batch = NoBatch => ops = <<>>
    /\ ops \in Seq(Key) /\ Increasing(ops)
    /\ ops # <<>> => Len(ops) = Len(seen)
    /\ refusals \subseteq 0 .. requests - 1

\* An operation that was answered was given its own answer.
Answers ==
    batch # NoBatch => \A i \in DOMAIN seen : seen[i] => status[i] = batch + i - 1

\* A key no chunk has named is as it was, in the kernel and in the tracked set.  A key
\* in flight, or of a batch that timed out, is tracked as it was; the kernel has done
\* the operation in flight unless it refused it.  Every other key is tracked as it is.
Untouched(k) == k \in tracked <=> k \in Elements(current)
Books ==
    /\ \A k \in Key \ sent : Untouched(k) /\ (k \in rules <=> k \in Elements(current))
    /\ \A k \in lost \cup Elements(ops) : Untouched(k)
    /\ \A k \in sent \ (lost \cup Elements(ops)) : k \in tracked <=> k \in rules
    /\ \A i \in 1 .. Len(ops) :
          ops[i] \in rules <=> IF batch + i - 1 \in refusals THEN ops[i] \in Elements(current)
                               ELSE plan[ops[i]] = "Add"

Ledger == Counted /\ InOrder /\ Answers /\ Books

ApplyInv == MergeInv /\ NoKeyTwice /\ AckInv /\ Ledger

-----------------------------------------------------------------------------
\* The books are about the kernel, the tracked set, the batch and the plan.
LEMMA BooksKept ==
    ASSUME Books, UNCHANGED <<sent, lost, ops, refusals, rules, tracked, batch, current, plan>>
    PROVE  Books'
<1>1. \A k : Untouched(k)' <=> Untouched(k)
  BY DEF Untouched, Elements
<1>2. Elements(ops') = Elements(ops) /\ Elements(current') = Elements(current)
  BY DEF Elements
<1>3. /\ \A k \in Key \ sent' : Untouched(k)' /\ (k \in rules' <=> k \in Elements(current'))
      /\ \A k \in lost' \cup Elements(ops') : Untouched(k)'
  BY <1>1, <1>2 DEF Books
<1>4. \A k \in sent' \ (lost' \cup Elements(ops')) : k \in tracked' <=> k \in rules'
  BY <1>2 DEF Books
<1>5. \A i \in 1 .. Len(ops') :
         ops'[i] \in rules' <=> IF batch' + i - 1 \in refusals' THEN ops'[i] \in Elements(current')
                                ELSE plan'[ops'[i]] = "Add"
  BY <1>2 DEF Books
<1> QED
  BY <1>3, <1>4, <1>5 DEF Books

\* A sorted list has no element twice.
LEMMA ListSize ==
    ASSUME NEW s \in SortedLists
    PROVE  /\ s \in Seq(Key) /\ Increasing(s) /\ Len(s) = Cardinality(Elements(s))
           /\ \A i, j \in 1 .. Len(s) : s[i] = s[j] => i = j
<1>1. s \in Seq(Key) /\ Increasing(s)
  BY FS_CardinalityType, PlanAssumption DEF SortedLists
<1>2. s \in Seq(Int)
  BY <1>1, PlanAssumption, SeqMonotonic
<1>3. \A i, j \in 1 .. Len(s) : s[i] = s[j] => i = j
  <2> SUFFICES ASSUME NEW i \in 1 .. Len(s), NEW j \in 1 .. Len(s), s[i] = s[j], i < j PROVE FALSE
    BY <1>2
  <2>1. s[i] \in Int /\ s[j] \in Int /\ s[i] < s[j]
    BY <1>1, <1>2 DEF Increasing
  <2> QED
    BY <2>1
<1>4. Len(s) \in Nat /\ s \in [1 .. Len(s) -> Elements(s)]
  BY <1>1 DEF Elements
<1>5. s \in Bijection(1 .. Len(s), Elements(s))
  <2>1. \A e \in Elements(s) : \E i \in 1 .. Len(s) : s[i] = e
    BY DEF Elements
  <2> QED
    BY <1>3, <1>4, <2>1 DEF Bijection, Injection, Surjection, IsInjective
<1>6. Cardinality(1 .. Len(s)) = Len(s) /\ IsFiniteSet(1 .. Len(s))
  BY <1>4, FS_Interval
<1>7. Cardinality(Elements(s)) = Cardinality(1 .. Len(s))
  BY <1>5, <1>6, FS_Bijection DEF ExistsBijection
<1> QED
  BY <1>1, <1>3, <1>6, <1>7

\* The chunk that goes out is not empty and fits a batch.
LEMMA ChunkFits ==
    ASSUME ApplyInv, Unsent, NEW chunk \in SortedLists, Elements(chunk) = OpKeys(plan) \ sent
    PROVE  Len(chunk) \in 1 .. MaxBatch
<1>1. IsFiniteSet(OpKeys(plan)) /\ sent \subseteq OpKeys(plan) /\ sent # OpKeys(plan)
  BY PlanAssumption, FS_Subset DEF OpKeys, ApplyInv, Ledger, InOrder, Unsent
<1>2. OpKeys(plan) \cap sent = sent /\ IsFiniteSet(sent) /\ Cardinality(sent) \in Nat
  BY <1>1, FS_Subset, FS_CardinalityType
<1>3. Cardinality(OpKeys(plan) \ sent) = Cardinality(OpKeys(plan)) - Cardinality(sent)
  BY <1>1, <1>2, FS_Difference
<1>4. /\ Cardinality(sent) + filled = emitted /\ emitted = Cardinality(OpKeys(plan))
      /\ emitted \in Nat /\ filled \in 0 .. max_ops /\ max_ops \in 1 .. MaxOps
  BY DEF ApplyInv, Ledger, Counted, NoKeyTwice, MergeInv, TypeOK
<1>5. Len(chunk) = Cardinality(Elements(chunk)) /\ Len(chunk) \in Nat
  <2>1. chunk \in Seq(Key) /\ Len(chunk) = Cardinality(Elements(chunk))
    BY ListSize
  <2> QED
    BY <2>1
<1>6. Len(chunk) = filled
  BY <1>2, <1>3, <1>4, <1>5
<1>7. Len(chunk) # 0
  <2>1. OpKeys(plan) \ sent # {} /\ IsFiniteSet(OpKeys(plan) \ sent)
    BY <1>1, FS_Difference
  <2> QED
    BY <1>5, <2>1, FS_EmptySet
<1>8. MaxOps \in Nat /\ MaxBatch \in Nat /\ MaxOps <= MaxBatch
  BY PlanAssumption, AckAssumption, ApplyAssumption
<1> QED
  BY <1>4, <1>5, <1>6, <1>7, <1>8

\* Every step is a step of the loop of ResyncPlan or leaves it alone, and a step of the
\* tracker of AckMatch or leaves it alone.
LEMMA StepsOfParts ==
    ASSUME ApplyInv, [ApplyNext]_apply_vars
    PROVE  [Next]_vars /\ [AckNext]_ack_vars
<1>1. CASE fill_resync_chunk
  BY <1>1, Zenon DEF fill_resync_chunk, ack_vars
<1>2. CASE start_maintenance_batch
  <2>1. PICK chunk \in SortedLists : /\ Elements(chunk) = OpKeys(plan) \ sent
                                     /\ start_apply_rules_batch(Len(chunk))
    BY <1>2, Zenon DEF start_maintenance_batch
  <2>2. Len(chunk) \in 1 .. MaxBatch
    BY <1>2, <2>1, ChunkFits, Zenon DEF start_maintenance_batch
  <2> QED
    BY <1>2, <2>1, <2>2, Zenon DEF start_maintenance_batch, AckNext
<1>3. CASE start_pending_batch
  BY <1>3, Zenon DEF start_pending_batch, AckNext
<1>4. CASE dump
  BY <1>4, Zenon DEF dump, AckNext
<1>5. CASE drain_acks
  BY <1>5, Zenon DEF drain_acks, AckNext
<1>6. CASE commit
  BY <1>6, Zenon DEF commit, AckNext
<1>7. CASE timeout
  BY <1>7, Zenon DEF timeout, AckNext
<1>8. CASE UNCHANGED apply_vars
  BY <1>8, Zenon DEF apply_vars
<1> QED
  BY <1>1, <1>2, <1>3, <1>4, <1>5, <1>6, <1>7, <1>8, Zenon DEF ApplyNext

-----------------------------------------------------------------------------
\* fill_resync_chunk names new keys only: what was planned for a key that was sent
\* stays, and the operations that were pushed and not sent are counted.
LEMMA FillStep ==
    ASSUME ApplyInv, fill_resync_chunk
    PROVE  Ledger'
<1>1. /\ batch = NoBatch /\ ~Unsent /\ Next
      /\ UNCHANGED <<ack_vars, sent, ops, status, refusals, rules, tracked, lost>>
  BY DEF fill_resync_chunk
<1>2. UNCHANGED current /\ \A k \in OpKeys(plan) : plan'[k] = plan[k] /\ k \in OpKeys(plan')
  <2>1. CASE AddTarget
    <3>1. plan[target_key] = "None" /\ target_key \in Key
      BY <2>1, Fresh DEF ApplyInv
    <3> QED
      BY <2>1, <3>1 DEF AddTarget, Push, lists, OpKeys, ApplyInv, MergeInv, TypeOK, Batch
  <2>2. CASE DeleteCurrent
    <3>1. plan[current_key] = "None" /\ current_key \in Key
      BY <2>2, Fresh DEF ApplyInv
    <3> QED
      BY <2>2, <3>1 DEF DeleteCurrent, Push, lists, OpKeys, ApplyInv, MergeInv, TypeOK, Batch
  <2>3. CASE NextChunk \/ SkipEqual \/ ReturnChunk
    BY <2>3 DEF NextChunk, SkipEqual, ReturnChunk, lists
  <2> QED
    BY <1>1, <2>1, <2>2, <2>3 DEF Next
<1>3. /\ sent \subseteq OpKeys(plan) /\ ops = <<>> /\ Elements(ops) = {}
  BY <1>1 DEF ApplyInv, Ledger, InOrder, Elements
<1>4. Counted'
  <2>1. emitted = Cardinality(OpKeys(plan)) /\ emitted \in Nat /\ filled \in Nat
    BY DEF ApplyInv, NoKeyTwice, MergeInv, TypeOK
  <2>2. CASE NextChunk
    BY <1>1, <2>1, <2>2 DEF NextChunk, Unsent, Counted
  <2>3. CASE AddTarget \/ DeleteCurrent
    <3>1. where = "fill" /\ emitted' = emitted + 1 /\ filled' = filled + 1 /\ sent' = sent
      BY <1>1, <2>3 DEF AddTarget, DeleteCurrent, Push, Room
    <3>2. Cardinality(sent) + filled = emitted
      BY <3>1 DEF ApplyInv, Ledger, Counted
    <3>3. Cardinality(sent) \in Nat
      BY <1>3, PlanAssumption, FS_Subset, FS_CardinalityType DEF OpKeys
    <3> QED
      BY <2>1, <3>1, <3>2, <3>3 DEF Counted
  <2>4. CASE SkipEqual \/ ReturnChunk
    <3>1. where = "fill" /\ UNCHANGED <<emitted, filled, sent>>
      BY <1>1, <2>4 DEF SkipEqual, ReturnChunk, Room
    <3> QED
      BY <3>1 DEF ApplyInv, Ledger, Counted
  <2> QED
    BY <1>1, <2>2, <2>3, <2>4 DEF Next
<1>5. UNCHANGED <<batch, seen, requests, sent, ops, status, refusals, rules, tracked, lost>>
  BY <1>1 DEF ack_vars
<1>6. InOrder'
  <2>1. sent \subseteq OpKeys(plan')
    BY <1>2, <1>3
  <2> QED
    BY <1>1, <1>5, <2>1 DEF ApplyInv, Ledger, InOrder, Elements
<1>7. Answers'
  BY <1>1, <1>5 DEF Answers
<1>8. Books'
  BY <1>2, <1>3, <1>5 DEF ApplyInv, Ledger, Books, Untouched, Elements
<1> QED
  BY <1>4, <1>6, <1>7, <1>8 DEF Ledger

\* start_maintenance_batch: the operations of the chunk become the batch, and the
\* kernel does the ones it does not refuse.
LEMMA SendStep ==
    ASSUME ApplyInv, start_maintenance_batch
    PROVE  Ledger'
<1> DEFINE Done(chunk, no) == {chunk[i] : i \in DOMAIN chunk \ no}
<1>0. PICK chunk \in SortedLists :
        /\ Elements(chunk) = OpKeys(plan) \ sent
        /\ start_apply_rules_batch(Len(chunk))
        /\ ops' = chunk /\ sent' = OpKeys(plan)
        /\ \E no \in SUBSET DOMAIN chunk :
              /\ refusals' = refusals \cup {requests + i - 1 : i \in no}
              /\ rules' = (rules \cup {k \in Done(chunk, no) : plan[k] = "Add"})
                             \ {k \in Done(chunk, no) : plan[k] = "Delete"}
  BY Zenon DEF start_maintenance_batch
<1>1. PICK no \in SUBSET DOMAIN chunk :
        /\ refusals' = refusals \cup {requests + i - 1 : i \in no}
        /\ rules' = (rules \cup {k \in Done(chunk, no) : plan[k] = "Add"})
                       \ {k \in Done(chunk, no) : plan[k] = "Delete"}
  BY <1>0
<1>2. Unsent /\ UNCHANGED <<vars, tracked, lost>>
  BY DEF start_maintenance_batch
<1>3. UNCHANGED <<current, plan, emitted, filled, where>>
  BY <1>2 DEF vars, lists
<1>4. /\ chunk \in Seq(Key) /\ Increasing(chunk) /\ Len(chunk) \in 1 .. MaxBatch
      /\ DOMAIN chunk = 1 .. Len(chunk)
      /\ \A i, j \in 1 .. Len(chunk) : chunk[i] = chunk[j] => i = j
  <2>1. chunk \in Seq(Key) /\ Increasing(chunk)
        /\ \A i, j \in 1 .. Len(chunk) : chunk[i] = chunk[j] => i = j
    BY ListSize
  <2>2. Len(chunk) \in 1 .. MaxBatch
    BY <1>0, <1>2, ChunkFits
  <2> QED
    BY <2>1, <2>2
<1>5. /\ batch' = requests /\ requests' = requests + Len(chunk) /\ requests \in Nat
      /\ seen' = [i \in 1 .. Len(chunk) |-> FALSE] /\ batch = NoBatch
  BY <1>0, AckFacts DEF start_apply_rules_batch, ApplyInv
<1>6. Counted'
  BY <1>0, <1>2, <1>3 DEF Counted, Unsent
<1>7. /\ sent \subseteq OpKeys(plan) /\ lost \subseteq sent /\ OpKeys(plan) \subseteq Key
      /\ ops = <<>> /\ Elements(ops) = {} /\ refusals \subseteq 0 .. requests - 1
  BY <1>5 DEF ApplyInv, Ledger, InOrder, OpKeys, Elements
<1>8. InOrder'
  <2>1. Len(seen') = Len(chunk)
    BY <1>4, <1>5
  <2>2. refusals' \subseteq 0 .. requests' - 1
    <3>1. \A i \in no : requests + i - 1 \in 0 .. requests + Len(chunk) - 1
      BY <1>4, <1>5
    <3>2. \A r \in refusals : r \in 0 .. requests + Len(chunk) - 1
      BY <1>4, <1>5, <1>7
    <3> QED
      BY <1>1, <1>5, <3>1, <3>2
  <2>3. /\ sent' \subseteq OpKeys(plan') /\ lost' \subseteq sent'
        /\ Elements(ops') \subseteq sent' \ lost'
    BY <1>0, <1>2, <1>3, <1>7
  <2>4. where' # "fill" /\ ~Unsent' /\ batch' # NoBatch
    BY <1>0, <1>2, <1>3, <1>5 DEF Unsent, NoBatch
  <2>5. ops' \in Seq(Key) /\ Increasing(ops') /\ Len(ops') = Len(seen')
    BY <1>0, <1>4, <2>1
  <2> QED
    BY <2>2, <2>3, <2>4, <2>5, Zenon DEF InOrder, Elements, Increasing, OpKeys
<1>9. Answers'
  BY <1>5, Zenon DEF Answers
<1>10. Books'
  <2>1. \A k \in Key \ sent : Untouched(k) /\ (k \in rules <=> k \in Elements(current))
    BY DEF ApplyInv, Ledger, Books
  <2>2. \A k \in Key : k \notin Elements(chunk) => (k \in rules' <=> k \in rules)
    BY <1>1, <1>4 DEF Elements
  <2>3. \A i \in 1 .. Len(chunk) : requests + i - 1 \in refusals' <=> i \in no
    <3> SUFFICES ASSUME NEW i \in 1 .. Len(chunk) PROVE requests + i - 1 \in refusals' <=> i \in no
      OBVIOUS
    <3>1. requests + i - 1 \notin refusals
      BY <1>4, <1>5, <1>7
    <3>2. requests + i - 1 \in {requests + j - 1 : j \in no} <=> i \in no
      BY <1>4, <1>5
    <3> QED
      BY <1>1, <3>1, <3>2, Zenon
  <2>4. \A i \in 1 .. Len(chunk) :
           chunk[i] \in rules' <=> IF i \in no THEN chunk[i] \in Elements(current)
                                   ELSE plan[chunk[i]] = "Add"
    <3> SUFFICES ASSUME NEW i \in 1 .. Len(chunk)
                 PROVE  chunk[i] \in rules' <=> IF i \in no THEN chunk[i] \in Elements(current)
                                                ELSE plan[chunk[i]] = "Add"
      OBVIOUS
    <3>1. chunk[i] \in OpKeys(plan) \ sent
      BY <1>0 DEF Elements
    <3>2. plan[chunk[i]] \in {"Add", "Delete"} /\ (chunk[i] \in rules <=> chunk[i] \in Elements(current))
      BY <3>1, <2>1, <1>7 DEF OpKeys, ApplyInv, MergeInv, TypeOK, Batch, Action
    <3>3. chunk[i] \in {chunk[j] : j \in DOMAIN chunk \ no} <=> i \notin no
      BY <1>4
    <3> QED
      BY <1>1, <3>2, <3>3
  <2>5. \A i \in 1 .. Len(ops') :
          ops'[i] \in rules' <=> IF batch' + i - 1 \in refusals' THEN ops'[i] \in Elements(current')
                                 ELSE plan'[ops'[i]] = "Add"
    BY <1>0, <1>3, <1>5, <2>3, <2>4
  <2>6. \A k \in lost : Untouched(k)
    BY DEF ApplyInv, Ledger, Books
  <2>7. \A k \in sent \ lost : k \in tracked <=> k \in rules
    BY <1>7 DEF ApplyInv, Ledger, Books
  <2>8. tracked' = tracked /\ lost' = lost /\ \A k : Untouched(k)' <=> Untouched(k)
    BY <1>2, <1>3 DEF Untouched, Elements
  <2>9. /\ \A k \in Key \ sent' : Untouched(k)' /\ (k \in rules' <=> k \in Elements(current'))
        /\ \A k \in lost' \cup Elements(ops') : Untouched(k)'
        /\ \A k \in sent' \ (lost' \cup Elements(ops')) : k \in tracked' <=> k \in rules'
    BY <1>0, <1>3, <1>7, <2>1, <2>2, <2>6, <2>7, <2>8
  <2> QED
    BY <2>5, <2>9 DEF Books
<1> QED
  BY <1>6, <1>8, <1>9, <1>10 DEF Ledger

\* Steps that leave the job alone.
LEMMA JobKept ==
    ASSUME ApplyInv, UNCHANGED <<vars, sent>>
    PROVE  /\ UNCHANGED <<current, plan>> /\ Counted'
           /\ (Unsent' <=> Unsent) /\ (where' = "fill" <=> where = "fill")
<1>1. UNCHANGED <<current, plan, emitted, filled, where>>
  BY DEF vars, lists
<1> QED
  BY <1>1 DEF ApplyInv, Ledger, Counted, Unsent

\* start_pending_batch: a batch of other keys has requests and refusals of its own.
LEMMA PendingStep ==
    ASSUME ApplyInv, start_pending_batch
    PROVE  Ledger'
<1>1. PICK n \in 1 .. MaxBatch : /\ start_apply_rules_batch(n)
                                 /\ \E no \in SUBSET {requests} : refusals' = refusals \cup no
  BY Zenon DEF start_pending_batch
<1>2. /\ where = "job" /\ ~Unsent /\ ops' = <<>>
      /\ UNCHANGED <<vars, sent, rules, tracked, lost>>
  BY DEF start_pending_batch
<1>3. UNCHANGED <<current, plan>> /\ Counted' /\ ~Unsent' /\ where' # "fill"
  BY <1>2, JobKept
<1>4. /\ batch' = requests /\ requests' = requests + n /\ requests \in Nat
      /\ seen' = [i \in 1 .. n |-> FALSE] /\ batch = NoBatch
  BY <1>1, AckFacts DEF start_apply_rules_batch, ApplyInv
<1>5. /\ sent \subseteq OpKeys(plan) /\ lost \subseteq sent
      /\ ops = <<>> /\ refusals \subseteq 0 .. requests - 1
  BY <1>4 DEF ApplyInv, Ledger, InOrder
<1>6. Elements(ops) = {} /\ Elements(ops') = {} /\ ops' = ops
  BY <1>2, <1>5 DEF Elements
<1>7. InOrder'
  <2>1. refusals' \subseteq 0 .. requests' - 1
    <3>1. \A r \in refusals \cup {requests} : r \in 0 .. requests + n - 1
      BY <1>4, <1>5
    <3>2. refusals' \subseteq refusals \cup {requests}
      BY <1>1, Zenon
    <3> QED
      BY <1>4, <3>1, <3>2
  <2>2. batch' # NoBatch
    BY <1>4 DEF NoBatch
  <2>3. ops' \in Seq(Key) /\ Increasing(ops')
    BY <1>6 DEF ApplyInv, Ledger, InOrder
  <2> QED
    BY <1>2, <1>3, <1>5, <1>6, <2>1, <2>2, <2>3 DEF InOrder
<1>8. Answers'
  BY <1>4, Zenon DEF Answers
<1>9. Books'
  <2>1. Books
    BY DEF ApplyInv, Ledger
  <2>2. /\ UNCHANGED <<sent, rules, tracked, lost, current>>
        /\ Elements(current)' = Elements(current) /\ Elements(ops)' = {}
    BY <1>2, <1>3, <1>6 DEF Elements
  <2>3. \A k : Untouched(k)' <=> Untouched(k)
    BY <2>2 DEF Untouched
  <2>4. ~\E i : i \in 1 .. Len(ops')
    BY <1>5, <1>6
  <2>5. \A i \in 1 .. Len(ops') : FALSE
    BY <2>4
  <2> QED
    BY <1>6, <2>1, <2>2, <2>3, <2>5 DEF Books
<1> QED
  BY <1>3, <1>7, <1>8, <1>9 DEF Ledger

\* A dump uses a number and nothing else.
LEMMA DumpLedger ==
    ASSUME ApplyInv, dump
    PROVE  Ledger'
<1>1. /\ UNCHANGED <<vars, sent, ops, status, refusals, rules, tracked, lost>> /\ batch = NoBatch
      /\ UNCHANGED <<seen, batch>> /\ requests' = requests + 1
  BY DEF dump, start_dump
<1>2. UNCHANGED <<current, plan>> /\ Counted' /\ (Unsent' <=> Unsent) /\ (where' = "fill" <=> where = "fill")
  BY <1>1, JobKept
<1>3. InOrder'
  <2>1. requests \in Nat /\ refusals \subseteq 0 .. requests - 1
    BY AckFacts DEF ApplyInv, Ledger, InOrder
  <2>2. refusals' \subseteq 0 .. requests' - 1
    BY <1>1, <2>1
  <2> QED
    BY <1>1, <1>2, <2>2 DEF ApplyInv, Ledger, InOrder, Elements
<1>4. Answers'
  BY <1>1, Zenon DEF Answers
<1>5. Books'
  BY <1>1, <1>2 DEF ApplyInv, Ledger, Books, Untouched, Elements
<1> QED
  BY <1>2, <1>3, <1>4, <1>5 DEF Ledger

\* drain_apply_ack_messages gives a status to the operation the message answers.
LEMMA DrainLedger ==
    ASSUME ApplyInv, drain_acks
    PROVE  Ledger'
<1> DEFINE idx == seq_to_batch_index(inbox[1].seq, first_seq, Len(seen))
           req == inbox[1].request
<1>1. /\ drain_apply_ack_message
      /\ status' = [i \in DOMAIN seen |-> IF seen'[i] # seen[i] THEN req ELSE status[i]]
      /\ UNCHANGED <<vars, sent, ops, refusals, rules, tracked, lost>>
  BY DEF drain_acks
<1>2. batch # NoBatch /\ inbox # <<>> /\ UNCHANGED <<requests, batch>> /\ mark_status(idx)
  BY <1>1 DEF drain_apply_ack_message
<1>3. /\ idx \in Int
      /\ idx # NoIndex => idx + 1 \in 1 .. Len(seen) /\ req = batch + idx
  BY <1>2, HeadIsFound DEF ApplyInv
<1>4. /\ seen \in Seq(BOOLEAN) /\ DOMAIN seen = 1 .. Len(seen) /\ Len(seen) \in Nat /\ batch \in Nat
  BY <1>2, AckFacts DEF ApplyInv
<1> HIDE DEF idx, req
<1>5. \/ seen' = seen
      \/ idx # NoIndex /\ seen' = [seen EXCEPT ![idx + 1] = TRUE]
  BY <1>2, Zenon DEF mark_status
<1>6. DOMAIN seen' = DOMAIN seen /\ Len(seen') = Len(seen)
  <2>1. DOMAIN seen' = DOMAIN seen /\ seen' \in Seq(BOOLEAN)
    <3>1. CASE seen' = seen
      BY <1>4, <3>1
    <3>2. CASE idx # NoIndex /\ seen' = [seen EXCEPT ![idx + 1] = TRUE]
      BY <1>3, <1>4, <3>2
    <3> QED
      BY <1>5, <3>1, <3>2
  <2> QED
    BY <1>4, <2>1
<1>7. UNCHANGED <<current, plan>> /\ Counted' /\ (Unsent' <=> Unsent) /\ (where' = "fill" <=> where = "fill")
  BY <1>1, JobKept
<1>8. InOrder'
  BY <1>1, <1>2, <1>6, <1>7 DEF ApplyInv, Ledger, InOrder, Elements
<1>9. Answers'
  <2> SUFFICES ASSUME NEW i \in DOMAIN seen, seen'[i] PROVE status'[i] = batch + i - 1
    BY <1>2, <1>6, Zenon DEF Answers
  <2>1. CASE seen'[i] = seen[i]
    <3>1. seen[i] /\ status'[i] = status[i]
      BY <1>1, <2>1, Zenon
    <3> QED
      BY <1>2, <3>1, Zenon DEF ApplyInv, Ledger, Answers
  <2>2. CASE seen'[i] # seen[i]
    <3>1. idx # NoIndex /\ i = idx + 1
      BY <1>4, <1>5, <2>2, Zenon
    <3>2. status'[i] = req
      BY <1>1, <2>2, Zenon
    <3>3. req = batch + i - 1
      BY <1>3, <1>4, <3>1
    <3> QED
      BY <3>2, <3>3, Zenon
  <2> QED
    BY <2>1, <2>2, Zenon
<1>10. Books'
  BY <1>1, <1>2, <1>7, BooksKept DEF ApplyInv, Ledger
<1> QED
  BY <1>7, <1>8, <1>9, <1>10 DEF Ledger

\* commit_ack_outcomes: with nothing pending every operation has its own status, so what
\* is committed is what the kernel did.
LEMMA CommitLedger ==
    ASSUME ApplyInv, commit
    PROVE  Ledger'
<1> DEFINE good == {ops[i] : i \in {j \in DOMAIN ops : status[j] \notin refusals}}
<1>1. /\ finish_batch
      /\ tracked' = (tracked \cup {k \in good : plan[k] = "Add"}) \ {k \in good : plan[k] = "Delete"}
      /\ ops' = <<>> /\ UNCHANGED <<vars, sent, status, refusals, rules, lost>>
  BY Zenon DEF commit
<1>2. batch # NoBatch /\ pending = 0 /\ batch' = NoBatch /\ UNCHANGED <<seen, requests>>
  BY <1>1 DEF finish_batch
<1>3. UNCHANGED <<current, plan>> /\ Counted' /\ (Unsent' <=> Unsent) /\ (where' = "fill" <=> where = "fill")
  BY <1>1, JobKept
<1>4. /\ sent \subseteq OpKeys(plan) /\ lost \subseteq sent /\ Elements(ops) \subseteq sent \ lost
      /\ ops \in Seq(Key) /\ DOMAIN ops = 1 .. Len(ops) /\ (ops # <<>> => Len(ops) = Len(seen))
      /\ refusals \subseteq 0 .. requests - 1
  BY DEF ApplyInv, Ledger, InOrder
<1>5. Elements(ops') = {}
  BY <1>1 DEF Elements
<1>6. InOrder'
  BY <1>1, <1>2, <1>3, <1>4, <1>5 DEF InOrder, Increasing
<1>7. Answers'
  BY <1>2, Zenon DEF Answers
<1>8. \A i \in 1 .. Len(ops) : status[i] = batch + i - 1
  <2>1. seen \in Seq(BOOLEAN) /\ DOMAIN seen = 1 .. Len(seen)
    BY AckFacts DEF ApplyInv
  <2>2. Cardinality({i \in DOMAIN seen : ~seen[i]}) = 0
    BY <1>2, Zenon DEF ApplyInv, AckInv, AcksFindTheirOps
  <2>3. IsFiniteSet({i \in DOMAIN seen : ~seen[i]})
    <3>1. IsFiniteSet(1 .. Len(seen))
      BY <2>1, FS_Interval
    <3> QED
      BY <2>1, <3>1, FS_Subset
  <2>4. {i \in DOMAIN seen : ~seen[i]} = {}
    BY <2>2, <2>3, FS_EmptySet
  <2>5. \A i \in DOMAIN seen : seen[i]
    BY <2>4, Zenon
  <2>6. \A i \in DOMAIN seen : status[i] = batch + i - 1
    BY <1>2, <2>5, Zenon DEF ApplyInv, Ledger, Answers
  <2>7. \A i \in 1 .. Len(ops) : i \in DOMAIN seen
    <3>1. CASE ops = <<>>
      <4>1. Len(ops) = 0
        BY <3>1
      <4> QED
        BY <4>1
    <3>2. CASE ops # <<>>
      <4>1. Len(ops) = Len(seen)
        BY <1>4, <3>2
      <4> QED
        BY <2>1, <4>1, Zenon
    <3> QED
      BY <3>1, <3>2
  <2> QED
    BY <2>6, <2>7, Zenon
<1>9. \A i \in 1 .. Len(ops) : ops[i] \in good <=> batch + i - 1 \notin refusals
  <2> SUFFICES ASSUME NEW i \in 1 .. Len(ops) PROVE ops[i] \in good <=> batch + i - 1 \notin refusals
    OBVIOUS
  <2>1. \A j \in 1 .. Len(ops) : ops[j] = ops[i] => j = i
    <3> SUFFICES ASSUME NEW j \in 1 .. Len(ops), j # i PROVE ops[j] # ops[i]
      OBVIOUS
    <3>1. ops[i] \in Int /\ ops[j] \in Int
      <4>1. ops \in Seq(Int)
        BY <1>4, PlanAssumption, SeqMonotonic
      <4> QED
        BY <4>1
    <3>2. Increasing(ops)
      BY DEF ApplyInv, Ledger, InOrder
    <3>3. ops[i] < ops[j] \/ ops[j] < ops[i]
      BY <1>4, <3>2 DEF Increasing
    <3> QED
      BY <3>1, <3>3
  <2> QED
    BY <1>4, <1>8, <2>1
<1>10. Books'
  <2>1. \A k \in Elements(ops) : k \in tracked' <=> k \in rules
    <3> SUFFICES ASSUME NEW i \in 1 .. Len(ops) PROVE ops[i] \in tracked' <=> ops[i] \in rules
      BY DEF Elements
    <3>1. ops[i] \in Elements(ops) /\ ops[i] \in OpKeys(plan)
      BY <1>4 DEF Elements
    <3>2. plan[ops[i]] \in {"Add", "Delete"}
      BY <3>1 DEF OpKeys, ApplyInv, MergeInv, TypeOK, Batch, Action
    <3>3. /\ ops[i] \in tracked <=> ops[i] \in Elements(current)
          /\ ops[i] \in rules <=> IF batch + i - 1 \in refusals THEN ops[i] \in Elements(current)
                                  ELSE plan[ops[i]] = "Add"
      BY <3>1 DEF ApplyInv, Ledger, Books, Untouched
    <3> QED
      BY <1>1, <1>9, <3>2, <3>3
  <2>2. \A k : k \notin Elements(ops) => (k \in tracked' <=> k \in tracked)
    BY <1>1, <1>4 DEF Elements
  <2>3. /\ \A k \in Key \ sent : Untouched(k) /\ (k \in rules <=> k \in Elements(current))
        /\ \A k \in lost : Untouched(k)
        /\ \A k \in sent \ (lost \cup Elements(ops)) : k \in tracked <=> k \in rules
    BY DEF ApplyInv, Ledger, Books
  <2>4. \A k : k \notin Elements(ops) => (Untouched(k)' <=> Untouched(k))
    BY <1>3, <2>2 DEF Untouched, Elements
  <2>5. /\ \A k \in Key \ sent' : Untouched(k)' /\ (k \in rules' <=> k \in Elements(current'))
        /\ \A k \in lost' \cup Elements(ops') : Untouched(k)'
        /\ \A k \in sent' \ (lost' \cup Elements(ops')) : k \in tracked' <=> k \in rules'
    BY <1>1, <1>3, <1>4, <1>5, <2>1, <2>2, <2>3, <2>4
  <2>6. Len(ops') = 0
    BY <1>1
  <2> QED
    BY <2>5, <2>6 DEF Books
<1> QED
  BY <1>3, <1>6, <1>7, <1>10 DEF Ledger

\* handle_ack_timeout commits nothing.
LEMMA TimeoutLedger ==
    ASSUME ApplyInv, timeout
    PROVE  Ledger'
<1>1. /\ batch' = NoBatch /\ UNCHANGED <<seen, requests>>
      /\ ops' = <<>> /\ lost' = lost \cup Elements(ops)
      /\ UNCHANGED <<vars, sent, status, refusals, rules, tracked>>
  BY DEF timeout, handle_ack_timeout
<1>2. UNCHANGED <<current, plan>> /\ Counted' /\ (Unsent' <=> Unsent) /\ (where' = "fill" <=> where = "fill")
  BY <1>1, JobKept
<1>3. Elements(ops') = {}
  BY <1>1 DEF Elements
<1>4. InOrder'
  BY <1>1, <1>2, <1>3 DEF ApplyInv, Ledger, InOrder, Increasing
<1>5. Answers'
  BY <1>1, Zenon DEF Answers
<1>6. Books'
  <2>1. Len(ops') = 0
    BY <1>1
  <2>2. \A k : Untouched(k)' <=> Untouched(k)
    BY <1>1, <1>2 DEF Untouched, Elements
  <2>3. /\ \A k \in Key \ sent : Untouched(k) /\ (k \in rules <=> k \in Elements(current))
        /\ \A k \in lost \cup Elements(ops) : Untouched(k)
        /\ \A k \in sent \ (lost \cup Elements(ops)) : k \in tracked <=> k \in rules
    BY DEF ApplyInv, Ledger, Books
  <2>4. \A k \in Key \ sent' : Untouched(k)' /\ (k \in rules' <=> k \in Elements(current'))
    BY <1>1, <1>2, <2>2, <2>3
  <2>5. \A k \in lost' \cup Elements(ops') : Untouched(k)'
    BY <1>1, <1>3, <2>2, <2>3
  <2>6. \A k \in sent' \ (lost' \cup Elements(ops')) : k \in tracked' <=> k \in rules'
    BY <1>1, <1>3, <2>3
  <2> QED
    BY <2>1, <2>4, <2>5, <2>6 DEF Books
<1> QED
  BY <1>2, <1>4, <1>5, <1>6 DEF Ledger

-----------------------------------------------------------------------------
\* The invariant holds at the start of the job.
LEMMA ApplyInitHolds == ApplyInit => ApplyInv
<1> SUFFICES ASSUME ApplyInit PROVE ApplyInv
  OBVIOUS
<1>1. MergeInv /\ AckInv
  BY MergeInit, AckInitHolds DEF ApplyInit
<1>2. OpKeys(plan) = {} /\ Elements(ops) = {} /\ Len(ops) = 0
  BY DEF ApplyInit, Init, NoOps, OpKeys, Elements
<1>3. NoKeyTwice
  BY <1>2, FS_EmptySet DEF ApplyInit, Init, NoKeyTwice
<1>4. Counted
  BY <1>2 DEF ApplyInit, Init, Counted, Unsent
<1>5. InOrder
  BY <1>2 DEF ApplyInit, Init, AckInit, InOrder, Unsent, Increasing
<1>6. Answers
  BY DEF ApplyInit, AckInit, Answers
<1>7. Books
  BY <1>2 DEF ApplyInit, Books, Untouched
<1> QED
  BY <1>1, <1>3, <1>4, <1>5, <1>6, <1>7 DEF ApplyInv, Ledger

\* The invariant is inductive.
LEMMA ApplyStep == ApplyInv /\ [ApplyNext]_apply_vars => ApplyInv'
<1> SUFFICES ASSUME ApplyInv, [ApplyNext]_apply_vars PROVE ApplyInv'
  OBVIOUS
<1>1. MergeInv' /\ NoKeyTwice' /\ AckInv'
  BY StepsOfParts, PlanStep, AckStep, Zenon DEF ApplyInv
<1>2. Ledger'
  <2>1. CASE UNCHANGED apply_vars
    <3>1. UNCHANGED <<vars, sent, ops, status, refusals, rules, tracked, lost, batch, seen, requests>>
      BY <2>1 DEF apply_vars, ack_vars
    <3>2. UNCHANGED <<current, plan>> /\ Counted' /\ (Unsent' <=> Unsent) /\ (where' = "fill" <=> where = "fill")
      BY <3>1, JobKept
    <3>3. InOrder' /\ Books'
      <4>1. InOrder'
        BY <3>1, <3>2 DEF ApplyInv, Ledger, InOrder, Elements
      <4>2. Books'
        BY <3>1, <3>2, BooksKept DEF ApplyInv, Ledger
      <4> QED
        BY <4>1, <4>2
    <3>4. Answers'
      BY <3>1, Zenon DEF ApplyInv, Ledger, Answers
    <3> QED
      BY <3>2, <3>3, <3>4 DEF Ledger
  <2> QED
    BY <2>1, FillStep, SendStep, PendingStep, DumpLedger, DrainLedger, CommitLedger,
       TimeoutLedger, Zenon DEF ApplyNext
<1> QED
  BY <1>1, <1>2 DEF ApplyInv

\* The job runs the loop of ResyncPlan and the tracker of AckMatch: batches of the
\* event path, dumps, refusals and timeouts in between change neither.
THEOREM JobRunsItsParts == ApplySpec => Spec /\ AckSpec
<1>1. ApplyInit => ApplyInv /\ Init /\ AckInit
  BY ApplyInitHolds DEF ApplyInit
<1>2. ApplyInv /\ [ApplyNext]_apply_vars => ApplyInv' /\ [Next]_vars /\ [AckNext]_ack_vars
  BY ApplyStep, StepsOfParts
<1> QED
  BY <1>1, <1>2, PTL DEF ApplySpec, Spec, AckSpec

\* So the plan of the job is the difference of the two sets, and no key is in two of
\* its batches.
THEOREM JobPlanIsCorrect == ApplySpec => [](PlanIsDifference /\ NoKeyTwice)
BY JobRunsItsParts, PlanIsCorrect, KeysAreDistinct, PTL

\* And in the job every acknowledgement finds the operation it is about.
THEOREM JobAcksAreFound == ApplySpec => []AcksFindTheirOps
BY JobRunsItsParts, AcksAreFound, PTL

\* Between its batches the tracked set has a key exactly if the kernel has the rule,
\* other than for the keys of batches that timed out, and for those it is as it was
\* before: for any lists, any chunks, any refusals and any late acknowledgements.
THEOREM TrackedHolds == ApplySpec => []TrackedIsTrue
<1>1. ApplyInit => ApplyInv
  BY ApplyInitHolds
<1>2. ApplyInv /\ [ApplyNext]_apply_vars => ApplyInv'
  BY ApplyStep
<1>3. ApplyInv => TrackedIsTrue
  <2> SUFFICES ASSUME ApplyInv, batch = NoBatch, NEW k \in Key
               PROVE  k \in tracked <=> k \in IF k \in lost THEN Elements(current) ELSE rules
    BY DEF TrackedIsTrue
  <2>1. ops = <<>> /\ lost \subseteq sent
    BY DEF ApplyInv, Ledger, InOrder
  <2>2. Elements(ops) = {}
    BY <2>1 DEF Elements
  <2> QED
    BY <2>1, <2>2 DEF ApplyInv, Ledger, Books, Untouched
<1> QED
  BY <1>1, <1>2, <1>3, PTL DEF ApplySpec
=============================================================================
