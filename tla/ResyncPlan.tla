----------------------------- MODULE ResyncPlan -----------------------------
(***************************************************************************)
(* fill_resync_chunk, called by the ResyncApply job until it returns an    *)
(* empty chunk: a merge of the sorted snapshot with the sorted tracked     *)
(* set, resumed at two cursors, with a chunk size that the operation       *)
(* budget changes from call to call.  AddrSync uses what it computes as    *)
(* resync_ops; here that is checked and proved of the two-cursor loop.     *)
(***************************************************************************)
EXTENDS RuleBatch, Sequences, FiniteSets

CONSTANT MaxOps     \* the largest chunk (opts.batch_max)

\* Keys are ordered as IpKey is.
ASSUME PlanAssumption == Key \subseteq Int /\ IsFiniteSet(Key) /\ MaxOps \in Nat \ {0}

VARIABLES
    target, current,            \* the sorted, deduplicated lists
    target_idx, current_idx,    \* elements of each that are done
    plan,                       \* the operations of all chunks so far
    emitted,                    \* how many there were
    filled, max_ops,            \* out.len() and the size asked for in this call
    where                       \* "job": between calls; "fill": in the loops

lists == <<target, current>>
vars  == <<lists, target_idx, current_idx, plan, emitted, filled, max_ops, where>>

Increasing(s) == \A i, j \in 1 .. Len(s) : i < j => s[i] < s[j]
SortedLists   == {s \in UNION {[1 .. n -> Key] : n \in 0 .. Cardinality(Key)} : Increasing(s)}
Elements(s)   == {s[i] : i \in 1 .. Len(s)}

Init ==
    /\ target \in SortedLists /\ current \in SortedLists
    /\ target_idx = 0 /\ current_idx = 0
    /\ plan = NoOps
    /\ emitted = 0
    /\ filled = 0 /\ max_ops = 1
    /\ where = "job"

-----------------------------------------------------------------------------
\* The job asks for the next chunk; the size is at least one.
NextChunk ==
    /\ where = "job"
    /\ max_ops' \in 1 .. MaxOps
    /\ filled' = 0
    /\ where' = "fill"
    /\ UNCHANGED <<lists, target_idx, current_idx, plan, emitted>>

Room        == where = "fill" /\ filled < max_ops
TargetLeft  == target_idx < Len(target)
CurrentLeft == current_idx < Len(current)
target_key  == target[target_idx + 1]
current_key == current[current_idx + 1]

Push(k, action) ==
    /\ plan' = [plan EXCEPT ![k] = action]
    /\ emitted' = emitted + 1
    /\ filled' = filled + 1

\* Mutant: a full chunk is left before the cursor moves.
AddTargetAgain ==
    /\ Room
    /\ TargetLeft
    /\ CurrentLeft => target_key < current_key
    /\ Push(target_key, "Add")
    /\ target_idx' = IF filled' = max_ops THEN target_idx ELSE target_idx + 1
    /\ UNCHANGED <<lists, current_idx, max_ops, where>>

\* The first loop, target_key < current_key, and the second loop.
AddTarget ==
    /\ Room
    /\ TargetLeft
    /\ CurrentLeft => target_key < current_key
    /\ Push(target_key, "Add")
    /\ target_idx' = target_idx + 1
    /\ UNCHANGED <<lists, current_idx, max_ops, where>>

\* The first loop, target_key > current_key, and the third loop.
DeleteCurrent ==
    /\ Room
    /\ CurrentLeft
    /\ TargetLeft => target_key > current_key
    /\ Push(current_key, "Delete")
    /\ current_idx' = current_idx + 1
    /\ UNCHANGED <<lists, target_idx, max_ops, where>>

SkipEqual ==
    /\ Room
    /\ TargetLeft /\ CurrentLeft
    /\ target_key = current_key
    /\ target_idx' = target_idx + 1
    /\ current_idx' = current_idx + 1
    /\ UNCHANGED <<lists, plan, emitted, filled, max_ops, where>>

\* Mutant: an unfilled chunk is taken for the last one.
StopOnShortChunk ==
    /\ where = "fill"
    /\ filled = max_ops \/ ~(TargetLeft \/ CurrentLeft)
    /\ where' = IF filled <= 1 THEN "done" ELSE "job"
    /\ UNCHANGED <<lists, target_idx, current_idx, plan, emitted, filled, max_ops>>

\* The chunk is returned; the job takes an empty one as the end of the plan.
ReturnChunk ==
    /\ where = "fill"
    /\ filled = max_ops \/ ~(TargetLeft \/ CurrentLeft)
    /\ where' = IF filled = 0 THEN "done" ELSE "job"
    /\ UNCHANGED <<lists, target_idx, current_idx, plan, emitted, filled, max_ops>>

Next == NextChunk \/ AddTarget \/ DeleteCurrent \/ SkipEqual \/ ReturnChunk

Spec == Init /\ [][Next]_vars

-----------------------------------------------------------------------------
\* The lists stay sorted, the cursors stay inside them and no chunk grows past
\* the size that was asked for (the loop conditions of fill_resync_chunk).
TypeOK ==
    /\ target \in Seq(Key) /\ Increasing(target)
    /\ current \in Seq(Key) /\ Increasing(current)
    /\ target_idx \in 0 .. Len(target) /\ current_idx \in 0 .. Len(current)
    /\ plan \in Batch
    /\ emitted \in Nat
    /\ max_ops \in 1 .. MaxOps /\ filled \in 0 .. max_ops
    /\ where \in {"job", "fill", "done"}

\* The chunks together are the plan AddrSync works with: when the job sees an
\* empty chunk nothing is missing and nothing wrong was sent, wherever the
\* budget cut the chunks (fill_resync_chunk, ResyncApply's chunk.is_empty()).
PlanIsDifference == where = "done" => plan = resync_ops(Elements(current), Elements(target))

\* No key is sent twice, within a chunk or across chunks: every operation of
\* every chunk is about a key of its own (the cursors of fill_resync_chunk).
NoKeyTwice == emitted = Cardinality(OpKeys(plan))
=============================================================================
