---------------------------- MODULE ResyncApply -----------------------------
(***************************************************************************)
(* The ResyncApply job from its plan to the tracked set: the chunks of     *)
(* ResyncPlan are sent as batches, and AckMatch finds the operation that   *)
(* each acknowledgement is about.  Between the chunks the loop sends       *)
(* batches of its own for other keys, and dumps; a batch may time out, and *)
(* its acknowledgements are then read by the batch after it.               *)
(***************************************************************************)
EXTENDS ResyncPlan, AckMatch

ASSUME ApplyAssumption == MaxOps <= MaxBatch

VARIABLES
    sent,       \* the keys of the chunks that were sent
    ops,        \* the operations in flight; empty for a batch of other keys
    status,     \* AckTracker: the request whose answer each operation was given
    refusals,   \* kernel: the requests it has refused
    rules,      \* kernel
    tracked,    \* owned_ips
    lost        \* history: the keys of batches that timed out

apply_vars == <<vars, ack_vars, sent, ops, status, refusals, rules, tracked, lost>>

ApplyInit ==
    /\ Init /\ AckInit
    /\ sent = {} /\ ops = <<>> /\ status = <<>> /\ refusals = {} /\ lost = {}
    /\ rules = Elements(current) /\ tracked = Elements(current)

-----------------------------------------------------------------------------
\* A chunk was filled and goes out in the same turn of the job.
Unsent == where = "job" /\ OpKeys(plan) # sent

\* The job fills a chunk, unless it waits for a batch.
fill_resync_chunk ==
    /\ batch = NoBatch /\ ~Unsent
    /\ Next
    /\ UNCHANGED <<ack_vars, sent, ops, status, refusals, rules, tracked, lost>>

\* The chunk has the operations that were pushed, in the order of their keys.
start_maintenance_batch ==
    /\ Unsent
    /\ \E chunk \in SortedLists :
          /\ Elements(chunk) = OpKeys(plan) \ sent
          /\ start_apply_rules_batch(Len(chunk))
          /\ ops' = chunk /\ sent' = OpKeys(plan)
          /\ status' = [i \in DOMAIN chunk |-> NoIndex]
          /\ \E no \in SUBSET DOMAIN chunk :
                LET done == {chunk[i] : i \in DOMAIN chunk \ no}
                IN /\ refusals' = refusals \cup {requests + i - 1 : i \in no}
                   /\ rules' = (rules \cup {k \in done : plan[k] = "Add"})
                                  \ {k \in done : plan[k] = "Delete"}
    /\ UNCHANGED <<vars, tracked, lost>>

\* A batch of the event path, about keys that are not looked at here.
start_pending_batch ==
    /\ where = "job" /\ ~Unsent
    /\ \E n \in 1 .. MaxBatch :
          /\ start_apply_rules_batch(n)
          /\ status' = [i \in 1 .. n |-> NoIndex]
          /\ \E no \in SUBSET {requests} : refusals' = refusals \cup no
    /\ ops' = <<>>
    /\ UNCHANGED <<vars, sent, rules, tracked, lost>>

dump ==
    /\ where = "job" /\ ~Unsent /\ batch = NoBatch
    /\ start_dump
    /\ UNCHANGED <<vars, sent, ops, status, refusals, rules, tracked, lost>>

\* The status that comes with the message goes where the flag goes.
drain_acks ==
    /\ drain_apply_ack_message
    /\ status' = [i \in DOMAIN seen |->
                     IF seen'[i] # seen[i] THEN inbox[1].request ELSE status[i]]
    /\ UNCHANGED <<vars, sent, ops, refusals, rules, tracked, lost>>

\* Mutant: every operation that was answered is committed.
CommitAnswered ==
    /\ finish_batch
    /\ tracked' = (tracked \cup {k \in Elements(ops) : plan[k] = "Add"})
                     \ {k \in Elements(ops) : plan[k] = "Delete"}
    /\ ops' = <<>>
    /\ UNCHANGED <<vars, sent, status, refusals, rules, lost>>

\* commit_ack_outcomes: a refused operation leaves the key as it is.
commit ==
    LET good == {ops[i] : i \in {j \in DOMAIN ops : status[j] \notin refusals}}
    IN /\ finish_batch
       /\ tracked' = (tracked \cup {k \in good : plan[k] = "Add"})
                        \ {k \in good : plan[k] = "Delete"}
       /\ ops' = <<>>
       /\ UNCHANGED <<vars, sent, status, refusals, rules, lost>>

\* No operation of the batch is committed, the acknowledged ones included.
timeout ==
    /\ handle_ack_timeout
    /\ ops' = <<>> /\ lost' = lost \cup Elements(ops)
    /\ UNCHANGED <<vars, sent, status, refusals, rules, tracked>>

ApplyNext ==
    \/ fill_resync_chunk \/ start_maintenance_batch \/ start_pending_batch \/ dump
    \/ drain_acks \/ commit \/ timeout

ApplySpec == ApplyInit /\ [][ApplyNext]_apply_vars

-----------------------------------------------------------------------------
\* The tracked set is true of the kernel, whatever was refused and whatever came
\* late: between batches it has a key exactly if the kernel has the rule, other than
\* for the keys of batches that timed out, and for those it is as it was before
\* (ResyncApply, drain_apply_ack_messages, commit_ack_outcomes, handle_ack_timeout).
TrackedIsTrue ==
    batch = NoBatch /\ ~Unsent =>
        \A k \in Key : k \in tracked <=> k \in IF k \in lost THEN Elements(current) ELSE rules
=============================================================================
