------------------------------ MODULE AckMatch ------------------------------
(***************************************************************************)
(* How acknowledgements find their operations: the sequence numbers of     *)
(* codec.rs and the AckTracker of rule.rs.  Every request of a batch gets  *)
(* a number of its own from one wrapping counter that dumps share; an      *)
(* acknowledgement carries the number back.  A batch that timed out leaves *)
(* its acknowledgements on the socket, where the next batch reads them.    *)
(***************************************************************************)
EXTENDS Integers, Sequences, FiniteSets

CONSTANTS
    Span,       \* sequence numbers are 1 .. Span (u32::MAX in the code)
    MaxBatch,   \* the largest batch
    MaxRequests \* bound: requests in a behaviour

ASSUME AckAssumption == /\ Span \in Nat \ {0} /\ MaxBatch \in Nat /\ MaxBatch <= Span
                        /\ MaxRequests \in Nat

VARIABLES
    next_seq,   \* NEXT_SEQ
    first_seq,  \* of the batch in flight
    seen,       \* AckTracker: one flag per operation of the batch in flight
    pending,    \* AckTracker: how many are not seen
    requests,   \* requests so far; numbers the batches and requests
    batch,      \* number of the first request of the batch in flight
    inbox       \* acknowledgements not read yet, oldest first

ack_vars == <<next_seq, first_seq, seen, pending, requests, batch, inbox>>

-----------------------------------------------------------------------------
(* Sequence numbers: arithmetic on 1 .. Span that never yields 0.           *)

normalize_seq(value) == IF value = 0 THEN 1 ELSE value

seq_advance(start, steps) ==
    ((normalize_seq(start) - 1 + (steps % Span)) % Span) + 1

seq_with_offset(first, offset) == seq_advance(normalize_seq(first), offset)

NoIndex == -1

\* Mutant: a number below the first one is never in the block.
IndexWithoutWrap(seq, first, batch_len) ==
    LET delta == normalize_seq(seq) - normalize_seq(first)
    IN IF batch_len # 0 /\ seq # 0 /\ delta \in 0 .. batch_len - 1 THEN delta ELSE NoIndex

\* The position of a number in the block that starts at first.
seq_to_batch_index(seq, first, batch_len) ==
    LET start == normalize_seq(first)
        this  == normalize_seq(seq)
        delta == IF this >= start THEN this - start ELSE Span - (start - this)
    IN IF batch_len # 0 /\ seq # 0 /\ delta < batch_len THEN delta ELSE NoIndex

-----------------------------------------------------------------------------
NoBatch == -1

\* At some time in the life of the process.
AckInit ==
    /\ next_seq \in 1 .. Span
    /\ first_seq = 1
    /\ seen = <<>>
    /\ pending = 0
    /\ requests = 0
    /\ batch = NoBatch
    /\ inbox = <<>>

\* Fewer than Span requests are newer than an unread acknowledgement: the
\* kernel answers before the numbers come round.
Window(n) == \A m \in DOMAIN inbox : requests + n - inbox[m].request <= Span

reserve_seq_block(count) == next_seq' = seq_advance(normalize_seq(next_seq), count)

\* start_apply_rules_batch: number the requests, send them, prepare the tracker.
\* The kernel will answer each one, in order.
start_apply_rules_batch(n) ==
    /\ batch = NoBatch
    /\ requests + n <= MaxRequests
    /\ Window(n)
    /\ first_seq' = normalize_seq(next_seq)
    /\ reserve_seq_block(n)
    /\ seen' = [i \in 1 .. n |-> FALSE]
    /\ pending' = n
    /\ batch' = requests
    /\ requests' = requests + n
    /\ inbox' = inbox \o [i \in 1 .. n |-> [request |-> requests + i - 1,
                                            seq |-> seq_with_offset(first_seq', i - 1)]]

\* next_seq() for a dump, whose messages are no acknowledgements.
start_dump ==
    /\ requests < MaxRequests
    /\ Window(1)
    /\ reserve_seq_block(1)
    /\ requests' = requests + 1
    /\ UNCHANGED <<first_seq, seen, pending, batch, inbox>>

\* AckTracker::mark_status, and the messages that match no operation.
mark_status(idx) ==
    IF idx = NoIndex \/ seen[idx + 1] THEN UNCHANGED <<seen, pending>>
    ELSE /\ seen' = [seen EXCEPT ![idx + 1] = TRUE]
         /\ pending' = pending - 1

\* drain_apply_ack_messages reads one message; the loop may find more.
drain_apply_ack_message ==
    /\ batch # NoBatch
    /\ inbox # <<>>
    /\ mark_status(seq_to_batch_index(inbox[1].seq, first_seq, Len(seen)))
    /\ inbox' = Tail(inbox)
    /\ UNCHANGED <<next_seq, first_seq, requests, batch>>

\* drain_rule_acks_once: with nothing pending the batch is finished.
finish_batch ==
    /\ batch # NoBatch
    /\ pending = 0
    /\ batch' = NoBatch
    /\ UNCHANGED <<next_seq, first_seq, seen, pending, requests, inbox>>

\* handle_ack_timeout: the batch is dropped, its acknowledgements are not.
handle_ack_timeout ==
    /\ batch # NoBatch
    /\ pending > 0
    /\ batch' = NoBatch
    /\ UNCHANGED <<next_seq, first_seq, seen, pending, requests, inbox>>

AckNext ==
    \/ \E n \in 1 .. MaxBatch : start_apply_rules_batch(n)
    \/ start_dump
    \/ drain_apply_ack_message
    \/ finish_batch
    \/ handle_ack_timeout

AckSpec == AckInit /\ [][AckNext]_ack_vars

-----------------------------------------------------------------------------
\* An operation is marked exactly when its own acknowledgement has been read:
\* none is lost when the numbers wrap or when a late acknowledgement of a batch
\* that timed out comes first, and none of those is taken for an answer to
\* this batch (seq_to_batch_index, AckTracker::mark_status).
AcksFindTheirOps ==
    batch # NoBatch =>
        /\ \A i \in DOMAIN seen :
              seen[i] <=> \A m \in DOMAIN inbox : inbox[m].request # batch + i - 1
        /\ pending = Cardinality({i \in DOMAIN seen : ~seen[i]})
=============================================================================
