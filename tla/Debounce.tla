------------------------------ MODULE Debounce ------------------------------
(***************************************************************************)
(* The debounce window against the clock.  AddrSync has the window as a    *)
(* flag that says whether it may be over; here it has its two deadlines,   *)
(* the batch in flight has the deadline of its acknowledgements, and the   *)
(* timerfd is armed with the earliest of the three.                        *)
(*                                                                         *)
(* A deadline is the time left until it: 0 when it is due, NoDeadline when *)
(* it is not set.  The loop is prompt: time does not go on while it has to *)
(* run.                                                                    *)
(***************************************************************************)
EXTENDS Integers, FiniteSets

CONSTANTS
    Key,            \* the addresses
    BatchMax,       \* opts.batch_max
    DebounceTime,   \* opts.debounce
    DebounceMax,    \* opts.debounce_max
    AckTimeout      \* ACK_WAIT_TIMEOUT

ASSUME DebounceAssumption ==
    /\ BatchMax \in Nat \ {0} /\ AckTimeout \in Nat \ {0}
    /\ DebounceTime \in Nat \ {0} /\ DebounceMax \in Nat
    /\ DebounceTime <= DebounceMax

VARIABLES
    phase,          \* "wait" in epoll_wait, or "events"
    pending,        \* the keys of state.pending
    quiet_deadline, max_deadline,
    ack_deadline,   \* of the batch in flight; NoDeadline if there is none
    shutdown_requested,
    timer,          \* kernel: the time left on the timerfd
    ran,            \* history: the loop has run at this instant
    open_for,       \* history: time since the window was opened or cut
    quiet_for       \* history: time since the last event or cut

debounce_vars == <<phase, pending, quiet_deadline, max_deadline, ack_deadline, shutdown_requested,
                   timer, ran, open_for, quiet_for>>

NoDeadline == -1

DebounceInit ==
    /\ phase = "wait" /\ pending = {} /\ shutdown_requested = FALSE
    /\ quiet_deadline = NoDeadline /\ max_deadline = NoDeadline /\ ack_deadline = NoDeadline
    /\ timer = NoDeadline
    /\ ran = TRUE /\ open_for = 0 /\ quiet_for = 0

-----------------------------------------------------------------------------
Later(d) == IF d > 0 THEN d - 1 ELSE d

\* Time passes once the loop has done what is due.
Tick ==
    /\ phase = "wait"
    /\ timer # 0 \/ ran
    /\ ran' = FALSE
    /\ quiet_deadline' = Later(quiet_deadline)
    /\ max_deadline' = Later(max_deadline)
    /\ ack_deadline' = Later(ack_deadline)
    /\ timer' = Later(timer)
    /\ open_for' = IF pending = {} THEN 0 ELSE open_for + 1
    /\ quiet_for' = IF pending = {} THEN 0 ELSE quiet_for + 1
    /\ UNCHANGED <<phase, pending, shutdown_requested>>

-----------------------------------------------------------------------------
(* epoll_wait returns; the handlers.                                        *)

\* Mutant: every event moves the upper bound, too.
MaxDeadlineMoved == DebounceMax

\* The upper bound of the window is set once.
MaxDeadline == IF max_deadline = NoDeadline THEN DebounceMax ELSE max_deadline

handle_route_events ==
    /\ phase' = "events"
    /\ \E keys \in (SUBSET Key) \ {{}} : pending' = pending \cup keys
    /\ quiet_deadline' = DebounceTime
    /\ max_deadline' = MaxDeadline
    /\ open_for' = IF pending = {} THEN 0 ELSE open_for
    /\ quiet_for' = 0
    /\ UNCHANGED <<ack_deadline, shutdown_requested, timer, ran>>

\* The last acknowledgement of the batch in flight arrives.
drain_rule_acks_once ==
    /\ ack_deadline # NoDeadline
    /\ phase' = "events"
    /\ ack_deadline' = NoDeadline
    /\ UNCHANGED <<pending, quiet_deadline, max_deadline, shutdown_requested, timer, ran,
                   open_for, quiet_for>>

handle_signals ==
    /\ phase' = "events"
    /\ shutdown_requested' = TRUE
    /\ UNCHANGED <<pending, quiet_deadline, max_deadline, ack_deadline, timer, ran, open_for,
                   quiet_for>>

flush_timerfd ==
    /\ phase = "wait" /\ timer = 0
    /\ phase' = "events"
    /\ UNCHANGED <<pending, quiet_deadline, max_deadline, ack_deadline, shutdown_requested,
                   timer, ran, open_for, quiet_for>>

-----------------------------------------------------------------------------
(* drive_reactor                                                            *)

\* A batch is in flight and its acknowledgements are not overdue.
Busy == ack_deadline > 0

should_flush_pending ==
    /\ pending # {}
    /\ shutdown_requested \/ quiet_deadline = 0 \/ max_deadline = 0

\* The earliest of three deadlines.
min_deadline(q, m, a) ==
    LET w == IF q = NoDeadline \/ (m # NoDeadline /\ m < q) THEN m ELSE q
    IN IF w = NoDeadline \/ (a # NoDeadline /\ a < w) THEN a ELSE w

\* next_deadline and arm_timer.  The deadlines of maintenance are left out: they
\* only wake the loop more often.
arm_timer == timer' = min_deadline(quiet_deadline', max_deadline', ack_deadline')

\* Mutant: the deadlines of an empty window are left as they are.
KeepWindow(rest) ==
    IF rest = {} THEN UNCHANGED <<quiet_deadline, max_deadline>>
    ELSE quiet_deadline' = DebounceTime /\ max_deadline' = DebounceMax

\* What a flush leaves behind waits for a window of its own.
cut_window(rest) ==
    IF rest = {} THEN quiet_deadline' = NoDeadline /\ max_deadline' = NoDeadline
    ELSE quiet_deadline' = DebounceTime /\ max_deadline' = DebounceMax

\* start_pending_batch takes as many keys as a batch holds.  The pre-filter may drop
\* all of them, and maintenance may then start a batch of its own.
start_pending_batch ==
    /\ phase = "events" /\ ~Busy /\ should_flush_pending
    /\ \E keys \in SUBSET pending :
          /\ keys = pending \/ Cardinality(keys) = BatchMax
          /\ Cardinality(keys) <= BatchMax
          /\ pending' = pending \ keys
          /\ cut_window(pending')
    /\ ack_deadline' \in {NoDeadline, AckTimeout}
    /\ arm_timer
    /\ phase' = "wait" /\ ran' = TRUE /\ open_for' = 0 /\ quiet_for' = 0
    /\ UNCHANGED shutdown_requested

\* Nothing to flush: drive_maintenance_slice may start a batch.
drive_maintenance_slice ==
    /\ phase = "events" /\ ~Busy /\ ~should_flush_pending
    /\ ack_deadline' \in {NoDeadline, AckTimeout}
    /\ UNCHANGED <<quiet_deadline, max_deadline>>
    /\ arm_timer
    /\ phase' = "wait" /\ ran' = TRUE
    /\ UNCHANGED <<pending, shutdown_requested, open_for, quiet_for>>

\* The batch in flight is waited for.
await_acks ==
    /\ phase = "events" /\ Busy
    /\ UNCHANGED <<quiet_deadline, max_deadline, ack_deadline>>
    /\ arm_timer
    /\ phase' = "wait" /\ ran' = TRUE
    /\ UNCHANGED <<pending, shutdown_requested, open_for, quiet_for>>

DebounceNext ==
    \/ Tick
    \/ handle_route_events \/ drain_rule_acks_once \/ handle_signals \/ flush_timerfd
    \/ start_pending_batch \/ drive_maintenance_slice \/ await_acks

DebounceSpec == DebounceInit /\ [][DebounceNext]_debounce_vars

-----------------------------------------------------------------------------
(* Properties.                                                              *)

DebounceTypeOK ==
    /\ phase \in {"wait", "events"}
    /\ pending \subseteq Key
    /\ quiet_deadline \in -1 .. DebounceTime
    /\ max_deadline \in -1 .. DebounceMax
    /\ ack_deadline \in -1 .. AckTimeout
    /\ timer \in Nat \cup {-1}
    /\ shutdown_requested \in BOOLEAN /\ ran \in BOOLEAN
    /\ open_for \in Nat /\ quiet_for \in Nat
    \* a window is open exactly while keys are pending
    /\ quiet_deadline = NoDeadline <=> pending = {}
    /\ max_deadline = NoDeadline <=> pending = {}

\* Pending keys are not kept waiting: from the first of them, or from the batch that
\* left them behind, it takes less than debounce_max and the time of one batch until
\* the next flush, however the events come and whatever maintenance does meanwhile
\* (handle_route_events, should_flush_pending, next_deadline).
WindowIsBounded ==
    pending # {} => open_for < DebounceMax + AckTimeout

\* A flush is not early either: it comes on the way out, after debounce without an
\* event, or debounce_max after the window was opened or cut, never because of a
\* deadline of an earlier window (start_pending_batch, should_flush_pending).
FlushIsNotEarly ==
    [][start_pending_batch => \/ shutdown_requested
                              \/ quiet_for >= DebounceTime
                              \/ open_for >= DebounceMax]_debounce_vars
=============================================================================
