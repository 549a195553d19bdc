------------------------------ MODULE AddrSync ------------------------------
(***************************************************************************)
(* The addrsyncd reactor: one thread that sleeps in epoll_wait, handles    *)
(* address events, rule acknowledgements and signals, and then drives at   *)
(* most one in-flight rule batch and one maintenance job (startup cleanup, *)
(* resync, shutdown cleanup).  The daemon's tracked set, owned_ips, is     *)
(* only ever changed by acknowledgements; the kernel's rules change when a *)
(* request is sent.                                                        *)
(*                                                                         *)
(* Time is abstracted: a deadline is set or not set, and a set deadline    *)
(* may have passed whenever the code looks at the clock.                   *)
(***************************************************************************)
EXTENDS RuleBatch, Sequences, FiniteSets

CONSTANTS
    Iface,        \* interfaces an address can sit on
    Key6,         \* the IPv6 keys among Key
    Ipv6,         \* opts.ipv6
    BatchMax,     \* opts.batch_max
    OpBudget,     \* MAINTENANCE_OP_BUDGET
    RetryLimit,   \* STARTUP_CLEANUP_RETRY_LIMIT
    IdMod,        \* batch ids wrap at this modulus (2^64 in the code)
    QueueMax,     \* bound: address events queued on the route socket
    MaxChanges,   \* bound: address changes in a behaviour
    Faults,       \* what may go wrong, a subset of FaultKind
    Overlap       \* FALSE: changes and signals only arrive while no
                  \* maintenance work is outstanding

FaultKind == {"late_ack",    \* an acknowledgement misses ACK_WAIT_TIMEOUT
              "kernel_err",  \* the kernel refuses a rule request
              "send_err",    \* sendmmsg fails, possibly half way
              "recv_err",    \* a receive fails (ENOBUFS on the route socket)
              "dump_err",    \* a rule or address dump fails
              "split_dump",  \* a rule dump does not fit one receive
              "bad_event",   \* an address event cannot be parsed
              "flagged",     \* an address gets a flag of ignore_addr_flags: the
                             \* event, and that of its later removal, is filtered
              "burst"}       \* more events are received than the route budget
                             \* has left (RouteDrain says when)

ASSUME ConstantsAssumption ==
    /\ Key6 \subseteq Key
    /\ Ipv6 \in BOOLEAN
    /\ BatchMax \in Nat \ {0}
    /\ OpBudget \in Nat \ {0}
    /\ RetryLimit \in Nat
    /\ IdMod \in Nat \ {0}
    /\ QueueMax \in Nat
    /\ MaxChanges \in Nat
    /\ Faults \subseteq FaultKind
    /\ Overlap \in BOOLEAN

\* The operations of a batch can be counted, as for every finite set of keys.
ASSUME CountAssumption == \A S \in SUBSET Key : Cardinality(S) \in Nat

VARIABLES
    (* the kernel and the operator *)
    addrs,        \* <<key, interface>> pairs that are configured
    rules,        \* keys with a rule of our preference and table
    routeq,       \* address events queued on the route socket
    rule_dump,    \* unread reply of a rule dump on the rule socket
    sigpend,      \* signals pending on the signalfd
    changes,      \* address changes so far
    (* where the reactor is *)
    phase,
    (* the Daemon's tracked set *)
    owned_ips,
    (* EventLoopState *)
    pending, quiet_deadline, max_deadline,
    inflight, completed_batch, batch_id,
    shutdown_requested, shutdown_cleanup_done,
    resync_requested, resync_compensate_pending,
    startup_cleanup_pending, startup_cleanup_retry_deadline,
    startup_cleanup_retry_count,
    maintenance,
    (* locals of drive_maintenance_slice and build_resync_plan *)
    budget_ops, target_keys

env      == <<addrs, routeq, sigpend, changes>>
socket   == <<rules, rule_dump>>
debounce == <<pending, quiet_deadline, max_deadline>>
batch    == <<inflight, completed_batch, batch_id>>
shutdown == <<shutdown_requested, shutdown_cleanup_done>>
resync   == <<resync_requested, resync_compensate_pending>>
startup  == <<startup_cleanup_pending, startup_cleanup_retry_deadline,
              startup_cleanup_retry_count>>
slice    == <<maintenance, budget_ops, target_keys>>
vars     == <<env, socket, phase, owned_ips, debounce, batch, shutdown,
              resync, startup, slice>>

-----------------------------------------------------------------------------
(* State.                                                                   *)

\* "wait": blocked in epoll_wait.  "events": at least one event handled.
\* "drive": drive_reactor, after an acknowledgement timeout.  "slice": head
\* of the maintenance loop.  "dump4", "dump6": an address dump has been
\* requested and not read yet.  "exit": the loop returned an error.
Phase == {"wait", "events", "drive", "slice", "dump4", "dump6", "exit", "stopped"}

BatchId == 0 .. IdMod - 1
NoId    == -1

\* Mutant: the id does not wrap.
NextIdUnwrapped(id) == id + 1
NextId(id) == (id + 1) % IdMod

InflightBatch == [owner : {"None", "Pending", "Maintenance"}, batch_id : BatchId,
                  ops : Batch, errno : ErrnoList, unseen : SUBSET Key]
NoInflight    == [owner |-> "None", batch_id |-> 0, ops |-> NoOps,
                  errno |-> NoErrno, unseen |-> {}]

CompletedBatch == [batch_id : BatchId \cup {NoId}, input : Nat]
NoCompleted    == [batch_id |-> NoId, input |-> 0]

ApplyJob == {"StartupCleanupDumpApply", "ResyncApply", "CleanupTracked"}
Job      == ApplyJob \cup {"Idle", "StartupCleanupDumpCollect", "ResyncBuild"}

\* todo holds what the job has still to send: startup_cleanup_keys or
\* tracked_keys from offset on, or the rest of the target/current merge.
MaintenanceJob == [job : Job, family_idx : 0 .. 2, dumping : BOOLEAN, todo : Batch,
                   batch_id : BatchId, waiting_batch_id : BatchId \cup {NoId}]
Idle == [job |-> "Idle", family_idx |-> 0, dumping |-> FALSE, todo |-> NoOps,
         batch_id |-> 0, waiting_batch_id |-> NoId]

RuleDump == [live : BOOLEAN, keys : SUBSET Key]
NoDump   == [live |-> FALSE, keys |-> {}]

AddrEvent == [key : Key, action : Action \cup {"Bad"}]

\* Every field of EventLoopState and MaintenanceJob keeps its range: ids wrap
\* (wrapping_add) and the operation budget never falls below zero.
TypeOK ==
    /\ addrs \in SUBSET (Key \X Iface)
    /\ rules \in SUBSET Key
    /\ routeq \in Seq(AddrEvent)
    /\ rule_dump \in RuleDump
    /\ sigpend \in SUBSET {"USR1", "TERM"}
    /\ changes \in 0 .. MaxChanges
    /\ phase \in Phase
    /\ owned_ips \in SUBSET Key
    /\ pending \in Batch
    /\ quiet_deadline \in BOOLEAN /\ max_deadline \in BOOLEAN
    /\ inflight \in InflightBatch
    /\ completed_batch \in CompletedBatch
    /\ batch_id \in BatchId
    /\ shutdown_requested \in BOOLEAN /\ shutdown_cleanup_done \in BOOLEAN
    /\ resync_requested \in BOOLEAN /\ resync_compensate_pending \in BOOLEAN
    /\ startup_cleanup_pending \in BOOLEAN
    /\ startup_cleanup_retry_deadline \in BOOLEAN
    /\ startup_cleanup_retry_count \in Nat
    /\ maintenance \in MaintenanceJob
    /\ budget_ops \in 0 .. OpBudget
    /\ target_keys \in SUBSET Key

\* A start after any earlier run: whatever rules it left behind are there.
Init ==
    /\ addrs \in SUBSET (Key \X Iface)
    /\ rules \in SUBSET Key
    /\ routeq = <<>>
    /\ rule_dump = NoDump
    /\ sigpend = {}
    /\ changes = 0
    /\ phase = "wait"
    /\ owned_ips = {}
    /\ pending = NoOps
    /\ quiet_deadline = FALSE /\ max_deadline = FALSE
    /\ inflight = NoInflight
    /\ completed_batch = NoCompleted
    /\ batch_id = 0
    /\ shutdown_requested = FALSE /\ shutdown_cleanup_done = FALSE
    /\ resync_requested = FALSE /\ resync_compensate_pending = FALSE
    /\ startup_cleanup_pending = TRUE
    /\ startup_cleanup_retry_deadline = FALSE
    /\ startup_cleanup_retry_count = 0
    /\ maintenance = Idle
    /\ budget_ops = OpBudget
    /\ target_keys = {}

-----------------------------------------------------------------------------
(* Helpers.                                                                 *)

Smaller(a, b) == IF a < b THEN a ELSE b
Larger(a, b)  == IF a > b THEN a ELSE b

\* Up to n of the operations of a batch; the code takes them in hash or key
\* order, which no property tells apart.
Chunks(ops, n) ==
    {c \in SUBSET OpKeys(ops) : Cardinality(c) = Smaller(n, Cardinality(OpKeys(ops)))}

\* The keys of the families the daemon handles.
Handled == IF Ipv6 THEN Key ELSE Key \ Key6

FamilyKeys(idx) == IF idx = 0 THEN Key \ Key6 ELSE Key6

\* Mutant: the IPv6 family is never reached.
FamilyV4Only(start_idx) == IF start_idx = 1 THEN 2 ELSE start_idx

\* The first family from start_idx on that the daemon handles; 2 for none.
next_startup_cleanup_family(start_idx) ==
    IF start_idx = 1 /\ ~Ipv6 THEN 2 ELSE start_idx

\* The keys an address dump of a family reports.
Present(idx) == {k \in FamilyKeys(idx) : \E i \in Iface : <<k, i>> \in addrs}

\* Mutant: the first event of a key wins.
InsertFirstEvent(q, map) ==
    [k \in Key |->
        LET mine  == {i \in DOMAIN q : q[i].key = k /\ q[i].action \in Action}
            first == {i \in mine : \A j \in mine : i <= j}
        IN IF first = {} THEN map[k] ELSE q[CHOOSE i \in first : TRUE].action]

\* The pending map after a run of events: the last event of a key wins.
insert_events(q, map) ==
    [k \in Key |->
        LET mine == {i \in DOMAIN q : q[i].key = k /\ q[i].action \in Action}
            last == {i \in mine : \A j \in mine : j <= i}
        IN IF last = {} THEN map[k] ELSE q[CHOOSE i \in last : TRUE].action]

\* Mutant: the loop is left without waiting for the shutdown cleanup.
ExitWithoutCleanup ==
    shutdown_requested /\ pending = NoOps /\ inflight.owner = "None"

\* event_loop's exit test and the deadline arm_timer gets (FALSE: none).
LoopExit ==
    /\ shutdown_requested
    /\ pending = NoOps
    /\ inflight.owner = "None"
    /\ maintenance.job = "Idle"
    /\ shutdown_cleanup_done

next_deadline ==
    \/ quiet_deadline
    \/ max_deadline
    \/ inflight.owner # "None"
    \/ maintenance.job # "Idle"
    \/ resync_requested /\ inflight.owner = "None"
    \/ shutdown_requested /\ ~shutdown_cleanup_done /\ inflight.owner = "None"
    \/ startup_cleanup_pending /\ inflight.owner = "None"

\* drive_reactor is over: leave the loop or go back to epoll_wait.
EndIteration == phase' = IF LoopExit' THEN "stopped" ELSE "wait"

\* break and continue of the maintenance loop.
Break == budget_ops' = OpBudget /\ EndIteration
Continue(budget) == budget_ops' = budget /\ phase' = "slice"

-----------------------------------------------------------------------------
(* The kernel and the operator.                                             *)

\* No maintenance work is outstanding.
Settled ==
    /\ maintenance.job = "Idle"
    /\ sigpend = {}
    /\ ~(startup_cleanup_pending \/ resync_requested \/ shutdown_requested)

\* The kernel announces a change to the groups the route socket has joined,
\* possibly in a form the parser rejects.
Announce(k, action) ==
    IF k \notin Handled THEN UNCHANGED routeq ELSE
    \E ev \in {action} \cup (IF "bad_event" \in Faults THEN {"Bad"} ELSE {}) :
        routeq' = Append(routeq, [key |-> k, action |-> ev])

ChangeAllowed ==
    /\ phase # "stopped"
    /\ Len(routeq) < QueueMax
    /\ changes < MaxChanges
    /\ changes' = changes + 1
    /\ Overlap \/ Settled
    /\ UNCHANGED <<socket, sigpend, phase, owned_ips, debounce, batch, shutdown,
                   resync, startup, slice>>

AddrAdded(k, i) ==
    /\ ChangeAllowed
    /\ <<k, i>> \notin addrs
    /\ addrs' = addrs \cup {<<k, i>>}
    /\ Announce(k, "Add")

\* The address is removed, or is no longer eligible because of its flags.
AddrRemoved(k, i) ==
    /\ ChangeAllowed
    /\ <<k, i>> \in addrs
    /\ addrs' = addrs \ {<<k, i>>}
    /\ Announce(k, "Delete") \/ ("flagged" \in Faults /\ UNCHANGED routeq)

\* RTM_NEWADDR is also sent when an address is only refreshed.
AddrRefreshed(k, i) ==
    /\ ChangeAllowed
    /\ <<k, i>> \in addrs
    /\ addrs' = addrs
    /\ Announce(k, "Add")

\* Standard signals do not queue: a second one merges with the pending one.
SendSignal(sig) ==
    /\ phase # "stopped"
    /\ sig \notin sigpend
    /\ sig = "TERM" => ~shutdown_requested
    /\ Overlap \/ (Settled /\ routeq = <<>> /\ pending = NoOps /\ inflight.owner = "None")
    /\ sigpend' = sigpend \cup {sig}
    /\ UNCHANGED <<addrs, routeq, changes, socket, phase, owned_ips, debounce,
                   batch, shutdown, resync, startup, slice>>

-----------------------------------------------------------------------------
(* Event handlers.  epoll_wait returns when a descriptor is readable or the *)
(* timer fires; the handlers of one iteration run in any order.             *)

Awake == phase \in {"wait", "events"}

flush_timerfd ==
    /\ phase = "wait"
    /\ next_deadline
    /\ phase' = "events"
    /\ UNCHANGED <<env, socket, owned_ips, debounce, batch, shutdown, resync,
                   startup, slice>>

\* Mutant: events only push out a window that is already open.
ArmOpenWindow(touched) == UNCHANGED <<quiet_deadline, max_deadline>>

ArmDebounce(touched) ==
    /\ quiet_deadline' = (quiet_deadline \/ touched)
    /\ max_deadline' = (max_deadline \/ touched)

queue_compensate_resync(lost) ==
    /\ resync_requested' = (resync_requested \/ lost)
    /\ resync_compensate_pending' = (resync_compensate_pending \/ lost)

\* How many of the received events are looked at; the route budget may end
\* before them, and then the rest is dropped.
Processed == IF "burst" \in Faults THEN 1 .. Len(routeq) ELSE {Len(routeq)}

handle_route_events ==
    /\ Awake
    /\ routeq # <<>>
    /\ routeq' = <<>>
    /\ \E n \in Processed :
        LET read == SubSeq(routeq, 1, n)
        IN /\ pending' = insert_events(read, pending)
           /\ ArmDebounce(\E i \in DOMAIN read : read[i].action \in Action)
           /\ queue_compensate_resync(\E i \in DOMAIN read : read[i].action = "Bad")
    /\ phase' = "events"
    /\ UNCHANGED <<addrs, sigpend, changes, socket, owned_ips, batch, shutdown,
                   startup, slice>>

handle_signals ==
    /\ Awake
    /\ sigpend # {}
    /\ sigpend' = {}
    /\ resync_requested' = (resync_requested \/ "USR1" \in sigpend)
    /\ shutdown_requested' = (shutdown_requested \/ "TERM" \in sigpend)
    /\ phase' = "events"
    /\ UNCHANGED <<addrs, routeq, changes, socket, owned_ips, debounce, batch,
                   shutdown_cleanup_done, resync_compensate_pending, startup, slice>>

\* Mutant: the result carries the reactor's id instead of the batch's.
ReportStateId ==
    completed_batch' = IF inflight.owner = "Maintenance"
                       THEN [batch_id |-> batch_id, input |-> 1]
                       ELSE completed_batch

\* Mutant: the result of a maintenance batch is not kept.
NoReport == UNCHANGED completed_batch

\* The tail of finish_inflight_batch and handle_ack_timeout: a maintenance
\* batch leaves its result for the job that waits for it.
ReportCompleted ==
    completed_batch' = IF inflight.owner = "Maintenance"
                       THEN [batch_id |-> inflight.batch_id,
                             input |-> Cardinality(OpKeys(inflight.ops))]
                       ELSE completed_batch

finish_inflight_batch ==
    /\ owned_ips' = commit_ack_outcomes(inflight.ops, inflight.errno, owned_ips)
    /\ ReportCompleted
    /\ inflight' = NoInflight

\* Reads the rule socket until it is empty.  The acknowledgements that have
\* arrived are recorded; the rest of an unfinished rule dump is read and
\* dropped, because its messages are not acknowledgements.
drain_rule_acks_once ==
    /\ Awake
    /\ inflight.owner # "None"
    /\ \E acks \in SUBSET inflight.unseen :
        /\ acks # {} \/ rule_dump.live
        /\ IF acks = inflight.unseen
           THEN finish_inflight_batch
           ELSE /\ inflight' = [inflight EXCEPT !.unseen = @ \ acks]
                /\ UNCHANGED <<owned_ips, completed_batch>>
    /\ rule_dump' = NoDump
    /\ phase' = "events"
    /\ UNCHANGED <<env, rules, debounce, batch_id, shutdown, resync, startup, slice>>

\* A receive error in a handler ends the loop.
recv_error ==
    /\ Awake
    /\ "recv_err" \in Faults
    /\ phase' = "exit"
    /\ UNCHANGED <<env, socket, owned_ips, debounce, batch, shutdown, resync,
                   startup, slice>>

-----------------------------------------------------------------------------
(* drive_reactor up to the maintenance slice.                               *)

\* Every descriptor that was ready has been handled.  (An event that turns up
\* between the handlers and drive_reactor is seen by neither: it might as well
\* come right after the next step.)
Driving ==
    \/ phase = "drive"
    \/ phase = "events" /\ routeq = <<>> /\ sigpend = {}

\* start_apply_rules_batch: every request is sent, and executed, at once.
Send(owner, id, ops) ==
    \E refused \in IF "kernel_err" \in Faults THEN SUBSET OpKeys(ops) ELSE {{}} :
        /\ rules' = kernel_rules(ops, rules, refused)
        /\ inflight' = [owner |-> owner, batch_id |-> id, ops |-> ops,
                        errno |-> kernel_errno(ops, rules, refused),
                        unseen |-> OpKeys(ops)]

\* send_many_raw stops half way: what was sent is executed all the same.
SendFails(ops) ==
    /\ "send_err" \in Faults
    /\ \E sent \in SUBSET OpKeys(ops) :
        /\ sent # OpKeys(ops)
        /\ rules' = kernel_rules(Only(ops, sent), rules, {})

\* Acknowledgements read before the deadline are dropped with the batch.
handle_ack_timeout ==
    /\ phase = "events"
    /\ "late_ack" \in Faults
    /\ inflight.owner # "None"
    /\ inflight' = NoInflight
    /\ queue_compensate_resync(inflight.owner = "Pending")
    /\ ReportCompleted
    /\ phase' = "drive"
    /\ UNCHANGED <<env, socket, owned_ips, debounce, batch_id, shutdown, startup, slice>>

\* should_flush_pending, with a set deadline that may have passed.
may_flush  == pending # NoOps /\ (shutdown_requested \/ quiet_deadline \/ max_deadline)
must_flush == pending # NoOps /\ shutdown_requested

\* Mutant: the window is closed although keys are left.
PullAndDisarm(take) ==
    /\ pending' = Except(pending, take)
    /\ quiet_deadline' = FALSE
    /\ max_deadline' = FALSE

\* What start_pending_batch does before it sends: pull the keys and re-arm.
PullPending(take) ==
    /\ pending' = Except(pending, take)
    /\ quiet_deadline' = (pending' # NoOps)
    /\ max_deadline' = (pending' # NoOps)

\* Pre-filter what was pulled and send the rest; with no rest, or on a failed
\* send, no batch is in flight.
FlushChunk(take) ==
    LET ops == prefilter(Only(pending, take), owned_ips)
    IN /\ PullPending(take)
       /\ \/ /\ ops = NoOps
             /\ phase' = "slice"
             /\ UNCHANGED <<rules, inflight, batch_id>>
          \/ /\ ops # NoOps
             /\ batch_id' = NextId(batch_id)
             /\ Send("Pending", NextId(batch_id), ops)
             /\ EndIteration
          \/ /\ ops # NoOps
             /\ batch_id' = NextId(batch_id)
             /\ SendFails(ops)
             /\ phase' = "exit"
             /\ UNCHANGED inflight

start_pending_batch ==
    /\ Driving
    /\ inflight.owner = "None"
    /\ may_flush
    /\ UNCHANGED <<env, rule_dump, owned_ips, completed_batch, shutdown, resync,
                   startup, slice>>
    /\ \E take \in Chunks(pending, BatchMax) : FlushChunk(take)

\* Nothing to flush yet, and no batch in flight: run the maintenance slice.
enter_slice ==
    /\ Driving
    /\ inflight.owner = "None"
    /\ ~must_flush
    /\ phase' = "slice"
    /\ UNCHANGED <<env, socket, owned_ips, debounce, batch, shutdown, resync,
                   startup, slice>>

\* A batch is in flight: drive_reactor does nothing.
await_acks ==
    /\ Driving
    /\ inflight.owner # "None"
    /\ UNCHANGED <<env, socket, owned_ips, debounce, batch, shutdown, resync,
                   startup, slice>>
    /\ EndIteration

-----------------------------------------------------------------------------
(* drive_maintenance_slice: one action per arm of the loop.                 *)

InSlice(job) == phase = "slice" /\ budget_ops > 0 /\ maintenance.job = job

\* The loop condition fails: the time or the operation budget is spent.
slice_over ==
    /\ phase = "slice"
    /\ UNCHANGED <<env, socket, owned_ips, debounce, batch, shutdown, resync,
                   startup, maintenance, target_keys>>
    /\ Break

ShutdownDue == shutdown_requested /\ pending = NoOps /\ ~shutdown_cleanup_done

prepare_shutdown_cleanup_job ==
    /\ InSlice("Idle")
    /\ ShutdownDue
    /\ owned_ips' = {}
    /\ IF owned_ips = {}
       THEN /\ shutdown_cleanup_done' = TRUE
            /\ UNCHANGED maintenance
       ELSE /\ maintenance' = [Idle EXCEPT !.job = "CleanupTracked",
                                           !.todo = AllOf(owned_ips, "Delete"),
                                           !.batch_id = batch_id]
            /\ UNCHANGED shutdown_cleanup_done
    /\ Continue(budget_ops)
    /\ UNCHANGED <<env, socket, debounce, batch, shutdown_requested, resync,
                   startup, target_keys>>

begin_startup_cleanup ==
    /\ InSlice("Idle")
    /\ ~ShutdownDue
    /\ startup_cleanup_pending
    /\ startup_cleanup_pending' = FALSE
    /\ startup_cleanup_retry_deadline' = FALSE
    /\ maintenance' = [Idle EXCEPT !.job = "StartupCleanupDumpCollect",
                                   !.batch_id = batch_id]
    /\ Continue(budget_ops)
    /\ UNCHANGED <<env, socket, owned_ips, debounce, batch, shutdown, resync,
                   startup_cleanup_retry_count, target_keys>>

begin_resync ==
    /\ InSlice("Idle")
    /\ ~ShutdownDue
    /\ ~startup_cleanup_pending
    /\ resync_requested
    /\ resync_requested' = FALSE
    /\ maintenance' = [Idle EXCEPT !.job = "ResyncBuild", !.batch_id = batch_id]
    /\ Continue(budget_ops)
    /\ UNCHANGED <<env, socket, owned_ips, debounce, batch, shutdown,
                   resync_compensate_pending, startup, target_keys>>

\* Nothing to do, or a startup retry whose delay has not passed.
stay_idle ==
    /\ InSlice("Idle")
    /\ ~ShutdownDue
    /\ \/ startup_cleanup_pending /\ startup_cleanup_retry_deadline
       \/ ~startup_cleanup_pending /\ ~resync_requested
    /\ UNCHANGED <<env, socket, owned_ips, debounce, batch, shutdown, resync,
                   startup, maintenance, target_keys>>
    /\ Break

\* Mutant: the limit is compared with the count before it is raised.
StartupRetryOneMore ==
    /\ startup_cleanup_retry_count' = startup_cleanup_retry_count + 1
    /\ startup_cleanup_pending' = (startup_cleanup_retry_count <= RetryLimit)
    /\ startup_cleanup_retry_deadline' = (startup_cleanup_retry_count <= RetryLimit)
    /\ resync_requested' = TRUE
    /\ maintenance' = Idle

\* schedule_startup_cleanup_retry
StartupRetry ==
    /\ startup_cleanup_retry_count' = startup_cleanup_retry_count + 1
    /\ startup_cleanup_pending' = (startup_cleanup_retry_count + 1 <= RetryLimit)
    /\ startup_cleanup_retry_deadline' = (startup_cleanup_retry_count + 1 <= RetryLimit)
    /\ resync_requested' = TRUE
    /\ maintenance' = Idle

\* The last family is done: ask for the first resync.
StartupFinished ==
    /\ startup_cleanup_retry_count' = 0
    /\ resync_requested' = TRUE
    /\ batch_id' = maintenance.batch_id
    /\ maintenance' = Idle
    /\ UNCHANGED <<startup_cleanup_pending, startup_cleanup_retry_deadline>>

\* StartupCleanupDumpCollect with no family left.
collect_finished ==
    /\ InSlice("StartupCleanupDumpCollect")
    /\ next_startup_cleanup_family(maintenance.family_idx) = 2
    /\ IF maintenance.todo = NoOps
       THEN StartupFinished
       ELSE /\ maintenance' = [maintenance EXCEPT !.job = "StartupCleanupDumpApply",
                                                  !.family_idx = 2]
            /\ UNCHANGED <<batch_id, startup, resync_requested>>
    /\ Continue(budget_ops - 1)
    /\ UNCHANGED <<env, socket, owned_ips, debounce, inflight, completed_batch,
                   shutdown, resync_compensate_pending, target_keys>>

\* The reply of the dump of the current family, which is started if none is.
CurrentFamily == next_startup_cleanup_family(maintenance.family_idx)
Reply == IF maintenance.dumping THEN rule_dump
         ELSE [live |-> TRUE, keys |-> rules \cap FamilyKeys(CurrentFamily)]

\* startup_cleanup_keys with the targets of one receive appended.
Collected(keys) == [k \in Key |-> IF k \in keys THEN "Delete" ELSE maintenance.todo[k]]

Collecting ==
    /\ InSlice("StartupCleanupDumpCollect")
    /\ CurrentFamily # 2
    /\ UNCHANGED <<env, rules, owned_ips, debounce, batch, shutdown,
                   resync_compensate_pending, target_keys>>

\* One receive that does not hold the end of the dump, or finds nothing.
collect_pending ==
    /\ Collecting
    /\ "split_dump" \in Faults
    /\ \E keys \in SUBSET Reply.keys :
        /\ rule_dump' = [Reply EXCEPT !.keys = @ \ keys]
        /\ maintenance' = [maintenance EXCEPT !.family_idx = CurrentFamily,
                                              !.dumping = TRUE, !.todo = Collected(keys)]
    /\ UNCHANGED <<startup, resync_requested>>
    /\ Break

collect_done ==
    /\ Collecting
    /\ Reply.live
    /\ rule_dump' = NoDump
    /\ maintenance' =
          LET todo == Collected(Reply.keys)
          IN [maintenance EXCEPT
                !.job = IF todo = NoOps THEN @ ELSE "StartupCleanupDumpApply",
                !.family_idx = CurrentFamily + 1, !.dumping = FALSE, !.todo = todo]
    /\ UNCHANGED <<startup, resync_requested>>
    /\ Continue(budget_ops - 1)

collect_fails ==
    /\ Collecting
    /\ "dump_err" \in Faults
    /\ rule_dump' = NoDump
    /\ StartupRetry
    /\ Continue(budget_ops - 1)

-----------------------------------------------------------------------------
(* The three jobs that send a plan in chunks.                               *)

\* The batch the job waits for has not completed.
StillWaiting ==
    /\ maintenance.waiting_batch_id # NoId
    /\ completed_batch.batch_id # maintenance.waiting_batch_id

\* The operation budget once the completed batch, if any, is charged.
BudgetLeft ==
    IF maintenance.waiting_batch_id = NoId THEN budget_ops
    ELSE Larger(0, budget_ops - Larger(1, completed_batch.input))

ConsumeCompleted ==
    completed_batch' = IF maintenance.waiting_batch_id = NoId
                       THEN completed_batch ELSE NoCompleted

\* The next chunk of the plan: chunk_size of the operations left.
NextChunks == Chunks(maintenance.todo, Smaller(BatchMax, Larger(1, BudgetLeft)))

SendChunk(c) ==
    LET id == NextId(maintenance.batch_id)
    IN /\ Send("Maintenance", id, Only(maintenance.todo, c))
       /\ maintenance' = [maintenance EXCEPT !.todo = Except(@, c), !.batch_id = id,
                                             !.waiting_batch_id = id]

\* The head of the arm and the send; a job that still waits just breaks.
apply_chunk(job) ==
    /\ InSlice(job)
    /\ UNCHANGED <<env, rule_dump, owned_ips, debounce, batch_id, shutdown,
                   resync, startup, target_keys>>
    /\ IF StillWaiting
       THEN UNCHANGED <<rules, inflight, completed_batch, maintenance>>
       ELSE /\ maintenance.todo # NoOps
            /\ ConsumeCompleted
            /\ \E c \in NextChunks : SendChunk(c)
    /\ Break

\* The send fails: the startup cleanup is retried, the other jobs end the loop.
apply_chunk_fails(job) ==
    /\ InSlice(job)
    /\ ~StillWaiting
    /\ maintenance.todo # NoOps
    /\ ConsumeCompleted
    /\ \E c \in NextChunks : SendFails(Only(maintenance.todo, c))
    /\ IF job = "StartupCleanupDumpApply"
       THEN StartupRetry /\ Continue(BudgetLeft)
       ELSE /\ phase' = "exit"
            /\ maintenance' = Idle
            /\ UNCHANGED <<startup, resync_requested, budget_ops>>
    /\ UNCHANGED <<env, rule_dump, inflight, owned_ips, debounce, batch_id,
                   shutdown, resync_compensate_pending, target_keys>>

\* An empty chunk: the plan is sent and acknowledged.
PlanDone(job) ==
    /\ InSlice(job)
    /\ ~StillWaiting
    /\ maintenance.todo = NoOps
    /\ ConsumeCompleted
    /\ Continue(BudgetLeft)
    /\ UNCHANGED <<env, socket, inflight, owned_ips, debounce, shutdown_requested,
                   target_keys>>

startup_apply_done ==
    /\ PlanDone("StartupCleanupDumpApply")
    /\ IF next_startup_cleanup_family(maintenance.family_idx) # 2
       THEN /\ batch_id' = maintenance.batch_id
            /\ maintenance' = [Idle EXCEPT !.job = "StartupCleanupDumpCollect",
                                           !.family_idx = maintenance.family_idx,
                                           !.batch_id = maintenance.batch_id]
            /\ UNCHANGED <<startup, resync_requested>>
       ELSE StartupFinished
    /\ UNCHANGED <<shutdown_cleanup_done, resync_compensate_pending>>

\* Mutant: the end of a resync also drops a request that came meanwhile.
ResyncDropsRequest ==
    /\ PlanDone("ResyncApply")
    /\ resync_compensate_pending' = FALSE
    /\ resync_requested' = FALSE
    /\ batch_id' = maintenance.batch_id
    /\ maintenance' = Idle
    /\ UNCHANGED <<shutdown_cleanup_done, startup>>

resync_apply_done ==
    /\ PlanDone("ResyncApply")
    /\ resync_compensate_pending' = FALSE
    /\ batch_id' = maintenance.batch_id
    /\ maintenance' = Idle
    /\ UNCHANGED <<shutdown_cleanup_done, resync_requested, startup>>

cleanup_tracked_done ==
    /\ PlanDone("CleanupTracked")
    /\ shutdown_cleanup_done' = TRUE
    /\ batch_id' = maintenance.batch_id
    /\ maintenance' = Idle
    /\ UNCHANGED <<resync, startup>>

-----------------------------------------------------------------------------
(* build_resync_plan: a blocking address dump per family on the route       *)
(* socket.  Messages that are not part of the dump are read and dropped:    *)
(* every event queued when a dump is requested lies ahead of the reply, and *)
(* events that arrive later may share a receive with its end.               *)

Discard(n) == routeq' = SubSeq(routeq, n + 1, Len(routeq))

\* ResyncBuild: request the IPv4 dump.
build_resync_plan ==
    /\ InSlice("ResyncBuild")
    /\ target_keys' = Present(0)
    /\ Discard(Len(routeq))
    /\ budget_ops' = budget_ops - 1
    /\ phase' = "dump4"
    /\ UNCHANGED <<addrs, sigpend, changes, socket, owned_ips, debounce, batch,
                   shutdown, resync, startup, maintenance>>

\* Read the IPv4 reply to its end and request the IPv6 dump.
dump_next_family ==
    /\ phase = "dump4"
    /\ Ipv6
    /\ target_keys' = target_keys \cup Present(1)
    /\ Discard(Len(routeq))
    /\ phase' = "dump6"
    /\ UNCHANGED <<addrs, sigpend, changes, socket, owned_ips, debounce, batch,
                   shutdown, resync, startup, maintenance, budget_ops>>

\* Read the last reply to its end; the plan is the merge of the snapshot with
\* the tracked set.
plan_ready ==
    /\ phase = IF Ipv6 THEN "dump6" ELSE "dump4"
    /\ \E n \in 0 .. Len(routeq) : Discard(n)
    /\ maintenance' = [maintenance EXCEPT !.job = "ResyncApply",
                                          !.todo = resync_ops(owned_ips, target_keys)]
    /\ target_keys' = {}
    /\ Continue(budget_ops)
    /\ UNCHANGED <<addrs, sigpend, changes, socket, owned_ips, debounce, batch,
                   shutdown, resync, startup>>

\* Mutant: a failed build is not asked for again.
BuildDropped ==
    /\ maintenance' = Idle
    /\ target_keys' = {}
    /\ UNCHANGED resync_requested

BuildAgain ==
    /\ maintenance' = Idle
    /\ target_keys' = {}
    /\ resync_requested' = TRUE

\* The dump fails or times out: ask again, in a later slice.
build_fails ==
    /\ phase \in {"dump4", "dump6"}
    /\ "dump_err" \in Faults
    /\ \E n \in 0 .. Len(routeq) : Discard(n)
    /\ BuildAgain
    /\ UNCHANGED <<addrs, sigpend, changes, socket, owned_ips, debounce, batch,
                   shutdown, resync_compensate_pending, startup>>
    /\ Break

-----------------------------------------------------------------------------
(* run, after the loop returned an error: a blocking tracked cleanup unless *)
(* the shutdown cleanup is already done.  A failing batch ends it.          *)

cleanup_rules_tracked ==
    /\ phase = "exit"
    /\ IF shutdown_cleanup_done
       THEN UNCHANGED <<rules, owned_ips>>
       ELSE \E kept \in IF Faults \cap {"late_ack", "kernel_err", "send_err", "recv_err"} = {}
                        THEN {{}} ELSE SUBSET owned_ips :
                /\ rules' = rules \ (owned_ips \ kept)
                /\ owned_ips' = {}
    /\ phase' = "stopped"
    /\ UNCHANGED <<env, rule_dump, debounce, batch, shutdown, resync, startup, slice>>

-----------------------------------------------------------------------------
Environment ==
    \/ \E k \in Key, i \in Iface : AddrAdded(k, i) \/ AddrRemoved(k, i) \/ AddrRefreshed(k, i)
    \/ \E sig \in {"USR1", "TERM"} : SendSignal(sig)

Drive == start_pending_batch \/ enter_slice \/ await_acks

Slice ==
    \/ prepare_shutdown_cleanup_job \/ begin_startup_cleanup \/ begin_resync \/ stay_idle
    \/ collect_finished \/ collect_pending \/ collect_done \/ collect_fails
    \/ \E job \in ApplyJob : apply_chunk(job) \/ apply_chunk_fails(job)
    \/ startup_apply_done \/ resync_apply_done \/ cleanup_tracked_done
    \/ build_resync_plan \/ dump_next_family \/ plan_ready \/ build_fails

Reactor ==
    \/ flush_timerfd \/ handle_route_events \/ handle_signals \/ drain_rule_acks_once
    \/ recv_error \/ handle_ack_timeout \/ Drive \/ Slice \/ slice_over
    \/ cleanup_rules_tracked

Next == Environment \/ Reactor

Spec == Init /\ [][Next]_vars

\* The thread is always scheduled (WF).  Nothing else is starved for ever (SF):
\* the kernel answers and level-triggered epoll reports it; drive_reactor ends
\* every iteration; max_deadline and the retry delay pass; a slice has 8 ms and
\* usually completes a step in them; a rule dump has an end.
Fairness ==
    /\ WF_vars(Reactor)
    /\ SF_vars(handle_route_events)
    /\ SF_vars(drain_rule_acks_once)
    /\ SF_vars(Drive)
    /\ SF_vars(start_pending_batch)
    /\ SF_vars(Slice)
    /\ SF_vars(begin_startup_cleanup)
    /\ SF_vars(collect_done)

FairSpec == Spec /\ Fairness

-----------------------------------------------------------------------------
(* Properties.                                                              *)

\* A job that waits for a batch finds exactly one of two things: the batch in
\* flight, or its result; and no batch or result is around that nobody waits
\* for.  The job and the reactor only share a batch id, ids are reused (a job
\* counts on from its own copy while pending batches advance state.batch_id),
\* and an acknowledgement timeout must not break the pairing; if it did, the job
\* would wait for ever (resync_cleanup.rs, the waiting_batch_id handshake).
BatchHandshake ==
    LET wait == maintenance.waiting_batch_id
    IN /\ wait = NoId =>
             inflight.owner # "Maintenance" /\ completed_batch = NoCompleted
       /\ wait # NoId =>
             /\ maintenance.job \in ApplyJob
             /\ \/ /\ inflight.owner = "Maintenance" /\ inflight.batch_id = wait
                   /\ completed_batch = NoCompleted
                \/ /\ inflight.owner # "Maintenance"
                   /\ completed_batch.batch_id = wait

\* Work the daemon has taken on.
Outstanding ==
    \/ pending # NoOps
    \/ inflight.owner # "None"
    \/ maintenance.job # "Idle"
    \/ resync_requested
    \/ startup_cleanup_pending
    \/ shutdown_requested

\* epoll_wait has no timeout, so the daemon never goes to sleep with work
\* outstanding unless the timer is armed: no order of events, flushes and
\* maintenance steps loses the wakeup (next_deadline, the deadline resets of
\* start_pending_batch and handle_route_events, and event_loop's exit test).
NeverSleepsOnWork == phase = "wait" /\ Outstanding => next_deadline

\* A compensation that was announced (a lost acknowledgement, an event that
\* could not be parsed) has not been forgotten: a resync is requested or running
\* until the flag is cleared (queue_compensate_resync, ResyncApply).
CompensationNotForgotten ==
    resync_compensate_pending /\ phase \notin {"exit", "stopped"} =>
        resync_requested \/ maintenance.job \in {"ResyncBuild", "ResyncApply"}

\* The startup cleanup gives up after RetryLimit retries whatever fails: it is
\* only due, or running, while a retry is left (schedule_startup_cleanup_retry).
StartupRetriesBounded ==
    /\ startup_cleanup_retry_count <= RetryLimit + 1
    /\ \/ startup_cleanup_pending
       \/ maintenance.job \in {"StartupCleanupDumpCollect", "StartupCleanupDumpApply"}
       => startup_cleanup_retry_count <= RetryLimit

\* The startup cleanup went through.
StartupDone ==
    /\ ~startup_cleanup_pending
    /\ startup_cleanup_retry_count = 0
    /\ maintenance.job \notin {"StartupCleanupDumpCollect", "StartupCleanupDumpApply"}

\* Every tracked key has its rule, except while the acknowledgement of its
\* deletion is on the way; a tracked key without a rule would be skipped by the
\* pre-filter and by every resync.  Pending batches, startup deletions and stale
\* resync plans may concern the same key in any order (commit_ack_outcomes).
OwnedHaveRules ==
    \A k \in owned_ips :
        k \in rules \/ (inflight.ops[k] = "Delete" /\ inflight.errno[k] = "OK")

\* Once the startup cleanup went through, every rule in the kernel is tracked,
\* or its addition is about to be acknowledged, or the shutdown cleanup still
\* has it on its list: no rule is left that nobody will ever delete.
NoOrphanRules ==
    StartupDone =>
        \A k \in rules \cap Handled :
            \/ k \in owned_ips
            \/ inflight.ops[k] = "Add" /\ inflight.errno[k] = "OK"
            \/ maintenance.job = "CleanupTracked" /\ maintenance.todo[k] = "Delete"

\* Nothing is going on anywhere.
Quiescent ==
    /\ phase = "wait"
    /\ routeq = <<>>
    /\ sigpend = {}
    /\ ~Outstanding

\* When everything has come to rest the kernel has a rule for each address of
\* an interface and no other.
SyncedWhenQuiescent == Quiescent => rules \cap Handled = Present(0) \cup (Present(1) \cap Handled)

\* A stop that ran to its end has emptied the tracked set.
StopCleansTracked == phase = "stopped" => owned_ips = {}

\* After a stop none of the daemon's rules is left in the kernel.
StopLeavesNoRule == phase = "stopped" => rules \cap Handled = {}

\* A stop, once asked for, is carried out, provided resyncs are not asked for
\* without end.
StopTerminates ==
    <>[]("USR1" \notin sigpend) => (shutdown_requested ~> phase = "stopped")

\* A change that was put off by the debounce window is eventually sent.
PendingIsFlushed == pending # NoOps ~> pending = NoOps \/ phase = "stopped"

\* A resync that was asked for takes its snapshot later, even if the request
\* came while an older snapshot was being applied.
RequestedResyncRuns == resync_requested ~> phase = "dump4" \/ shutdown_requested

\* If the operator keeps asking for resyncs and does not stop the daemon, then
\* once the addresses rest the rules become, and stay, what they should be,
\* whatever was lost before.
ResyncHeals ==
    []<>("USR1" \in sigpend) /\ []~shutdown_requested
        => <>[](rules \cap Handled = Present(0) \cup (Present(1) \cap Handled))

-----------------------------------------------------------------------------
(* The abstract ledger.                                                     *)

\* The requests of the batch in flight that changed the kernel's rules.
Effective(action) ==
    {k \in Key : inflight.ops[k] = action /\ inflight.errno[k] = "OK"}

Entry == [busy |-> inflight.owner # "None",
          added |-> Effective("Add"), deleted |-> Effective("Delete")]

Ledger == INSTANCE RuleLedger WITH
    tracked <- owned_ips, sent <- Entry, Lossy <- Faults \cap {"late_ack", "send_err"} # {}

\* The reactor keeps its ledger: whatever events, timeouts, jobs and stops
\* interleave, there is one batch under way at a time, the tracked set moves by
\* exactly what that batch did in the kernel, all at once, and is otherwise only
\* handed over by a stop (Daemon::owned_ips and its writers).
KeepsLedger == Ledger!Spec
=============================================================================
