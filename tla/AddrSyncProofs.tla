--------------------------- MODULE AddrSyncProofs ---------------------------
(***************************************************************************)
(* Proofs about the reactor, for every set of keys, batch size, budget,    *)
(* retry limit, id modulus and set of faults; that it implements           *)
(* RuleLedger, and what follows: the tracked set never claims a rule the   *)
(* kernel does not have, as long as acknowledgements arrive in time and    *)
(* sends do not fail half way; requests may be refused, dumps and receives *)
(* may fail.                                                               *)
(***************************************************************************)
EXTENDS AddrSync, TLAPS

-----------------------------------------------------------------------------
(* The operators.                                                           *)

\* The operators on batches (prefilter, the parts of a batch, resync plans, the
\* kernel's answers) yield batches and answer lists.
LEMMA BatchTypes ==
    /\ NoOps \in Batch
    /\ NoErrno \in ErrnoList
    /\ \A S, action : action \in Action => AllOf(S, action) \in Batch
    /\ \A ops \in Batch : \A S : Only(ops, S) \in Batch /\ Except(ops, S) \in Batch
    /\ \A ops \in Batch : \A owned : prefilter(ops, owned) \in Batch
    /\ \A current, target : resync_ops(current, target) \in Batch
    /\ \A ops \in Batch : \A R, refused : kernel_errno(ops, R, refused) \in ErrnoList
<1>1. \A ops \in Batch : \A R, refused : kernel_errno(ops, R, refused) \in ErrnoList
  BY DEF Batch, Action, ErrnoList, Errno, kernel_errno
<1> QED
  BY <1>1 DEF Batch, Action, ErrnoList, NoOps, NoErrno, AllOf, Only, Except, prefilter, resync_ops

\* Inserting address events leaves the pending map a map from keys to actions.
LEMMA InsertType ==
    ASSUME NEW q \in Seq(AddrEvent), NEW map \in Batch
    PROVE  insert_events(q, map) \in Batch
<1> SUFFICES ASSUME NEW k \in Key
             PROVE  insert_events(q, map)[k] \in Action \cup {"None"}
  BY DEF insert_events, Batch
<1> DEFINE mine == {i \in DOMAIN q : q[i].key = k /\ q[i].action \in Action}
           last == {i \in mine : \A j \in mine : j <= i}
<1>1. last # {} => q[CHOOSE i \in last : TRUE].action \in Action
  OBVIOUS
<1> HIDE DEF last
<1>2. insert_events(q, map)[k] = IF last = {} THEN map[k] ELSE q[CHOOSE i \in last : TRUE].action
  BY DEF insert_events, last
<1> QED
  BY <1>1, <1>2 DEF Batch

\* handle_route_events looks at some of the events it received, at least one.
LEMMA ProcessedType ==
    ASSUME TypeOK, routeq # <<>>
    PROVE  Processed \subseteq 1 .. Len(routeq)
BY DEF Processed, TypeOK

\* Batch ids stay in range when they wrap (wrapping_add).
LEMMA IdType == ASSUME NEW id \in BatchId PROVE NextId(id) \in BatchId
BY ConstantsAssumption DEF BatchId, NextId

\* The number of operations of a batch, reported as its input count, is a number.
LEMMA CountType == ASSUME NEW ops \in Batch PROVE Cardinality(OpKeys(ops)) \in Nat
BY CountAssumption DEF OpKeys

\* What an address dump leaves of the route queue is a queue of events.
LEMMA DiscardType ==
    ASSUME routeq \in Seq(AddrEvent), NEW n \in 0 .. Len(routeq), Discard(n)
    PROVE  routeq' \in Seq(AddrEvent)
BY DEF Discard

-----------------------------------------------------------------------------
(* Type correctness.                                                        *)

\* The values for "none" are well typed.
LEMMA NoneTypes ==
    /\ NoInflight \in InflightBatch
    /\ NoCompleted \in CompletedBatch
    /\ Idle \in MaintenanceJob
    /\ NoDump \in RuleDump
<1>1. 0 \in BatchId
  BY ConstantsAssumption DEF BatchId
<1>2. NoInflight \in InflightBatch
  BY <1>1, BatchTypes DEF InflightBatch, NoInflight
<1>3. Idle \in MaintenanceJob
  BY <1>1, BatchTypes DEF MaintenanceJob, Idle, Job, ApplyJob
<1> QED
  BY <1>2, <1>3 DEF CompletedBatch, NoCompleted, RuleDump, NoDump

\* The state run() sets up is well typed.
LEMMA TypeInit == Init => TypeOK
<1> SUFFICES ASSUME Init PROVE TypeOK
  OBVIOUS
<1>1. batch_id \in BatchId /\ changes \in 0 .. MaxChanges /\ budget_ops \in 0 .. OpBudget
  BY ConstantsAssumption DEF Init, BatchId
<1>2. routeq \in Seq(AddrEvent)
  BY DEF Init
<1>3. pending \in Batch
  BY BatchTypes DEF Init
<1> QED
  BY <1>1, <1>2, <1>3, NoneTypes DEF Init, TypeOK, Phase

\* Address changes and signals keep the types.
LEMMA TypeEnvironment == TypeOK /\ Environment => TypeOK'
<1> SUFFICES ASSUME TypeOK, Environment PROVE TypeOK'
  OBVIOUS
<1> USE DEF env, socket, debounce, batch, shutdown, resync, startup, slice
<1>1. ASSUME NEW k \in Key, NEW action \in Action, Announce(k, action)
      PROVE  routeq' \in Seq(AddrEvent)
  <2>1. CASE k \notin Handled
    BY <1>1, <2>1 DEF Announce, TypeOK
  <2>2. CASE k \in Handled
    <3>1. PICK ev \in Action \cup {"Bad"} : routeq' = Append(routeq, [key |-> k, action |-> ev])
      BY <1>1, <2>2 DEF Announce
    <3>2. [key |-> k, action |-> ev] \in AddrEvent
      BY DEF AddrEvent
    <3> QED
      BY <3>1, <3>2 DEF TypeOK
  <2> QED
    BY <2>1, <2>2
<1>2. ASSUME ChangeAllowed PROVE changes' \in 0 .. MaxChanges
  BY <1>2, ConstantsAssumption DEF ChangeAllowed, TypeOK
<1>3. ASSUME NEW k \in Key, NEW i \in Iface, AddrAdded(k, i) PROVE TypeOK'
  BY <1>1, <1>2, <1>3 DEF AddrAdded, ChangeAllowed, TypeOK, Action
<1>4. ASSUME NEW k \in Key, NEW i \in Iface, AddrRemoved(k, i) PROVE TypeOK'
  BY <1>1, <1>2, <1>4 DEF AddrRemoved, ChangeAllowed, TypeOK, Action
<1>5. ASSUME NEW k \in Key, NEW i \in Iface, AddrRefreshed(k, i) PROVE TypeOK'
  BY <1>1, <1>2, <1>5 DEF AddrRefreshed, ChangeAllowed, TypeOK, Action
<1>6. ASSUME NEW sig \in {"USR1", "TERM"}, SendSignal(sig) PROVE TypeOK'
  BY <1>6 DEF SendSignal, TypeOK
<1> QED
  BY <1>3, <1>4, <1>5, <1>6 DEF Environment

\* start_apply_rules_batch keeps the types of the rules and of the batch in flight.
LEMMA SendType ==
    ASSUME TypeOK, NEW owner \in {"Pending", "Maintenance"}, NEW id \in BatchId,
           NEW ops \in Batch, Send(owner, id, ops)
    PROVE  rules' \in SUBSET Key /\ inflight' \in InflightBatch
<1>1. PICK refused :
        /\ rules' = kernel_rules(ops, rules, refused)
        /\ inflight' = [owner |-> owner, batch_id |-> id, ops |-> ops,
                        errno |-> kernel_errno(ops, rules, refused),
                        unseen |-> OpKeys(ops)]
  BY DEF Send
<1>2. kernel_errno(ops, rules, refused) \in ErrnoList
  BY BatchTypes
<1>3. rules' \in SUBSET Key
  BY <1>1 DEF kernel_rules, TypeOK
<1> QED
  BY <1>1, <1>2, <1>3 DEF InflightBatch, OpKeys

\* start_apply_rules_batch puts the batch in flight under its owner and its id.
LEMMA SendOwner ==
    ASSUME NEW owner, NEW id, NEW ops, Send(owner, id, ops)
    PROVE  inflight'.owner = owner /\ inflight'.batch_id = id
<1>1. PICK errno, unseen :
        inflight' = [owner |-> owner, batch_id |-> id, ops |-> ops, errno |-> errno,
                     unseen |-> unseen]
  BY DEF Send
<1> QED
  BY <1>1

\* A send that stops half way keeps the type of the rules.
LEMMA SendFailsType ==
    ASSUME TypeOK, NEW ops, SendFails(ops) PROVE rules' \in SUBSET Key
BY DEF SendFails, kernel_rules, TypeOK

\* Charging a completed batch keeps the operation budget in range.
LEMMA BudgetType ==
    ASSUME TypeOK PROVE BudgetLeft \in 0 .. OpBudget
BY ConstantsAssumption DEF BudgetLeft, Larger, TypeOK, CompletedBatch

\* The result a maintenance batch leaves is well typed.
LEMMA ReportType == TypeOK /\ ReportCompleted => completed_batch' \in CompletedBatch
BY CountType DEF TypeOK, ReportCompleted, InflightBatch, CompletedBatch

\* The event handlers and the acknowledgement timeout keep the types.
LEMMA TypeHandlers ==
    ASSUME TypeOK,
           \/ flush_timerfd \/ handle_route_events \/ handle_signals
           \/ drain_rule_acks_once \/ recv_error \/ handle_ack_timeout
    PROVE  TypeOK'
<1> USE DEF env, socket, debounce, batch, shutdown, resync, startup, slice
<1>1. CASE flush_timerfd
  BY <1>1 DEF flush_timerfd, TypeOK, Phase
<1>2. CASE handle_route_events
  <2>1. pending' \in Batch
    <3>1. PICK n \in 1 .. Len(routeq) : pending' = insert_events(SubSeq(routeq, 1, n), pending)
      BY <1>2, ProcessedType DEF handle_route_events
    <3>2. SubSeq(routeq, 1, n) \in Seq(AddrEvent)
      BY <3>1 DEF TypeOK
    <3> QED
      BY <3>1, <3>2, InsertType DEF TypeOK
  <2>2. routeq' \in Seq(AddrEvent)
    BY <1>2 DEF handle_route_events
  <2> QED
    BY <1>2, <2>1, <2>2 DEF handle_route_events, ArmDebounce, queue_compensate_resync, TypeOK, Phase
<1>3. CASE handle_signals
  BY <1>3 DEF handle_signals, TypeOK, Phase
<1>4. CASE drain_rule_acks_once
  <2>1. /\ inflight' \in InflightBatch
        /\ owned_ips' \in SUBSET Key
        /\ completed_batch' \in CompletedBatch
    <3>1. PICK acks \in SUBSET inflight.unseen :
            IF acks = inflight.unseen THEN finish_inflight_batch
            ELSE /\ inflight' = [inflight EXCEPT !.unseen = @ \ acks]
                 /\ UNCHANGED <<owned_ips, completed_batch>>
      BY <1>4 DEF drain_rule_acks_once
    <3>2. CASE acks = inflight.unseen
      BY <3>1, <3>2, ReportType, NoneTypes
         DEF finish_inflight_batch, commit_ack_outcomes, TypeOK
    <3>3. CASE acks # inflight.unseen
      BY <3>1, <3>3 DEF TypeOK, InflightBatch
    <3> QED
      BY <3>2, <3>3
  <2> QED
    BY <1>4, <2>1, NoneTypes DEF drain_rule_acks_once, TypeOK, Phase
<1>5. CASE recv_error
  BY <1>5 DEF recv_error, TypeOK, Phase
<1>6. CASE handle_ack_timeout
  <2>1. completed_batch' \in CompletedBatch
    BY <1>6, ReportType DEF handle_ack_timeout
  <2> QED
    BY <1>6, <2>1, NoneTypes DEF handle_ack_timeout, queue_compensate_resync, TypeOK, Phase
<1> QED
  BY <1>1, <1>2, <1>3, <1>4, <1>5, <1>6

\* drive_reactor up to the maintenance slice keeps the types.
LEMMA TypeDrive == TypeOK /\ Drive => TypeOK'
<1> SUFFICES ASSUME TypeOK, Drive PROVE TypeOK'
  OBVIOUS
<1> USE DEF env, socket, debounce, batch, shutdown, resync, startup, slice
<1>1. CASE start_pending_batch
  <2>1. PICK take \in Chunks(pending, BatchMax) : FlushChunk(take)
    BY <1>1 DEF start_pending_batch
  <2> DEFINE ops == prefilter(Only(pending, take), owned_ips)
  <2>2. ops \in Batch /\ pending' \in Batch
    BY <2>1, BatchTypes DEF TypeOK, FlushChunk, PullPending
  <2>3. NextId(batch_id) \in BatchId
    BY IdType DEF TypeOK
  <2>4. rules' \in SUBSET Key /\ inflight' \in InflightBatch /\ batch_id' \in BatchId /\ phase' \in Phase
    BY <2>1, <2>2, <2>3, SendType, SendFailsType DEF FlushChunk, EndIteration, Phase, TypeOK
  <2> QED
    BY <1>1, <2>1, <2>2, <2>4 DEF start_pending_batch, FlushChunk, PullPending, TypeOK
<1>2. CASE enter_slice
  BY <1>2 DEF enter_slice, TypeOK, Phase
<1>3. CASE await_acks
  BY <1>3 DEF await_acks, EndIteration, TypeOK, Phase
<1> QED
  BY <1>1, <1>2, <1>3 DEF Drive

\* The Idle arm of the maintenance loop, and leaving the loop, keep the types.
LEMMA TypeIdle ==
    ASSUME TypeOK,
           \/ prepare_shutdown_cleanup_job \/ begin_startup_cleanup \/ begin_resync
           \/ stay_idle \/ slice_over
    PROVE  TypeOK'
<1> USE DEF env, socket, debounce, batch, shutdown, resync, startup, slice
<1>1. OpBudget \in 0 .. OpBudget
  BY ConstantsAssumption
<1>2. CASE prepare_shutdown_cleanup_job
  <2>1. AllOf(owned_ips, "Delete") \in Batch
    BY BatchTypes DEF Action
  <2>2. maintenance' \in MaintenanceJob
    <3>1. [Idle EXCEPT !.job = "CleanupTracked", !.todo = AllOf(owned_ips, "Delete"),
                       !.batch_id = batch_id] \in MaintenanceJob
      BY <2>1, NoneTypes DEF MaintenanceJob, Job, ApplyJob, TypeOK
    <3> QED
      BY <1>2, <3>1 DEF prepare_shutdown_cleanup_job, TypeOK
  <2> QED
    BY <1>2, <2>2 DEF prepare_shutdown_cleanup_job, Continue, TypeOK, Phase
<1>3. CASE begin_startup_cleanup
  <2>1. maintenance' \in MaintenanceJob
    BY <1>3, NoneTypes DEF begin_startup_cleanup, MaintenanceJob, Job, TypeOK
  <2> QED
    BY <1>3, <2>1 DEF begin_startup_cleanup, Continue, TypeOK, Phase
<1>4. CASE begin_resync
  <2>1. maintenance' \in MaintenanceJob
    BY <1>4, NoneTypes DEF begin_resync, MaintenanceJob, Job, TypeOK
  <2> QED
    BY <1>4, <2>1 DEF begin_resync, Continue, TypeOK, Phase
<1>5. CASE stay_idle
  BY <1>1, <1>5 DEF stay_idle, Break, EndIteration, TypeOK, Phase
<1>6. CASE slice_over
  BY <1>1, <1>6 DEF slice_over, Break, EndIteration, TypeOK, Phase
<1> QED
  BY <1>2, <1>3, <1>4, <1>5, <1>6

\* The StartupCleanupDumpCollect arm keeps the types.
LEMMA TypeCollect ==
    ASSUME TypeOK,
           collect_finished \/ collect_pending \/ collect_done \/ collect_fails
    PROVE  TypeOK'
<1> USE DEF env, socket, debounce, batch, shutdown, resync, startup, slice
<1>1. maintenance.todo \in Batch /\ maintenance.batch_id \in BatchId /\ maintenance.family_idx \in 0 .. 2
  BY DEF TypeOK, MaintenanceJob
<1>2. ASSUME NEW keys PROVE Collected(keys) \in Batch
  BY <1>1 DEF Collected, Batch, Action
<1>3. CurrentFamily \in 0 .. 2 /\ (CurrentFamily # 2 => CurrentFamily + 1 \in 0 .. 2)
  BY <1>1 DEF CurrentFamily, next_startup_cleanup_family
<1>4. Reply \in RuleDump
  BY DEF Reply, RuleDump, TypeOK
<1>5. ASSUME InSlice("StartupCleanupDumpCollect") PROVE budget_ops - 1 \in 0 .. OpBudget
  BY <1>5, ConstantsAssumption DEF InSlice, TypeOK
<1>6. CASE collect_finished
  <2>1. /\ maintenance' \in MaintenanceJob
        /\ batch_id' \in BatchId
        /\ startup_cleanup_retry_count' \in Nat
        /\ startup_cleanup_pending' \in BOOLEAN
        /\ startup_cleanup_retry_deadline' \in BOOLEAN
        /\ resync_requested' \in BOOLEAN
    <3>1. CASE maintenance.todo = NoOps
      BY <1>1, <1>6, <3>1, NoneTypes DEF collect_finished, StartupFinished, TypeOK
    <3>2. CASE maintenance.todo # NoOps
      <4>1. /\ maintenance' = [maintenance EXCEPT !.job = "StartupCleanupDumpApply", !.family_idx = 2]
            /\ UNCHANGED <<batch_id, startup, resync_requested>>
        BY <1>6, <3>2 DEF collect_finished
      <4>2. maintenance' \in MaintenanceJob
        <5>1. "StartupCleanupDumpApply" \in Job /\ 2 \in 0 .. 2
          BY DEF Job, ApplyJob
        <5>2. maintenance \in MaintenanceJob
          BY DEF TypeOK
        <5> QED
          BY <4>1, <5>1, <5>2 DEF MaintenanceJob
      <4>3. /\ batch_id' = batch_id /\ resync_requested' = resync_requested
            /\ startup_cleanup_pending' = startup_cleanup_pending
            /\ startup_cleanup_retry_deadline' = startup_cleanup_retry_deadline
            /\ startup_cleanup_retry_count' = startup_cleanup_retry_count
        BY <4>1
      <4> QED
        BY <4>2, <4>3 DEF TypeOK
    <3> QED
      BY <3>1, <3>2
  <2> QED
    BY <1>5, <1>6, <2>1 DEF collect_finished, Continue, TypeOK, Phase
<1>7. CASE collect_pending
  <2>1. rule_dump' \in RuleDump /\ maintenance' \in MaintenanceJob
    <3>1. PICK keys :
            /\ rule_dump' = [Reply EXCEPT !.keys = @ \ keys]
            /\ maintenance' = [maintenance EXCEPT !.family_idx = CurrentFamily,
                                                  !.dumping = TRUE, !.todo = Collected(keys)]
      BY <1>7 DEF collect_pending
    <3>2. Collected(keys) \in Batch
      BY <1>2
    <3>3. rule_dump' \in RuleDump
      BY <1>4, <3>1 DEF RuleDump
    <3>4. maintenance' \in MaintenanceJob
      BY <1>3, <3>1, <3>2 DEF MaintenanceJob, TypeOK
    <3> QED
      BY <3>3, <3>4
  <2>2. budget_ops' \in 0 .. OpBudget /\ phase' \in Phase
    <3>1. Break
      BY <1>7 DEF collect_pending
    <3> QED
      BY <3>1, ConstantsAssumption DEF Break, EndIteration, Phase
  <2> QED
    BY <1>7, <2>1, <2>2 DEF collect_pending, Collecting, TypeOK
<1>8. CASE collect_done
  <2>1. maintenance' \in MaintenanceJob
    BY <1>2, <1>3, <1>8 DEF collect_done, Collecting, MaintenanceJob, Job, ApplyJob, TypeOK
  <2> QED
    BY <1>5, <1>8, <2>1, NoneTypes DEF collect_done, Collecting, Continue, TypeOK, Phase
<1>9. CASE collect_fails
  BY <1>5, <1>9, NoneTypes, ConstantsAssumption
     DEF collect_fails, Collecting, StartupRetry, Continue, TypeOK, Phase
<1> QED
  BY <1>6, <1>7, <1>8, <1>9

\* The arms that send a plan in chunks keep the types.
LEMMA TypeApply ==
    ASSUME TypeOK,
           \/ \E job \in ApplyJob : apply_chunk(job) \/ apply_chunk_fails(job)
           \/ startup_apply_done \/ resync_apply_done \/ cleanup_tracked_done
    PROVE  TypeOK'
<1> USE DEF env, socket, debounce, batch, shutdown, resync, startup, slice
<1>1. maintenance.todo \in Batch /\ maintenance.batch_id \in BatchId /\ maintenance.family_idx \in 0 .. 2
  BY DEF TypeOK, MaintenanceJob
<1>2. NextId(maintenance.batch_id) \in BatchId
  BY <1>1, IdType
<1>3. ASSUME ConsumeCompleted PROVE completed_batch' \in CompletedBatch
  BY <1>3, NoneTypes DEF ConsumeCompleted, TypeOK
<1>4. ASSUME NEW job \in ApplyJob, apply_chunk(job) PROVE TypeOK'
  <2>1. ASSUME ~StillWaiting
        PROVE  rules' \in SUBSET Key /\ inflight' \in InflightBatch /\ maintenance' \in MaintenanceJob
    <3>1. PICK c : SendChunk(c)
      BY <1>4, <2>1 DEF apply_chunk
    <3>2. Only(maintenance.todo, c) \in Batch /\ Except(maintenance.todo, c) \in Batch
      BY <1>1, BatchTypes
    <3> QED
      BY <1>2, <3>1, <3>2, SendType DEF SendChunk, MaintenanceJob, TypeOK
  <2>2. budget_ops' \in 0 .. OpBudget /\ phase' \in Phase
    BY <1>4, ConstantsAssumption DEF apply_chunk, Break, EndIteration, Phase
  <2> QED
    BY <1>3, <1>4, <2>1, <2>2 DEF apply_chunk, TypeOK
<1>5. ASSUME NEW job \in ApplyJob, apply_chunk_fails(job) PROVE TypeOK'
  <2>1. rules' \in SUBSET Key
    BY <1>5, SendFailsType DEF apply_chunk_fails
  <2>2. CASE job = "StartupCleanupDumpApply"
    <3>1. /\ startup_cleanup_retry_count' \in Nat /\ startup_cleanup_pending' \in BOOLEAN
          /\ startup_cleanup_retry_deadline' \in BOOLEAN /\ resync_requested' \in BOOLEAN
          /\ maintenance' \in MaintenanceJob
      BY <1>5, <2>2, NoneTypes DEF apply_chunk_fails, StartupRetry, TypeOK
    <3>2. budget_ops' \in 0 .. OpBudget /\ phase' \in Phase
      BY <1>5, <2>2, BudgetType DEF apply_chunk_fails, Continue, Phase
    <3> QED
      BY <1>3, <1>5, <2>1, <3>1, <3>2 DEF apply_chunk_fails, TypeOK
  <2>3. CASE job # "StartupCleanupDumpApply"
    BY <1>3, <1>5, <2>1, <2>3, NoneTypes DEF apply_chunk_fails, TypeOK, Phase
  <2> QED
    BY <2>2, <2>3
<1>6. CASE startup_apply_done
  <2>1. /\ maintenance' \in MaintenanceJob
        /\ batch_id' \in BatchId
        /\ startup_cleanup_retry_count' \in Nat
        /\ startup_cleanup_pending' \in BOOLEAN
        /\ startup_cleanup_retry_deadline' \in BOOLEAN
        /\ resync_requested' \in BOOLEAN
    <3>1. CASE next_startup_cleanup_family(maintenance.family_idx) # 2
      <4>1. [Idle EXCEPT !.job = "StartupCleanupDumpCollect",
                         !.family_idx = maintenance.family_idx,
                         !.batch_id = maintenance.batch_id] \in MaintenanceJob
        BY <1>1, NoneTypes DEF MaintenanceJob, Job
      <4> QED
        BY <1>1, <1>6, <3>1, <4>1 DEF startup_apply_done, TypeOK
    <3>2. CASE next_startup_cleanup_family(maintenance.family_idx) = 2
      BY <1>1, <1>6, <3>2, NoneTypes DEF startup_apply_done, StartupFinished, TypeOK
    <3> QED
      BY <3>1, <3>2
  <2> QED
    BY <1>3, <1>6, <2>1, BudgetType DEF startup_apply_done, PlanDone, Continue, TypeOK, Phase
<1>7. CASE resync_apply_done
  BY <1>1, <1>3, <1>7, BudgetType, NoneTypes DEF resync_apply_done, PlanDone, Continue, TypeOK, Phase
<1>8. CASE cleanup_tracked_done
  BY <1>1, <1>3, <1>8, BudgetType, NoneTypes DEF cleanup_tracked_done, PlanDone, Continue, TypeOK, Phase
<1> QED
  BY <1>4, <1>5, <1>6, <1>7, <1>8

\* The ResyncBuild arm, with its address dumps, keeps the types.
LEMMA TypeBuild ==
    ASSUME TypeOK,
           build_resync_plan \/ dump_next_family \/ plan_ready \/ build_fails
    PROVE  TypeOK'
<1> USE DEF env, socket, debounce, batch, shutdown, resync, startup, slice
<1>1. ASSUME NEW n \in 0 .. Len(routeq), Discard(n) PROVE routeq' \in Seq(AddrEvent)
  BY <1>1, DiscardType DEF TypeOK
<1>2. Len(routeq) \in 0 .. Len(routeq)
  BY DEF TypeOK
<1>3. Present(0) \in SUBSET Key /\ Present(1) \in SUBSET Key
  BY ConstantsAssumption DEF Present, FamilyKeys
<1>4. CASE build_resync_plan
  <2>1. budget_ops' \in 0 .. OpBudget
    BY <1>4, ConstantsAssumption DEF build_resync_plan, InSlice, TypeOK
  <2>2. routeq' \in Seq(AddrEvent)
    BY <1>1, <1>2, <1>4 DEF build_resync_plan
  <2> QED
    BY <1>3, <1>4, <2>1, <2>2 DEF build_resync_plan, TypeOK, Phase
<1>5. CASE dump_next_family
  BY <1>1, <1>2, <1>3, <1>5 DEF dump_next_family, TypeOK, Phase
<1>6. CASE plan_ready
  <2>1. maintenance' \in MaintenanceJob
    BY <1>6, BatchTypes DEF plan_ready, TypeOK, MaintenanceJob, Job, ApplyJob
  <2> QED
    BY <1>1, <1>6, <2>1 DEF plan_ready, Continue, TypeOK, Phase
<1>7. CASE build_fails
  <2>1. routeq' \in Seq(AddrEvent)
    BY <1>1, <1>7 DEF build_fails
  <2>2. budget_ops' \in 0 .. OpBudget /\ phase' \in Phase
    BY <1>7, ConstantsAssumption DEF build_fails, Break, EndIteration, Phase
  <2>3. maintenance' \in MaintenanceJob /\ target_keys' \in SUBSET Key /\ resync_requested' \in BOOLEAN
    BY <1>7, NoneTypes DEF build_fails, BuildAgain
  <2> QED
    BY <1>7, <2>1, <2>2, <2>3 DEF build_fails, TypeOK
<1> QED
  BY <1>4, <1>5, <1>6, <1>7

\* The cleanup run() performs after a loop error keeps the types.
LEMMA TypeExit == TypeOK /\ cleanup_rules_tracked => TypeOK'
BY DEF cleanup_rules_tracked, TypeOK, Phase, env, socket, debounce, batch, shutdown,
       resync, startup, slice

\* Every step keeps the types.
LEMMA TypeStep == TypeOK /\ [Next]_vars => TypeOK'
<1> SUFFICES ASSUME TypeOK, [Next]_vars PROVE TypeOK'
  OBVIOUS
<1>1. CASE Next
  BY <1>1, TypeEnvironment, TypeHandlers, TypeDrive, TypeIdle, TypeCollect, TypeApply,
     TypeBuild, TypeExit DEF Next, Reactor, Slice
<1>2. CASE UNCHANGED vars
  BY <1>2 DEF vars, TypeOK, env, socket, debounce, batch, shutdown, resync, startup, slice
<1> QED
  BY <1>1, <1>2

\* Every reachable state of the reactor is well typed, whatever fails.
THEOREM TypeCorrect == Spec => []TypeOK
BY TypeInit, TypeStep, PTL DEF Spec

-----------------------------------------------------------------------------
(* The handshake between the reactor and the maintenance job.               *)

\* The maintenance slice, and the dumps inside it, run only while no batch is
\* in flight, and only a job that builds a plan dumps addresses.
SliceAlone ==
    /\ phase \in {"slice", "dump4", "dump6"} => inflight.owner = "None"
    /\ phase \in {"dump4", "dump6"} => maintenance.job = "ResyncBuild"

\* The end of a family's dump, or of its deletions, leaves no batch to wait for.
LEMMA StartupStepWaits ==
    ASSUME maintenance \in MaintenanceJob, maintenance.waiting_batch_id = NoId \/ startup_apply_done,
           collect_finished \/ startup_apply_done
    PROVE  maintenance'.waiting_batch_id = NoId
<1>1. CASE collect_finished /\ maintenance.todo = NoOps
  BY <1>1 DEF collect_finished, StartupFinished, Idle
<1>2. CASE collect_finished /\ maintenance.todo # NoOps
  <2>1. maintenance.waiting_batch_id = NoId
    BY <1>2 DEF collect_finished, startup_apply_done, PlanDone
  <2>2. maintenance' = [maintenance EXCEPT !.job = "StartupCleanupDumpApply", !.family_idx = 2]
    BY <1>2 DEF collect_finished
  <2> QED
    BY <2>1, <2>2 DEF MaintenanceJob
<1>3. CASE startup_apply_done /\ next_startup_cleanup_family(maintenance.family_idx) # 2
  <2>1. maintenance' = [Idle EXCEPT !.job = "StartupCleanupDumpCollect",
                                    !.family_idx = maintenance.family_idx,
                                    !.batch_id = maintenance.batch_id]
    BY <1>3 DEF startup_apply_done
  <2> QED
    BY <2>1 DEF Idle
<1>4. CASE startup_apply_done /\ next_startup_cleanup_family(maintenance.family_idx) = 2
  BY <1>4 DEF startup_apply_done, StartupFinished, Idle
<1> QED
  BY <1>1, <1>2, <1>3, <1>4

HandshakeInv == TypeOK /\ SliceAlone /\ BatchHandshake

\* The reactor starts with no batch, no result and no job that waits.
LEMMA HandshakeInit == Init => HandshakeInv
<1> SUFFICES ASSUME Init PROVE HandshakeInv
  OBVIOUS
<1>1. SliceAlone
  BY DEF Init, SliceAlone
<1>2. maintenance.waiting_batch_id = NoId /\ inflight.owner = "None"
  BY DEF Init, Idle, NoInflight
<1>3. completed_batch = NoCompleted
  BY DEF Init
<1>4. BatchHandshake
  BY <1>2, <1>3 DEF BatchHandshake
<1> QED
  BY <1>1, <1>4, TypeInit DEF HandshakeInv

\* The handlers keep the handshake: a batch that finishes or times out becomes
\* the result its job waits for.
LEMMA HandshakeHandlers ==
    ASSUME HandshakeInv,
           \/ flush_timerfd \/ handle_route_events \/ handle_signals
           \/ drain_rule_acks_once \/ recv_error \/ handle_ack_timeout
    PROVE  SliceAlone' /\ BatchHandshake'
<1> USE DEF env, socket, debounce, batch, shutdown, resync, startup, slice,
            HandshakeInv, SliceAlone, BatchHandshake
<1>1. CASE flush_timerfd
  BY <1>1 DEF flush_timerfd
<1>2. CASE handle_route_events
  BY <1>2 DEF handle_route_events
<1>3. CASE handle_signals
  BY <1>3 DEF handle_signals
<1>4. CASE drain_rule_acks_once
  <2>1. PICK acks \in SUBSET inflight.unseen :
          IF acks = inflight.unseen THEN finish_inflight_batch
          ELSE /\ inflight' = [inflight EXCEPT !.unseen = @ \ acks]
               /\ UNCHANGED <<owned_ips, completed_batch>>
    BY <1>4 DEF drain_rule_acks_once
  <2>2. phase' = "events" /\ UNCHANGED maintenance
    BY <1>4 DEF drain_rule_acks_once
  <2>3. CASE acks = inflight.unseen
    BY <2>1, <2>2, <2>3 DEF finish_inflight_batch, ReportCompleted, NoInflight, TypeOK
  <2>4. CASE acks # inflight.unseen
    <3>1. inflight'.owner = inflight.owner /\ inflight'.batch_id = inflight.batch_id
      BY <2>1, <2>4 DEF TypeOK, InflightBatch
    <3> QED
      BY <2>1, <2>2, <2>4, <3>1
  <2> QED
    BY <2>3, <2>4
<1>5. CASE recv_error
  BY <1>5 DEF recv_error
<1>6. CASE handle_ack_timeout
  BY <1>6 DEF handle_ack_timeout, ReportCompleted, NoInflight, TypeOK
<1> QED
  BY <1>1, <1>2, <1>3, <1>4, <1>5, <1>6

\* A pending batch is only started when none is in flight, so it takes no
\* maintenance batch away.
LEMMA HandshakeDrive == HandshakeInv /\ Drive => SliceAlone' /\ BatchHandshake'
<1> SUFFICES ASSUME HandshakeInv, Drive PROVE SliceAlone' /\ BatchHandshake'
  OBVIOUS
<1> USE DEF env, socket, debounce, batch, shutdown, resync, startup, slice,
            HandshakeInv, SliceAlone, BatchHandshake
<1>1. CASE start_pending_batch
  <2>1. PICK take : FlushChunk(take)
    BY <1>1 DEF start_pending_batch
  <2>2. inflight.owner = "None" /\ UNCHANGED <<maintenance, completed_batch>>
    BY <1>1 DEF start_pending_batch
  <2>3. \/ phase' = "slice" /\ UNCHANGED inflight
        \/ phase' \in {"wait", "stopped"} /\ inflight'.owner = "Pending"
        \/ phase' = "exit" /\ UNCHANGED inflight
    <3>1. ASSUME NEW id, NEW ops, Send("Pending", id, ops) PROVE inflight'.owner = "Pending"
      BY <3>1, SendOwner
    <3>2. \/ phase' = "slice" /\ UNCHANGED inflight
          \/ /\ Send("Pending", NextId(batch_id), prefilter(Only(pending, take), owned_ips))
             /\ EndIteration
          \/ phase' = "exit" /\ UNCHANGED inflight
      BY <2>1 DEF FlushChunk
    <3>3. ASSUME EndIteration PROVE phase' \in {"wait", "stopped"}
      BY <3>3 DEF EndIteration
    <3> QED
      BY <3>1, <3>2, <3>3
  <2>4. CASE UNCHANGED inflight
    BY <2>2, <2>3, <2>4
  <2>5. CASE phase' \in {"wait", "stopped"} /\ inflight'.owner = "Pending"
    <3>1. SliceAlone'
      BY <2>5
    <3>2. BatchHandshake'
      BY <2>2, <2>5
    <3> QED
      BY <3>1, <3>2
  <2> QED
    BY <2>3, <2>4, <2>5
<1>2. CASE enter_slice
  BY <1>2 DEF enter_slice
<1>3. CASE await_acks
  BY <1>3 DEF await_acks, EndIteration
<1> QED
  BY <1>1, <1>2, <1>3 DEF Drive

\* A new maintenance job starts without waiting.
LEMMA HandshakeIdle ==
    ASSUME HandshakeInv,
           \/ prepare_shutdown_cleanup_job \/ begin_startup_cleanup \/ begin_resync
           \/ stay_idle \/ slice_over
    PROVE  SliceAlone' /\ BatchHandshake'
<1> USE DEF env, socket, debounce, batch, shutdown, resync, startup, slice,
            HandshakeInv, SliceAlone, BatchHandshake, Idle, Continue, Break, EndIteration, InSlice
<1>1. CASE prepare_shutdown_cleanup_job
  BY <1>1 DEF prepare_shutdown_cleanup_job, ApplyJob
<1>2. CASE begin_startup_cleanup
  BY <1>2 DEF begin_startup_cleanup, ApplyJob
<1>3. CASE begin_resync
  BY <1>3 DEF begin_resync, ApplyJob
<1>4. CASE stay_idle
  BY <1>4 DEF stay_idle
<1>5. CASE slice_over
  BY <1>5 DEF slice_over
<1> QED
  BY <1>1, <1>2, <1>3, <1>4, <1>5

\* Dump collection waits for no batch.
LEMMA HandshakeCollect ==
    ASSUME HandshakeInv,
           collect_finished \/ collect_pending \/ collect_done \/ collect_fails
    PROVE  SliceAlone' /\ BatchHandshake'
<1> USE DEF env, socket, debounce, batch, shutdown, resync, startup, slice,
            HandshakeInv, SliceAlone, BatchHandshake
<1>1. InSlice("StartupCleanupDumpCollect") /\ UNCHANGED <<inflight, completed_batch>>
  BY DEF collect_finished, collect_pending, collect_done, collect_fails, Collecting
<1>2. maintenance.waiting_batch_id = NoId /\ inflight.owner = "None" /\ completed_batch = NoCompleted
  BY <1>1 DEF InSlice, ApplyJob
<1>3. maintenance'.waiting_batch_id = NoId
  <2>1. CASE collect_finished
    BY <1>2, <2>1, StartupStepWaits DEF TypeOK
  <2>2. CASE collect_pending
    BY <1>2, <2>2 DEF collect_pending, TypeOK, MaintenanceJob
  <2>3. CASE collect_done
    BY <1>2, <2>3 DEF collect_done, TypeOK, MaintenanceJob
  <2>4. CASE collect_fails
    BY <2>4 DEF collect_fails, StartupRetry, Idle
  <2> QED
    BY <2>1, <2>2, <2>3, <2>4
<1>4. phase' \in {"slice", "wait", "stopped"}
  BY DEF collect_finished, collect_pending, collect_done, collect_fails, Continue, Break, EndIteration
<1> QED
  BY <1>1, <1>2, <1>3, <1>4

\* A job sends a batch and waits for its id in the same step, and consumes the
\* result before it sends the next.
LEMMA HandshakeApply ==
    ASSUME HandshakeInv,
           \/ \E job \in ApplyJob : apply_chunk(job) \/ apply_chunk_fails(job)
           \/ startup_apply_done \/ resync_apply_done \/ cleanup_tracked_done
    PROVE  SliceAlone' /\ BatchHandshake'
<1> USE DEF env, socket, debounce, batch, shutdown, resync, startup, slice,
            HandshakeInv, SliceAlone, BatchHandshake
<1>1. ASSUME ConsumeCompleted PROVE completed_batch' = NoCompleted
  BY <1>1 DEF ConsumeCompleted
<1>2. ASSUME NEW job \in ApplyJob, apply_chunk(job) PROVE SliceAlone' /\ BatchHandshake'
  <2>1. inflight.owner = "None" /\ maintenance.job = job /\ phase' \in {"wait", "stopped"}
    BY <1>2 DEF apply_chunk, InSlice, Break, EndIteration
  <2>2. CASE StillWaiting
    BY <1>2, <2>1, <2>2 DEF apply_chunk
  <2>3. CASE ~StillWaiting
    <3>1. PICK c : SendChunk(c)
      BY <1>2, <2>3 DEF apply_chunk
    <3>2. completed_batch' = NoCompleted
      BY <1>1, <1>2, <2>3 DEF apply_chunk
    <3>3. inflight'.owner = "Maintenance" /\ inflight'.batch_id = NextId(maintenance.batch_id)
      BY <3>1, SendOwner DEF SendChunk
    <3>4. /\ maintenance'.waiting_batch_id = NextId(maintenance.batch_id)
          /\ maintenance'.job = job
      BY <2>1, <3>1 DEF SendChunk, TypeOK, MaintenanceJob
    <3>5. NextId(maintenance.batch_id) # NoId
      BY IdType DEF TypeOK, MaintenanceJob, BatchId, NoId
    <3> QED
      BY <2>1, <3>2, <3>3, <3>4, <3>5
  <2> QED
    BY <2>2, <2>3
<1>3. ASSUME NEW job \in ApplyJob, apply_chunk_fails(job) PROVE SliceAlone' /\ BatchHandshake'
  <2>1. UNCHANGED inflight /\ inflight.owner = "None"
    BY <1>3 DEF apply_chunk_fails, InSlice
  <2>2. completed_batch' = NoCompleted
    BY <1>1, <1>3 DEF apply_chunk_fails
  <2>3. maintenance' = Idle /\ phase' \in {"slice", "exit"}
    BY <1>3 DEF apply_chunk_fails, StartupRetry, Continue
  <2>4. maintenance'.waiting_batch_id = NoId
    BY <2>3 DEF Idle
  <2> QED
    BY <2>1, <2>2, <2>3, <2>4
<1>4. ASSUME NEW job \in ApplyJob, PlanDone(job), maintenance'.waiting_batch_id = NoId
      PROVE  SliceAlone' /\ BatchHandshake'
  BY <1>1, <1>4 DEF PlanDone, InSlice, Continue
<1>5. CASE startup_apply_done
  <2>1. maintenance'.waiting_batch_id = NoId
    BY <1>5, StartupStepWaits DEF TypeOK
  <2>2. PlanDone("StartupCleanupDumpApply")
    BY <1>5 DEF startup_apply_done
  <2> QED
    BY <1>4, <2>1, <2>2 DEF ApplyJob
<1>6. CASE resync_apply_done
  BY <1>4, <1>6 DEF resync_apply_done, Idle, ApplyJob
<1>7. CASE cleanup_tracked_done
  BY <1>4, <1>7 DEF cleanup_tracked_done, Idle, ApplyJob
<1> QED
  BY <1>2, <1>3, <1>5, <1>6, <1>7

\* Building a resync plan waits for no batch.
LEMMA HandshakeBuild ==
    ASSUME HandshakeInv,
           build_resync_plan \/ dump_next_family \/ plan_ready \/ build_fails
    PROVE  SliceAlone' /\ BatchHandshake'
<1> USE DEF env, socket, debounce, batch, shutdown, resync, startup, slice,
            HandshakeInv, SliceAlone, BatchHandshake
<1>1. CASE build_resync_plan
  BY <1>1 DEF build_resync_plan, InSlice
<1>2. CASE dump_next_family
  BY <1>2 DEF dump_next_family
<1>3. CASE plan_ready
  BY <1>3 DEF plan_ready, Continue, ApplyJob, TypeOK, MaintenanceJob
<1>4. CASE build_fails
  BY <1>4 DEF build_fails, BuildAgain, Break, EndIteration, Idle, ApplyJob
<1> QED
  BY <1>1, <1>2, <1>3, <1>4

\* Every step keeps the handshake invariant.
LEMMA HandshakeStep == HandshakeInv /\ [Next]_vars => HandshakeInv'
<1> SUFFICES ASSUME HandshakeInv, [Next]_vars PROVE HandshakeInv'
  OBVIOUS
<1> USE DEF env, socket, debounce, batch, shutdown, resync, startup, slice
<1>1. TypeOK'
  BY TypeStep DEF HandshakeInv
<1>2. CASE Environment
  <2>1. UNCHANGED <<socket, phase, owned_ips, debounce, batch, shutdown, resync, startup, slice>>
    BY <1>2 DEF Environment, AddrAdded, AddrRemoved, AddrRefreshed, ChangeAllowed, SendSignal
  <2> QED
    BY <1>1, <2>1 DEF HandshakeInv, SliceAlone, BatchHandshake
<1>3. CASE cleanup_rules_tracked
  BY <1>1, <1>3 DEF cleanup_rules_tracked, HandshakeInv, SliceAlone, BatchHandshake
<1>4. CASE Reactor
  BY <1>1, <1>3, <1>4, HandshakeHandlers, HandshakeDrive, HandshakeIdle, HandshakeCollect,
     HandshakeApply, HandshakeBuild DEF Reactor, Slice, HandshakeInv
<1>5. CASE UNCHANGED vars
  BY <1>1, <1>5 DEF vars, HandshakeInv, SliceAlone, BatchHandshake
<1> QED
  BY <1>2, <1>4, <1>5 DEF Next

\* Whatever fails and however ids are reused, a waiting job's batch is either in
\* flight or has left its result: no maintenance job waits for ever, and none
\* takes a result that is not its own.
THEOREM HandshakeHolds == Spec => []BatchHandshake
<1>1. HandshakeInv => BatchHandshake
  BY DEF HandshakeInv
<1> QED
  BY <1>1, HandshakeInit, HandshakeStep, PTL DEF Spec

-----------------------------------------------------------------------------
(* Announced compensations.                                                 *)

CompensationInv == HandshakeInv /\ CompensationNotForgotten

\* A step of a startup cleanup job leaves an announced compensation requested:
\* it only ever sets resync_requested.
LEMMA StartupKeepsRequest ==
    ASSUME \/ collect_finished \/ collect_pending \/ collect_done \/ collect_fails
           \/ startup_apply_done
    PROVE  /\ resync_requested => resync_requested'
           /\ UNCHANGED resync_compensate_pending
           /\ maintenance.job \notin {"ResyncBuild", "ResyncApply"}
<1> USE DEF startup, resync, Collecting, InSlice, PlanDone
<1>1. CASE collect_finished
  BY <1>1 DEF collect_finished, StartupFinished
<1>2. CASE collect_pending
  BY <1>2 DEF collect_pending
<1>3. CASE collect_done
  BY <1>3 DEF collect_done
<1>4. CASE collect_fails
  BY <1>4 DEF collect_fails, StartupRetry
<1>5. CASE startup_apply_done
  BY <1>5 DEF startup_apply_done, StartupFinished
<1> QED
  BY <1>1, <1>2, <1>3, <1>4, <1>5

\* Within the maintenance loop a compensation is only dropped when a resync
\* has been applied; a failed build asks again.
LEMMA CompensationSlice ==
    ASSUME CompensationInv, Slice \/ slice_over
    PROVE  CompensationNotForgotten'
<1> USE DEF CompensationInv, CompensationNotForgotten, InSlice, Idle, resync
<1>1. CASE prepare_shutdown_cleanup_job
  BY <1>1 DEF prepare_shutdown_cleanup_job
<1>2. CASE begin_startup_cleanup
  BY <1>2 DEF begin_startup_cleanup
<1>3. CASE begin_resync
  BY <1>3 DEF begin_resync
<1>4. CASE stay_idle
  BY <1>4 DEF stay_idle
<1>5. CASE slice_over
  BY <1>5 DEF slice_over
<1>6. CASE collect_finished \/ collect_pending \/ collect_done \/ collect_fails \/ startup_apply_done
  <2>1. phase = "slice"
    BY <1>6 DEF collect_finished, collect_pending, collect_done, collect_fails, Collecting,
                startup_apply_done, PlanDone
  <2> QED
    BY <1>6, <2>1, StartupKeepsRequest
<1>7. ASSUME NEW job \in ApplyJob, apply_chunk(job) PROVE CompensationNotForgotten'
  <2>1. maintenance'.job = maintenance.job
    BY <1>7 DEF apply_chunk, SendChunk, HandshakeInv, TypeOK, MaintenanceJob
  <2> QED
    BY <1>7, <2>1 DEF apply_chunk
<1>8. ASSUME NEW job \in ApplyJob, apply_chunk_fails(job) PROVE CompensationNotForgotten'
  BY <1>8 DEF apply_chunk_fails, StartupRetry
<1>9. CASE resync_apply_done
  BY <1>9 DEF resync_apply_done
<1>10. CASE cleanup_tracked_done
  BY <1>10 DEF cleanup_tracked_done, PlanDone
<1>11. CASE build_resync_plan
  BY <1>11 DEF build_resync_plan
<1>12. CASE dump_next_family
  BY <1>12 DEF dump_next_family, HandshakeInv, SliceAlone
<1>13. CASE plan_ready
  BY <1>13 DEF plan_ready, HandshakeInv, TypeOK, MaintenanceJob
<1>14. CASE build_fails
  BY <1>14 DEF build_fails, BuildAgain
<1> QED
  BY <1>1, <1>2, <1>3, <1>4, <1>5, <1>6, <1>7, <1>8, <1>9, <1>10, <1>11, <1>12, <1>13, <1>14 DEF Slice

\* Every step keeps an announced compensation alive.
LEMMA CompensationStep == CompensationInv /\ [Next]_vars => CompensationInv'
<1> SUFFICES ASSUME CompensationInv, [Next]_vars PROVE CompensationNotForgotten'
  BY HandshakeStep DEF CompensationInv
<1> USE DEF CompensationInv, CompensationNotForgotten, resync, slice
<1>1. CASE Environment
  BY <1>1 DEF Environment, AddrAdded, AddrRemoved, AddrRefreshed, ChangeAllowed, SendSignal
<1>2. CASE flush_timerfd \/ recv_error \/ await_acks \/ enter_slice
  BY <1>2 DEF flush_timerfd, recv_error, await_acks, enter_slice, Awake, Driving
<1>3. CASE handle_route_events
  BY <1>3 DEF handle_route_events, Awake, queue_compensate_resync
<1>4. CASE handle_signals
  BY <1>4 DEF handle_signals, Awake
<1>5. CASE drain_rule_acks_once
  BY <1>5 DEF drain_rule_acks_once, Awake
<1>6. CASE handle_ack_timeout
  BY <1>6 DEF handle_ack_timeout, queue_compensate_resync
<1>7. CASE start_pending_batch
  BY <1>7 DEF start_pending_batch, Driving
<1>8. CASE cleanup_rules_tracked
  BY <1>8 DEF cleanup_rules_tracked
<1>9. CASE UNCHANGED vars
  BY <1>9 DEF vars
<1> QED
  BY <1>1, <1>2, <1>3, <1>4, <1>5, <1>6, <1>7, <1>8, <1>9, CompensationSlice DEF Next, Reactor, Drive

\* An announced compensation stays requested or running until its resync has
\* been applied, for every order of failures, signals and dumps.
THEOREM CompensationHolds == Spec => []CompensationNotForgotten
<1>1. Init => CompensationInv
  BY HandshakeInit DEF Init, CompensationInv, CompensationNotForgotten
<1>2. CompensationInv => CompensationNotForgotten
  BY DEF CompensationInv
<1> QED
  BY <1>1, <1>2, CompensationStep, PTL DEF Spec

-----------------------------------------------------------------------------
(* Startup retries.                                                         *)

RetryInv == HandshakeInv /\ StartupRetriesBounded

\* schedule_startup_cleanup_retry only asks for a retry while one is left.
LEMMA RetryBounded ==
    ASSUME StartupRetriesBounded, startup_cleanup_retry_count \in Nat, StartupRetry,
           maintenance.job \in {"StartupCleanupDumpCollect", "StartupCleanupDumpApply"}
    PROVE  StartupRetriesBounded'
<1>1. startup_cleanup_retry_count <= RetryLimit
  BY DEF StartupRetriesBounded
<1>2. maintenance'.job = "Idle"
  BY DEF StartupRetry, Idle
<1>3. RetryLimit \in Nat
  BY ConstantsAssumption
<1>4. startup_cleanup_retry_count' = startup_cleanup_retry_count + 1
  BY DEF StartupRetry
<1>5. startup_cleanup_pending' => startup_cleanup_retry_count + 1 <= RetryLimit
  BY DEF StartupRetry
<1>6. startup_cleanup_retry_count' <= RetryLimit + 1
  BY <1>1, <1>3, <1>4
<1> QED
  BY <1>2, <1>4, <1>5, <1>6 DEF StartupRetriesBounded

\* Every arm of the maintenance loop keeps the retry bound.
LEMMA RetrySlice ==
    ASSUME RetryInv, Slice \/ slice_over
    PROVE  StartupRetriesBounded'
<1> USE DEF RetryInv, InSlice, startup
<1> startup_cleanup_retry_count \in Nat /\ maintenance \in MaintenanceJob
  BY DEF HandshakeInv, TypeOK
<1>1. ASSUME UNCHANGED startup, maintenance'.job \notin {"StartupCleanupDumpCollect", "StartupCleanupDumpApply"}
      PROVE  StartupRetriesBounded'
  BY <1>1 DEF StartupRetriesBounded
<1>2. ASSUME UNCHANGED startup, maintenance.job \in {"StartupCleanupDumpCollect", "StartupCleanupDumpApply"}
      PROVE  StartupRetriesBounded'
  BY <1>2 DEF StartupRetriesBounded
<1>3. ASSUME UNCHANGED startup, maintenance'.job = maintenance.job PROVE StartupRetriesBounded'
  BY <1>3 DEF StartupRetriesBounded
<1>4. ASSUME StartupFinished PROVE StartupRetriesBounded'
  BY <1>4, ConstantsAssumption DEF StartupFinished, StartupRetriesBounded
<1>5. CASE prepare_shutdown_cleanup_job
  BY <1>5, <1>1 DEF prepare_shutdown_cleanup_job, Idle
<1>6. CASE begin_startup_cleanup
  BY <1>6 DEF begin_startup_cleanup, StartupRetriesBounded
<1>7. CASE begin_resync
  BY <1>7, <1>1 DEF begin_resync, Idle
<1>8. CASE stay_idle \/ slice_over
  BY <1>8, <1>3 DEF stay_idle, slice_over
<1>9. CASE collect_finished
  <2>1. CASE maintenance.todo = NoOps
    BY <1>4, <1>9, <2>1 DEF collect_finished
  <2>2. CASE maintenance.todo # NoOps
    BY <1>2, <1>9, <2>2 DEF collect_finished
  <2> QED
    BY <2>1, <2>2
<1>10. CASE collect_pending \/ collect_done
  BY <1>2, <1>10 DEF collect_pending, collect_done, Collecting
<1>11. CASE collect_fails
  BY <1>11, RetryBounded DEF collect_fails, Collecting
<1>12. ASSUME NEW job \in ApplyJob, apply_chunk(job) PROVE StartupRetriesBounded'
  <2>1. maintenance'.job = maintenance.job
    BY <1>12 DEF apply_chunk, SendChunk, MaintenanceJob
  <2> QED
    BY <1>3, <1>12, <2>1 DEF apply_chunk
<1>13. ASSUME NEW job \in ApplyJob, apply_chunk_fails(job) PROVE StartupRetriesBounded'
  <2>1. CASE job = "StartupCleanupDumpApply"
    BY <1>13, <2>1, RetryBounded DEF apply_chunk_fails
  <2>2. CASE job # "StartupCleanupDumpApply"
    BY <1>1, <1>13, <2>2 DEF apply_chunk_fails, Idle
  <2> QED
    BY <2>1, <2>2
<1>14. CASE startup_apply_done
  <2>1. CASE next_startup_cleanup_family(maintenance.family_idx) # 2
    BY <1>2, <1>14, <2>1 DEF startup_apply_done, PlanDone
  <2>2. CASE next_startup_cleanup_family(maintenance.family_idx) = 2
    BY <1>4, <1>14, <2>2 DEF startup_apply_done
  <2> QED
    BY <2>1, <2>2
<1>15. CASE resync_apply_done \/ cleanup_tracked_done
  BY <1>1, <1>15 DEF resync_apply_done, cleanup_tracked_done, Idle
<1>16. CASE build_resync_plan \/ dump_next_family
  BY <1>3, <1>16 DEF build_resync_plan, dump_next_family
<1>17. CASE plan_ready
  BY <1>1, <1>17 DEF plan_ready, MaintenanceJob
<1>18. CASE build_fails
  BY <1>1, <1>18 DEF build_fails, BuildAgain, Idle
<1> QED
  BY <1>5, <1>6, <1>7, <1>8, <1>9, <1>10, <1>11, <1>12, <1>13, <1>14, <1>15, <1>16, <1>17, <1>18 DEF Slice

\* Every step keeps the retry bound.
LEMMA RetryStep == RetryInv /\ [Next]_vars => RetryInv'
<1> SUFFICES ASSUME RetryInv, [Next]_vars PROVE StartupRetriesBounded'
  BY HandshakeStep DEF RetryInv
<1> USE DEF RetryInv, StartupRetriesBounded, startup, slice
<1>1. CASE Slice \/ slice_over
  BY <1>1, RetrySlice
<1>2. CASE Environment
  <2>1. UNCHANGED <<startup, maintenance>>
    BY <1>2 DEF Environment, AddrAdded, AddrRemoved, AddrRefreshed, ChangeAllowed, SendSignal
  <2> QED
    BY <2>1
<1>3. CASE \/ flush_timerfd \/ handle_route_events \/ handle_signals \/ drain_rule_acks_once
           \/ recv_error \/ handle_ack_timeout \/ Drive \/ cleanup_rules_tracked
  <2>1. UNCHANGED <<startup, maintenance>>
    BY <1>3 DEF flush_timerfd, handle_route_events, handle_signals, drain_rule_acks_once,
                recv_error, handle_ack_timeout, Drive, start_pending_batch, enter_slice,
                await_acks, cleanup_rules_tracked
  <2> QED
    BY <2>1
<1>4. CASE UNCHANGED vars
  BY <1>4 DEF vars
<1> QED
  BY <1>1, <1>2, <1>3, <1>4 DEF Next, Reactor

\* Whatever fails, the startup cleanup is due or running only while a retry is
\* left, so it is attempted at most RetryLimit + 1 times.
THEOREM RetriesHold == Spec => []StartupRetriesBounded
<1>1. Init => RetryInv
  <2>1. Init => startup_cleanup_retry_count = 0
    BY Zenon DEF Init
  <2>2. Init => StartupRetriesBounded
    BY <2>1, ConstantsAssumption DEF StartupRetriesBounded
  <2> QED
    BY <2>2, HandshakeInit DEF RetryInv
<1>2. RetryInv => StartupRetriesBounded
  BY DEF RetryInv
<1> QED
  BY <1>1, <1>2, RetryStep, PTL DEF Spec

-----------------------------------------------------------------------------
(* The timer.                                                               *)

\* Pending keys have an open window, and the reactor is not in epoll_wait once
\* event_loop's exit test holds.
Armed ==
    /\ pending # NoOps => quiet_deadline
    /\ phase = "wait" => ~LoopExit

\* Events that carry no action leave the pending map alone.
LEMMA InsertNothing ==
    ASSUME NEW q \in Seq(AddrEvent), NEW map \in Batch,
           \A i \in DOMAIN q : q[i].action \notin Action
    PROVE  insert_events(q, map) = map
BY DEF insert_events, Batch

\* Only the handler of address events and the flush touch the window.
LEMMA WindowStep ==
    ASSUME TypeOK, pending # NoOps => quiet_deadline, [Next]_vars
    PROVE  pending' # NoOps => quiet_deadline'
<1>1. CASE handle_route_events
  <2>0. PICK n \in 1 .. Len(routeq) :
          /\ pending' = insert_events(SubSeq(routeq, 1, n), pending)
          /\ ArmDebounce(\E i \in DOMAIN SubSeq(routeq, 1, n) :
                            SubSeq(routeq, 1, n)[i].action \in Action)
    BY <1>1, ProcessedType DEF handle_route_events
  <2> DEFINE read == SubSeq(routeq, 1, n)
             touched == \E i \in DOMAIN read : read[i].action \in Action
  <2>1. /\ pending' = insert_events(read, pending)
        /\ quiet_deadline' = (quiet_deadline \/ touched)
        /\ read \in Seq(AddrEvent)
    BY <2>0 DEF ArmDebounce, TypeOK
  <2> HIDE DEF read
  <2>2. CASE touched
    BY <2>1, <2>2
  <2>3. CASE ~touched
    <3>1. pending' = pending
      BY <2>1, <2>3, InsertNothing DEF TypeOK
    <3> QED
      BY <2>1, <3>1 DEF TypeOK
  <2> QED
    BY <2>2, <2>3
<1>2. CASE start_pending_batch
  BY <1>2 DEF start_pending_batch, FlushChunk, PullPending
<1>3. CASE \/ Environment \/ flush_timerfd \/ handle_signals \/ drain_rule_acks_once
           \/ recv_error \/ handle_ack_timeout \/ enter_slice \/ await_acks
           \/ slice_over \/ cleanup_rules_tracked \/ UNCHANGED vars
  BY <1>3 DEF vars, debounce, Environment, AddrAdded, AddrRemoved, AddrRefreshed, ChangeAllowed,
              SendSignal, flush_timerfd, handle_signals, drain_rule_acks_once, recv_error,
              handle_ack_timeout, enter_slice, await_acks, slice_over, cleanup_rules_tracked
<1>4. CASE Slice
  BY <1>4 DEF Slice, debounce, prepare_shutdown_cleanup_job, begin_startup_cleanup, begin_resync,
              stay_idle, collect_finished, collect_pending, collect_done, collect_fails, Collecting,
              apply_chunk, apply_chunk_fails, startup_apply_done, resync_apply_done,
              cleanup_tracked_done, PlanDone, build_resync_plan, dump_next_family, plan_ready,
              build_fails
<1> QED
  BY <1>1, <1>2, <1>3, <1>4 DEF Next, Reactor, Drive

\* Every way back to epoll_wait goes through event_loop's exit test.
LEMMA WaitStep ==
    ASSUME phase = "wait" => ~LoopExit, [Next]_vars
    PROVE  phase' = "wait" => ~LoopExit'
<1>1. CASE Environment \/ UNCHANGED vars
  <2>1. UNCHANGED <<phase, debounce, batch, shutdown, slice>>
    BY <1>1 DEF vars, Environment, AddrAdded, AddrRemoved, AddrRefreshed, ChangeAllowed, SendSignal
  <2> QED
    BY <2>1 DEF LoopExit, debounce, batch, shutdown, slice
<1>2. CASE Reactor
  <2>1. phase' # "wait" \/ EndIteration
    BY <1>2 DEF Reactor, Drive, Slice, Break, Continue, flush_timerfd, handle_route_events,
                handle_signals, drain_rule_acks_once, recv_error, handle_ack_timeout,
                start_pending_batch, FlushChunk, enter_slice, await_acks, slice_over,
                cleanup_rules_tracked, prepare_shutdown_cleanup_job, begin_startup_cleanup,
                begin_resync, stay_idle, collect_finished, collect_pending, collect_done,
                collect_fails, apply_chunk, apply_chunk_fails, startup_apply_done,
                resync_apply_done, cleanup_tracked_done, PlanDone, build_resync_plan,
                dump_next_family, plan_ready, build_fails
  <2> QED
    BY <2>1 DEF EndIteration
<1> QED
  BY <1>1, <1>2 DEF Next

\* The daemon never blocks in epoll_wait with work outstanding and no timer
\* armed: no order of events, batches and maintenance steps loses a wakeup.
THEOREM WakeupsHold == Spec => []NeverSleepsOnWork
<1>1. Init => TypeOK /\ Armed
  BY TypeInit DEF Init, Armed, LoopExit
<1>2. TypeOK /\ Armed /\ [Next]_vars => (TypeOK /\ Armed)'
  BY TypeStep, WindowStep, WaitStep DEF Armed
<1>3. TypeOK /\ Armed => NeverSleepsOnWork
  BY DEF Armed, LoopExit, NeverSleepsOnWork, Outstanding, next_deadline
<1> QED
  BY <1>1, <1>2, <1>3, PTL DEF Spec

-----------------------------------------------------------------------------
(* The ledger itself.                                                       *)

\* Abstractly: an entry is booked as the difference its batch made, so a ledger
\* that loses no entry stays within the kernel's rules.
LEMMA LedgerCovered == Ledger!Spec => []Ledger!LedgerIsCovered
<1> DEFINE lossless == Faults \cap {"late_ack", "send_err"} = {}
           Inv == lossless => /\ owned_ips \subseteq rules \cup Entry.deleted
                              /\ Entry.added \subseteq rules \ owned_ips
                              /\ Entry.deleted \cap rules = {}
                              /\ ~Entry.busy => Entry.deleted = {}
<1>1. Ledger!Init => Inv
  BY DEF Ledger!Init, Ledger!NoEntry
<1>2. Inv /\ [Ledger!Next]_(Ledger!vars) => Inv'
  <2> SUFFICES ASSUME Inv, [Ledger!Next]_(Ledger!vars), lossless
               PROVE  /\ owned_ips' \subseteq rules' \cup Entry'.deleted
                      /\ Entry'.added \subseteq rules' \ owned_ips'
                      /\ Entry'.deleted \cap rules' = {}
                      /\ ~Entry'.busy => Entry'.deleted = {}
    OBVIOUS
  <2>1. CASE Ledger!SendBatch
    BY <2>1 DEF Ledger!SendBatch
  <2>2. CASE Ledger!Commit
    BY <2>2 DEF Ledger!Commit, Ledger!NoEntry
  <2>3. CASE Ledger!HandOver
    BY <2>3 DEF Ledger!HandOver
  <2>4. CASE UNCHANGED Ledger!vars
    BY <2>4 DEF Ledger!vars
  <2> QED
    BY <2>1, <2>2, <2>3, <2>4 DEF Ledger!Next, Ledger!Lose, Ledger!SendHalf
<1>3. Inv => Ledger!LedgerIsCovered
  BY DEF Ledger!LedgerIsCovered
<1> QED
  BY <1>1, <1>2, <1>3, PTL DEF Ledger!Spec

-----------------------------------------------------------------------------
(* The refinement.                                                          *)

\* With no batch in flight the entry is empty.
EntryClosed == inflight.owner = "None" => inflight = NoInflight

LedgerInv == HandshakeInv /\ EntryClosed

\* A batch is sent: the requests that were granted are the difference it made.
LEMMA SendIsEntry ==
    ASSUME rules \subseteq Key, NEW ops \in Batch, NEW id, NEW owner \in {"Pending", "Maintenance"},
           inflight.owner = "None", Send(owner, id, ops), UNCHANGED owned_ips
    PROVE  Ledger!SendBatch /\ EntryClosed'
<1>1. PICK refused :
        /\ rules' = kernel_rules(ops, rules, refused)
        /\ inflight' = [owner |-> owner, batch_id |-> id, ops |-> ops,
                        errno |-> kernel_errno(ops, rules, refused), unseen |-> OpKeys(ops)]
  BY DEF Send
<1>2. /\ inflight'.owner # "None" /\ inflight'.ops = ops
      /\ inflight'.errno = kernel_errno(ops, rules, refused)
  BY <1>1
<1>3. rules' \in SUBSET Key
  BY <1>1 DEF kernel_rules
<1>4. ASSUME NEW k \in Key
      PROVE  /\ inflight'.ops[k] = "Add" /\ inflight'.errno[k] = "OK" <=> k \in rules' \ rules
             /\ inflight'.ops[k] = "Delete" /\ inflight'.errno[k] = "OK" <=> k \in rules \ rules'
  BY <1>1, <1>2 DEF kernel_errno, kernel_rules, Batch, Action
<1>5. Effective("Add")' = rules' \ rules /\ Effective("Delete")' = rules \ rules'
  BY <1>3, <1>4 DEF Effective
<1> QED
  BY <1>2, <1>3, <1>5 DEF Ledger!SendBatch, Entry, EntryClosed

\* The acknowledgements are complete: commit_ack_outcomes books the entry.
LEMMA FinishIsCommit ==
    ASSUME LedgerInv, inflight.owner # "None", finish_inflight_batch, UNCHANGED rules
    PROVE  Ledger!Commit /\ EntryClosed'
<1>1. inflight' = NoInflight
  BY DEF finish_inflight_batch
<1>2. owned_ips' = (owned_ips \cup Effective("Add")) \ Effective("Delete")
  BY DEF finish_inflight_batch, commit_ack_outcomes, classify_ack_for_op, Effective
<1>3. Effective("Add")' = {} /\ Effective("Delete")' = {}
  BY <1>1 DEF Effective, NoInflight, NoOps
<1>4. inflight'.owner = "None"
  BY <1>1 DEF NoInflight
<1> QED
  BY <1>1, <1>2, <1>3, <1>4 DEF Ledger!Commit, Ledger!NoEntry, Entry, EntryClosed

\* Every step of the reactor is a step of the ledger or leaves it alone.
LEMMA LedgerStep ==
    ASSUME LedgerInv, [Next]_vars
    PROVE  [Ledger!Next]_(Ledger!vars) /\ EntryClosed'
<1>1. ASSUME UNCHANGED <<rules, owned_ips, inflight>>
      PROVE  UNCHANGED Ledger!vars /\ EntryClosed'
  BY <1>1 DEF Ledger!vars, Entry, Effective, LedgerInv, EntryClosed
<1>2. ASSUME inflight' = NoInflight, inflight.owner # "None", "late_ack" \in Faults,
             UNCHANGED <<rules, owned_ips>>
      PROVE  Ledger!Lose /\ EntryClosed'
  <2>1. Effective("Add")' = {} /\ Effective("Delete")' = {} /\ inflight'.owner = "None"
    BY <1>2 DEF Effective, NoInflight, NoOps
  <2> QED
    BY <1>2, <2>1 DEF Ledger!Lose, Ledger!NoEntry, Entry, EntryClosed
<1>3. ASSUME NEW ops, SendFails(ops), inflight.owner = "None", UNCHANGED <<owned_ips, inflight>>
      PROVE  Ledger!SendHalf /\ EntryClosed'
  <2>1. rules' \in SUBSET Key
    BY <1>3 DEF SendFails, kernel_rules, LedgerInv, HandshakeInv, TypeOK
  <2>2. UNCHANGED Entry /\ ~Entry.busy
    BY <1>3 DEF Entry, Effective
  <2> QED
    BY <1>3, <2>1, <2>2 DEF Ledger!SendHalf, SendFails, LedgerInv, EntryClosed
<1>4. ASSUME UNCHANGED inflight, owned_ips' = {}, rules' \subseteq rules, rules \ owned_ips \subseteq rules'
      PROVE  Ledger!HandOver /\ EntryClosed'
  BY <1>4 DEF Ledger!HandOver, Entry, Effective, LedgerInv, EntryClosed
<1> DEFINE Goal == [Ledger!Next]_(Ledger!vars) /\ EntryClosed'
<1>5. /\ (Ledger!SendBatch \/ Ledger!Commit \/ Ledger!Lose \/ Ledger!SendHalf \/ Ledger!HandOver) /\ EntryClosed' => Goal
      /\ UNCHANGED Ledger!vars /\ EntryClosed' => Goal
  BY DEF Ledger!Next
<1> rules \subseteq Key
  BY DEF LedgerInv, HandshakeInv, TypeOK
<1> SUFFICES Goal
  OBVIOUS
<1> HIDE DEF Goal
<1>6. CASE start_pending_batch
  <2>1. PICK take : FlushChunk(take)
    BY <1>6 DEF start_pending_batch
  <2>2. UNCHANGED owned_ips /\ inflight.owner = "None"
    BY <1>6 DEF start_pending_batch
  <2>3. prefilter(Only(pending, take), owned_ips) \in Batch
    BY BatchTypes DEF LedgerInv, HandshakeInv, TypeOK
  <2>4. CASE UNCHANGED <<rules, inflight>>
    BY <1>1, <1>5, <2>2, <2>4
  <2>5. CASE \E ops \in Batch : \E id : Send("Pending", id, ops)
    BY <1>5, <2>2, <2>5, SendIsEntry
  <2>6. CASE UNCHANGED inflight /\ \E ops \in Batch : SendFails(ops)
    BY <1>3, <1>5, <2>2, <2>6
  <2> QED
    BY <2>1, <2>3, <2>4, <2>5, <2>6 DEF FlushChunk
<1>7. CASE drain_rule_acks_once
  <2>1. PICK acks \in SUBSET inflight.unseen :
          IF acks = inflight.unseen THEN finish_inflight_batch
          ELSE /\ inflight' = [inflight EXCEPT !.unseen = @ \ acks]
               /\ UNCHANGED <<owned_ips, completed_batch>>
    BY <1>7 DEF drain_rule_acks_once
  <2>2. UNCHANGED rules /\ inflight.owner # "None"
    BY <1>7 DEF drain_rule_acks_once
  <2>3. CASE acks = inflight.unseen
    BY <1>5, <2>1, <2>2, <2>3, FinishIsCommit
  <2>4. CASE acks # inflight.unseen
    <3>1. /\ inflight'.ops = inflight.ops /\ inflight'.errno = inflight.errno
          /\ inflight'.owner = inflight.owner /\ UNCHANGED owned_ips
      BY <2>1, <2>4 DEF LedgerInv, HandshakeInv, TypeOK, InflightBatch
    <3>2. UNCHANGED Entry
      BY <3>1 DEF Entry, Effective
    <3> QED
      BY <1>5, <2>2, <3>1, <3>2 DEF Ledger!vars, EntryClosed
  <2> QED
    BY <2>3, <2>4
<1>8. ASSUME NEW job \in ApplyJob, apply_chunk(job) PROVE Goal
  <2>1. UNCHANGED owned_ips /\ inflight.owner = "None"
    BY <1>8 DEF apply_chunk, InSlice, LedgerInv, HandshakeInv, SliceAlone
  <2>2. CASE StillWaiting
    BY <1>1, <1>5, <1>8, <2>2 DEF apply_chunk
  <2>3. CASE ~StillWaiting
    <3>1. PICK c : SendChunk(c)
      BY <1>8, <2>3 DEF apply_chunk
    <3>2. Only(maintenance.todo, c) \in Batch
      BY BatchTypes DEF LedgerInv, HandshakeInv, TypeOK, MaintenanceJob
    <3>3. Send("Maintenance", NextId(maintenance.batch_id), Only(maintenance.todo, c))
      BY <3>1 DEF SendChunk
    <3> QED
      BY <1>5, <2>1, <3>2, <3>3, SendIsEntry
  <2> QED
    BY <2>2, <2>3
<1>9. ASSUME NEW job \in ApplyJob, apply_chunk_fails(job) PROVE Goal
  <2>1. UNCHANGED <<owned_ips, inflight>> /\ inflight.owner = "None"
    BY <1>9 DEF apply_chunk_fails, InSlice, LedgerInv, HandshakeInv, SliceAlone
  <2>2. PICK c : SendFails(Only(maintenance.todo, c))
    BY <1>9 DEF apply_chunk_fails
  <2> QED
    BY <1>3, <1>5, <2>1, <2>2
<1>10. CASE prepare_shutdown_cleanup_job
  BY <1>4, <1>5, <1>10 DEF prepare_shutdown_cleanup_job, socket, batch
<1>11. CASE cleanup_rules_tracked
  <2>1. UNCHANGED inflight
    BY <1>11 DEF cleanup_rules_tracked, batch
  <2>2. CASE shutdown_cleanup_done
    BY <1>1, <1>5, <1>11, <2>1, <2>2 DEF cleanup_rules_tracked
  <2>3. CASE ~shutdown_cleanup_done
    <3>1. PICK kept : rules' = rules \ (owned_ips \ kept) /\ owned_ips' = {}
      BY <1>11, <2>3 DEF cleanup_rules_tracked
    <3> QED
      BY <1>4, <1>5, <2>1, <3>1
  <2> QED
    BY <2>2, <2>3
<1>12. CASE handle_ack_timeout
  BY <1>2, <1>5, <1>12 DEF handle_ack_timeout, socket
<1>13. CASE \/ Environment \/ flush_timerfd \/ handle_route_events \/ handle_signals \/ recv_error
            \/ enter_slice \/ await_acks \/ slice_over \/ UNCHANGED vars
  BY <1>1, <1>5, <1>13 DEF vars, socket, batch, Environment, AddrAdded, AddrRemoved, AddrRefreshed,
                    ChangeAllowed, SendSignal, flush_timerfd, handle_route_events, handle_signals,
                    recv_error, enter_slice, await_acks, slice_over
<1>14. CASE \/ begin_startup_cleanup \/ begin_resync \/ stay_idle \/ collect_finished
            \/ collect_pending \/ collect_done \/ collect_fails \/ startup_apply_done
            \/ resync_apply_done \/ cleanup_tracked_done \/ build_resync_plan
            \/ dump_next_family \/ plan_ready \/ build_fails
  BY <1>1, <1>5, <1>14 DEF socket, batch, begin_startup_cleanup, begin_resync, stay_idle,
                     collect_finished, collect_pending, collect_done, collect_fails, Collecting,
                     startup_apply_done, resync_apply_done, cleanup_tracked_done, PlanDone,
                     build_resync_plan, dump_next_family, plan_ready, build_fails
<1> QED
  BY <1>6, <1>7, <1>8, <1>9, <1>10, <1>11, <1>12, <1>13, <1>14 DEF Next, Reactor, Drive, Slice

\* The reactor implements the ledger, whatever fails: the initial states
\* correspond, and every handler, timeout and arm of the maintenance loop books
\* one whole entry, loses one, hands the ledger over or leaves it alone.
THEOREM ImplementsLedger == Spec => KeepsLedger
<1>1. Init => LedgerInv /\ Ledger!Init
  <2> SUFFICES ASSUME Init PROVE LedgerInv /\ Ledger!Init
    OBVIOUS
  <2>1. inflight.owner = "None" /\ inflight.ops = NoOps
    BY DEF Init, NoInflight
  <2>2. Effective("Add") = {} /\ Effective("Delete") = {}
    BY <2>1 DEF Effective, NoOps
  <2>3. Entry = Ledger!NoEntry
    BY <2>1, <2>2 DEF Entry, Ledger!NoEntry
  <2> QED
    BY <2>3, HandshakeInit DEF Init, LedgerInv, EntryClosed, Ledger!Init
<1>2. LedgerInv /\ [Next]_vars => LedgerInv' /\ [Ledger!Next]_(Ledger!vars)
  BY LedgerStep, HandshakeStep DEF LedgerInv
<1> QED
  BY <1>1, <1>2, PTL DEF Spec, KeepsLedger, Ledger!Spec

\* As long as no acknowledgement is late and no send fails half way, a tracked
\* key has its rule, or the acknowledgement of its deletion is under way: pending
\* batches, startup deletions and stale resync plans commit exactly what the
\* kernel did.  A property of every ledger, hence of the reactor.
THEOREM OwnershipHolds ==
    ASSUME Faults \cap {"late_ack", "send_err"} = {}
    PROVE  Spec => []OwnedHaveRules
<1>1. Ledger!LedgerIsCovered => OwnedHaveRules
  BY DEF Ledger!LedgerIsCovered, OwnedHaveRules, Entry, Effective
<1> QED
  BY <1>1, ImplementsLedger, LedgerCovered, PTL DEF KeepsLedger
=============================================================================
