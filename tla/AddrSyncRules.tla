--------------------------- MODULE AddrSyncRules ----------------------------
(***************************************************************************)
(* The kernel's rules.  Without losses and refusals every rule the daemon  *)
(* could own is accounted for; in calm weather the rules follow the        *)
(* addresses: once all is quiet there is a rule for each address and no    *)
(* other, and a stop leaves none.                                          *)
(***************************************************************************)
EXTENDS AddrSyncProofs

-----------------------------------------------------------------------------
(* No orphans: every rule the daemon handles is accounted for.              *)

FamilyOf(k) == IF k \in Key6 THEN 1 ELSE 0

StartupJob == {"StartupCleanupDumpCollect", "StartupCleanupDumpApply"}

\* The startup cleanup has still to read this rule from a dump.
StillToDump(k) ==
    \/ FamilyOf(k) > maintenance.family_idx
    \/ /\ FamilyOf(k) = maintenance.family_idx
       /\ maintenance.dumping => ~rule_dump.live \/ k \in rule_dump.keys

\* Somebody knows of the rule and will delete it when its time comes.
Accounted(k) ==
    \/ k \in owned_ips
    \/ k \in Effective("Add")
    \/ maintenance.job \in StartupJob \cup {"CleanupTracked"} /\ maintenance.todo[k] = "Delete"
    \/ maintenance.job \in StartupJob /\ StillToDump(k)

\* Only a collecting job dumps, and a family that the daemon handles.
DumpsFamily ==
    maintenance.dumping => maintenance.job = "StartupCleanupDumpCollect" /\ CurrentFamily # 2

\* From the first startup dump on every rule is accounted for; the deletions
\* under way are done.
AllAccounted ==
    /\ Effective("Delete") \cap rules = {}
    /\ DumpsFamily
    /\ StartupDone \/ maintenance.job \in StartupJob
         => \A k \in rules \cap Handled : Accounted(k)

OrphanInv == LedgerInv /\ AllAccounted

\* Nothing that accounts for a rule changes; the rest of a rule dump may be lost.
LEMMA OrphanStill ==
    ASSUME OrphanInv, UNCHANGED <<rules, owned_ips, inflight, maintenance, startup>>,
           rule_dump' \in {rule_dump, NoDump}
    PROVE  AllAccounted'
<1>1. \A action : Effective(action)' = Effective(action)
  BY DEF Effective
<1>2. \A k : StillToDump(k) => StillToDump(k)'
  BY DEF StillToDump, NoDump
<1>3. \A k : Accounted(k) => Accounted(k)'
  BY <1>1, <1>2 DEF Accounted
<1>4. StartupDone' = StartupDone
  BY DEF StartupDone, startup
<1> QED
  BY <1>1, <1>3, <1>4 DEF OrphanInv, AllAccounted, DumpsFamily, CurrentFamily

\* A batch that is sent: an added rule is about to be acknowledged, and a key
\* that leaves a job's list has lost its rule.
LEMMA OrphanSend ==
    ASSUME OrphanInv, "kernel_err" \notin Faults, inflight.owner = "None", NEW ops \in Batch, NEW id,
           NEW owner \in {"Pending", "Maintenance"}, Send(owner, id, ops),
           UNCHANGED <<owned_ips, rule_dump, startup>>,
           NEW c, c = {} \/ ops = Only(maintenance.todo, c),
           /\ maintenance'.job = maintenance.job
           /\ maintenance'.family_idx = maintenance.family_idx
           /\ maintenance'.dumping = maintenance.dumping
           /\ \A k \in Key \ c : maintenance'.todo[k] = maintenance.todo[k]
    PROVE  AllAccounted'
<1>1. rules \subseteq Key /\ inflight = NoInflight
  BY DEF OrphanInv, LedgerInv, EntryClosed, HandshakeInv, TypeOK
<1>2. Ledger!SendBatch
  BY <1>1, SendIsEntry
<1>3. Entry' = [busy |-> TRUE, added |-> rules' \ rules, deleted |-> rules \ rules']
  BY <1>2 DEF Ledger!SendBatch
<1>4. Effective("Add")' = rules' \ rules /\ Effective("Delete")' = rules \ rules'
  BY <1>3 DEF Entry
<1>5. Effective("Add") = {}
  BY <1>1 DEF Effective, NoInflight, NoOps
<1>6. rules' = kernel_rules(ops, rules, {})
  BY DEF Send
<1>7. StartupDone' = StartupDone
  BY DEF StartupDone, startup
<1>8. ASSUME NEW k \in rules' \cap Handled, Accounted(k), k \in rules PROVE Accounted(k)'
  <2>1. k \in Key
    BY <1>1, <1>8
  <2>2. k \in c => ops[k] = maintenance.todo[k]
    BY <2>1 DEF Only
  <2>3. ops[k] # "Delete"
    BY <1>6, <1>8, <2>1 DEF kernel_rules
  <2>4. maintenance.todo[k] = "Delete" => maintenance'.todo[k] = "Delete"
    BY <2>1, <2>2, <2>3
  <2>5. StillToDump(k)' = StillToDump(k)
    BY DEF StillToDump
  <2> QED
    BY <1>5, <1>8, <2>4, <2>5 DEF Accounted
<1>9. ASSUME NEW k \in rules' \cap Handled, k \notin rules PROVE Accounted(k)'
  BY <1>4, <1>9 DEF Accounted
<1>10. Effective("Delete")' \cap rules' = {}
  BY <1>4
<1>11. DumpsFamily'
  BY DEF OrphanInv, AllAccounted, DumpsFamily, CurrentFamily
<1>12. ASSUME (StartupDone \/ maintenance.job \in StartupJob)', NEW k \in rules' \cap Handled
       PROVE  Accounted(k)'
  <2>1. k \in rules => Accounted(k)
    BY <1>7, <1>12 DEF OrphanInv, AllAccounted
  <2> QED
    BY <1>8, <1>9, <2>1
<1>13. Handled' = Handled
  BY DEF Handled
<1> QED
  BY <1>10, <1>11, <1>12, <1>13 DEF AllAccounted

\* The acknowledgements arrive: what was added is now tracked, and what is no
\* longer tracked has no rule.
LEMMA OrphanCommit ==
    ASSUME OrphanInv, inflight.owner # "None", finish_inflight_batch,
           UNCHANGED <<rules, maintenance, startup>>, rule_dump' \in {rule_dump, NoDump}
    PROVE  AllAccounted'
<1>1. Ledger!Commit
  BY FinishIsCommit DEF OrphanInv
<1>2. owned_ips' = (owned_ips \cup Effective("Add")) \ Effective("Delete")
  BY <1>1 DEF Ledger!Commit, Entry
<1>3. Effective("Delete")' = {}
  BY <1>1 DEF Ledger!Commit, Ledger!NoEntry, Entry
<1>4. \A k : StillToDump(k) => StillToDump(k)'
  BY DEF StillToDump, NoDump
<1>5. \A k \in rules : Accounted(k) => Accounted(k)'
  BY <1>2, <1>4 DEF Accounted, OrphanInv, AllAccounted
<1>6. StartupDone' = StartupDone
  BY DEF StartupDone, startup
<1> QED
  BY <1>3, <1>5, <1>6 DEF OrphanInv, AllAccounted, DumpsFamily, CurrentFamily

\* A job changes hands while rules and batch stay: it is enough to account again
\* for the rules.
LEMMA OrphanHandOver ==
    ASSUME OrphanInv, UNCHANGED <<rules, inflight>>,
           DumpsFamily',
           (StartupDone \/ maintenance.job \in StartupJob)' =>
               \A k \in rules \cap Handled : Accounted(k)'
    PROVE  AllAccounted'
<1>1. \A action : Effective(action)' = Effective(action)
  BY DEF Effective
<1> QED
  BY <1>1 DEF OrphanInv, AllAccounted, Handled

\* The daemon takes up, or drops, a job while it has nothing on a list: what
\* accounts for a rule is the tracked set and the batch in flight.
LEMMA OrphanIdle ==
    ASSUME OrphanInv, UNCHANGED <<rules, inflight, owned_ips>>, ~maintenance'.dumping,
           StartupDone' => StartupDone /\ (maintenance.job = "CleanupTracked" => maintenance.todo = NoOps),
           maintenance'.job \notin StartupJob
    PROVE  AllAccounted'
<1>1. \A action : Effective(action)' = Effective(action)
  BY DEF Effective
<1>2. ASSUME StartupDone', NEW k \in rules \cap Handled PROVE Accounted(k)'
  <2>1. Accounted(k) /\ maintenance.job \notin StartupJob
    BY <1>2 DEF OrphanInv, AllAccounted, StartupDone, StartupJob
  <2>2. k \in Key
    BY DEF OrphanInv, LedgerInv, HandshakeInv, TypeOK
  <2>3. maintenance.job = "CleanupTracked" => maintenance.todo[k] # "Delete"
    BY <1>2, <2>2 DEF NoOps
  <2> QED
    BY <1>1, <2>1, <2>3 DEF Accounted
<1> QED
  BY <1>2, OrphanHandOver DEF DumpsFamily

\* The last family is read and its rules are deleted: only tracked rules are left.
LEMMA OrphanFinished ==
    ASSUME OrphanInv, StartupFinished, UNCHANGED <<rules, inflight, owned_ips>>,
           maintenance.job \in StartupJob, maintenance.todo = NoOps,
           next_startup_cleanup_family(maintenance.family_idx) = 2
    PROVE  AllAccounted'
<1>1. maintenance'.job = "Idle" /\ ~maintenance'.dumping
  BY DEF StartupFinished, Idle
<1>2. \A action : Effective(action)' = Effective(action)
  BY DEF Effective
<1>3. ASSUME NEW k \in rules \cap Handled PROVE Accounted(k)'
  <2>1. Accounted(k) /\ k \in Key
    BY DEF OrphanInv, AllAccounted, LedgerInv, HandshakeInv, TypeOK
  <2>2. ~StillToDump(k)
    BY <2>1 DEF StillToDump, FamilyOf, Handled, next_startup_cleanup_family, OrphanInv, LedgerInv,
                HandshakeInv, TypeOK, MaintenanceJob
  <2>3. maintenance.todo[k] # "Delete"
    BY <2>1 DEF NoOps
  <2> QED
    BY <1>2, <2>1, <2>2, <2>3 DEF Accounted
<1> QED
  BY <1>1, <1>3, OrphanHandOver DEF DumpsFamily

\* The receive of a rule dump moves rules from the reply to the job's list.
LEMMA OrphanCollect ==
    ASSUME OrphanInv, collect_pending \/ collect_done
    PROVE  AllAccounted'
<1> USE DEF Collecting, InSlice, batch
<1>1. /\ maintenance.job = "StartupCleanupDumpCollect"
      /\ UNCHANGED <<rules, inflight, owned_ips>>
      /\ maintenance \in MaintenanceJob /\ rules \subseteq Key
  BY DEF collect_pending, collect_done, OrphanInv, LedgerInv, HandshakeInv, TypeOK
<1>2. CurrentFamily = maintenance.family_idx /\ maintenance.family_idx \in {0, 1}
  <2>1. CurrentFamily # 2
    BY DEF collect_pending, collect_done
  <2>2. maintenance.family_idx \in 0 .. 2
    BY <1>1 DEF MaintenanceJob
  <2> QED
    BY <2>1, <2>2 DEF CurrentFamily, next_startup_cleanup_family
<1>3. \A action : Effective(action)' = Effective(action)
  BY <1>1 DEF Effective
<1>4. ASSUME NEW k \in rules \cap Handled
      PROVE  /\ k \in Key
             /\ \/ k \in owned_ips \/ k \in Effective("Add") \/ maintenance.todo[k] = "Delete"
                \/ StillToDump(k)
  BY <1>1 DEF OrphanInv, AllAccounted, Accounted, StartupJob
<1>5. ASSUME NEW k \in rules \cap Handled, StillToDump(k), FamilyOf(k) = maintenance.family_idx, Reply.live
      PROVE  k \in Reply.keys
  <2>1. k \in FamilyKeys(maintenance.family_idx)
    BY <1>4, <1>5 DEF FamilyOf, FamilyKeys
  <2> QED
    BY <1>2, <1>5, <2>1 DEF StillToDump, Reply
<1>6. CASE collect_pending
  <2>1. PICK keys \in SUBSET Reply.keys :
          /\ rule_dump' = [Reply EXCEPT !.keys = @ \ keys]
          /\ maintenance' = [maintenance EXCEPT !.family_idx = CurrentFamily,
                                                !.dumping = TRUE, !.todo = Collected(keys)]
    BY <1>6 DEF collect_pending
  <2>2. /\ maintenance'.job = maintenance.job /\ maintenance'.family_idx = maintenance.family_idx
        /\ maintenance'.todo = Collected(keys) /\ maintenance'.dumping
    BY <1>1, <1>2, <2>1 DEF MaintenanceJob
  <2>3. Reply \in RuleDump
    BY <1>1 DEF Reply, RuleDump, OrphanInv, LedgerInv, HandshakeInv, TypeOK
  <2>4. rule_dump'.live = Reply.live /\ rule_dump'.keys = Reply.keys \ keys
    BY <2>1, <2>3 DEF RuleDump
  <2>5. ASSUME NEW k \in rules \cap Handled PROVE Accounted(k)'
    <3>1. CASE k \in keys \/ maintenance.todo[k] = "Delete"
      BY <1>1, <1>4, <2>2, <3>1 DEF Accounted, StartupJob, Collected
    <3>2. CASE StillToDump(k) /\ k \notin keys
      <4>1. StillToDump(k)'
        BY <1>5, <2>2, <2>4, <3>2 DEF StillToDump
      <4> QED
        BY <1>1, <2>2, <4>1 DEF Accounted, StartupJob
    <3>3. CASE k \in owned_ips \/ k \in Effective("Add")
      BY <1>1, <1>3, <3>3 DEF Accounted
    <3> QED
      BY <1>4, <3>1, <3>2, <3>3
  <2> QED
    BY <1>1, <1>6, <2>2, <2>5, OrphanHandOver DEF DumpsFamily, CurrentFamily, collect_pending
<1>7. CASE collect_done
  <2> DEFINE todo == Collected(Reply.keys)
  <2>1. /\ maintenance'.job \in StartupJob /\ maintenance'.family_idx = maintenance.family_idx + 1
        /\ maintenance'.todo = todo /\ ~maintenance'.dumping
    BY <1>1, <1>2, <1>7 DEF collect_done, MaintenanceJob, StartupJob
  <2>2. Reply.live
    BY <1>7 DEF collect_done
  <2>3. ASSUME NEW k \in rules \cap Handled PROVE Accounted(k)'
    <3>1. CASE k \in Reply.keys \/ maintenance.todo[k] = "Delete"
      BY <1>4, <2>1, <3>1 DEF Accounted, Collected
    <3>2. CASE StillToDump(k) /\ k \notin Reply.keys
      <4>1. FamilyOf(k) > maintenance.family_idx
        BY <1>5, <2>2, <3>2 DEF StillToDump
      <4>2. FamilyOf(k) = maintenance.family_idx + 1
        BY <1>2, <4>1 DEF FamilyOf
      <4>3. StillToDump(k)'
        BY <2>1, <4>2 DEF StillToDump, FamilyOf
      <4> QED
        BY <2>1, <4>3 DEF Accounted
    <3>3. CASE k \in owned_ips \/ k \in Effective("Add")
      BY <1>1, <1>3, <3>3 DEF Accounted
    <3> QED
      BY <1>4, <3>1, <3>2, <3>3
  <2> QED
    BY <1>1, <2>1, <2>3, OrphanHandOver DEF DumpsFamily
<1> QED
  BY <1>6, <1>7

\* Every arm of the maintenance loop keeps the rules accounted for.
LEMMA OrphanSlice ==
    ASSUME OrphanInv, Slice \/ slice_over, Faults \cap {"kernel_err", "send_err"} = {}
    PROVE  AllAccounted'
<1> USE DEF InSlice, batch, socket
<1> maintenance \in MaintenanceJob /\ startup_cleanup_retry_count \in Nat /\ rules \subseteq Key
  BY DEF OrphanInv, LedgerInv, HandshakeInv, TypeOK
<1>1. CASE prepare_shutdown_cleanup_job
  <2>1. UNCHANGED <<rules, inflight, startup>> /\ maintenance.job = "Idle"
    BY <1>1 DEF prepare_shutdown_cleanup_job
  <2>2. CASE owned_ips = {}
    BY <1>1, <2>1, <2>2, OrphanStill DEF prepare_shutdown_cleanup_job
  <2>3. CASE owned_ips # {}
    <3>1. /\ maintenance'.job = "CleanupTracked" /\ ~maintenance'.dumping
          /\ maintenance'.todo = AllOf(owned_ips, "Delete")
      BY <1>1, <2>3 DEF prepare_shutdown_cleanup_job, Idle
    <3>2. ASSUME StartupDone', NEW k \in rules \cap Handled PROVE Accounted(k)'
      <4>1. Accounted(k) /\ k \in Key
        BY <2>1, <3>2 DEF StartupDone, startup, OrphanInv, AllAccounted
      <4>2. k \in owned_ips \/ k \in Effective("Add")'
        BY <2>1, <4>1 DEF Accounted, StartupJob, Effective
      <4> QED
        BY <3>1, <4>1, <4>2 DEF Accounted, AllOf
    <3> QED
      BY <2>1, <3>1, <3>2, OrphanHandOver DEF StartupJob, DumpsFamily
  <2> QED
    BY <2>2, <2>3
<1>2. CASE begin_startup_cleanup
  <2>1. /\ UNCHANGED <<rules, inflight>> /\ maintenance'.job = "StartupCleanupDumpCollect"
        /\ maintenance'.family_idx = 0 /\ ~maintenance'.dumping
    BY <1>2 DEF begin_startup_cleanup, Idle
  <2>2. \A k : StillToDump(k)'
    BY <2>1 DEF StillToDump, FamilyOf
  <2> QED
    BY <2>1, <2>2, OrphanHandOver DEF Accounted, StartupJob, DumpsFamily
<1>3. CASE begin_resync
  <2>1. /\ UNCHANGED <<rules, inflight, owned_ips, startup>> /\ maintenance.job = "Idle"
        /\ maintenance'.job = "ResyncBuild" /\ ~maintenance'.dumping
    BY <1>3 DEF begin_resync, Idle
  <2> QED
    BY <2>1, OrphanIdle DEF StartupDone, startup, StartupJob
<1>4. CASE stay_idle \/ slice_over
  BY <1>4, OrphanStill DEF stay_idle, slice_over
<1>5. CASE collect_finished
  <2>1. /\ UNCHANGED <<rules, inflight, owned_ips>> /\ maintenance.job = "StartupCleanupDumpCollect"
        /\ next_startup_cleanup_family(maintenance.family_idx) = 2
    BY <1>5 DEF collect_finished
  <2>2. CASE maintenance.todo = NoOps
    BY <1>5, <2>1, <2>2, OrphanFinished DEF collect_finished, StartupJob
  <2>3. CASE maintenance.todo # NoOps
    <3>1. /\ maintenance' = [maintenance EXCEPT !.job = "StartupCleanupDumpApply", !.family_idx = 2]
      BY <1>5, <2>3 DEF collect_finished
    <3>2. maintenance'.job = "StartupCleanupDumpApply" /\ maintenance'.todo = maintenance.todo
      BY <3>1 DEF MaintenanceJob
    <3>3. maintenance'.dumping = maintenance.dumping
      BY <3>1 DEF MaintenanceJob
    <3>4. ~maintenance.dumping
      BY <2>1 DEF OrphanInv, AllAccounted, DumpsFamily, CurrentFamily
    <3>5. ASSUME NEW k \in rules \cap Handled PROVE Accounted(k)'
      <4>1. Accounted(k) /\ k \in Key
        BY <2>1 DEF OrphanInv, AllAccounted, StartupJob
      <4>2. ~StillToDump(k)
        BY <2>1, <4>1 DEF StillToDump, FamilyOf, Handled, next_startup_cleanup_family, MaintenanceJob
      <4>3. Effective("Add")' = Effective("Add")
        BY <2>1 DEF Effective
      <4> QED
        BY <2>1, <3>2, <4>1, <4>2, <4>3 DEF Accounted, StartupJob
    <3> QED
      BY <2>1, <3>3, <3>4, <3>5, OrphanHandOver DEF DumpsFamily
  <2> QED
    BY <2>2, <2>3
<1>6. CASE collect_pending \/ collect_done
  BY <1>6, OrphanCollect
<1>7. ASSUME StartupRetry, UNCHANGED <<rules, inflight, owned_ips>> PROVE AllAccounted'
  <2>1. /\ maintenance'.job = "Idle" /\ ~maintenance'.dumping /\ startup_cleanup_retry_count' # 0
    BY <1>7 DEF StartupRetry, Idle
  <2> QED
    BY <1>7, <2>1, OrphanIdle DEF StartupDone, StartupJob
<1>8. CASE collect_fails
  BY <1>7, <1>8 DEF collect_fails, Collecting
<1>9. ASSUME NEW job \in ApplyJob, apply_chunk(job) PROVE AllAccounted'
  <2>1. UNCHANGED <<owned_ips, rule_dump, startup>> /\ inflight.owner = "None"
    BY <1>9 DEF apply_chunk, OrphanInv, LedgerInv, HandshakeInv, SliceAlone
  <2>2. CASE StillWaiting
    BY <1>9, <2>1, <2>2, OrphanStill DEF apply_chunk
  <2>3. CASE ~StillWaiting
    <3>1. PICK c : SendChunk(c)
      BY <1>9, <2>3 DEF apply_chunk
    <3>2. Only(maintenance.todo, c) \in Batch
      BY BatchTypes DEF MaintenanceJob
    <3>3. Send("Maintenance", NextId(maintenance.batch_id), Only(maintenance.todo, c))
      BY <3>1 DEF SendChunk
    <3>4. /\ maintenance'.job = maintenance.job
          /\ maintenance'.family_idx = maintenance.family_idx
          /\ maintenance'.dumping = maintenance.dumping
          /\ maintenance'.todo = Except(maintenance.todo, c)
      BY <3>1 DEF SendChunk, MaintenanceJob
    <3>5. \A k \in Key \ c : maintenance'.todo[k] = maintenance.todo[k]
      BY <3>4 DEF Except
    <3> QED
      BY <2>1, <3>2, <3>3, <3>4, <3>5, OrphanSend
  <2> QED
    BY <2>2, <2>3
<1>10. ASSUME NEW job \in ApplyJob, apply_chunk_fails(job) PROVE AllAccounted'
  BY <1>10 DEF apply_chunk_fails, SendFails
<1>11. CASE startup_apply_done
  <2>1. /\ UNCHANGED <<rules, inflight, owned_ips>> /\ maintenance.job = "StartupCleanupDumpApply"
        /\ maintenance.todo = NoOps
    BY <1>11 DEF startup_apply_done, PlanDone
  <2>2. CASE next_startup_cleanup_family(maintenance.family_idx) = 2
    BY <1>11, <2>1, <2>2, OrphanFinished DEF startup_apply_done, StartupJob
  <2>3. CASE next_startup_cleanup_family(maintenance.family_idx) # 2
    <3>1. /\ maintenance'.job = "StartupCleanupDumpCollect" /\ ~maintenance'.dumping
          /\ maintenance'.family_idx = maintenance.family_idx
      BY <1>11, <2>3 DEF startup_apply_done, Idle
    <3>2. ASSUME NEW k \in rules \cap Handled PROVE Accounted(k)'
      <4>1. Accounted(k) /\ k \in Key
        BY <2>1 DEF OrphanInv, AllAccounted, StartupJob
      <4>2. maintenance.todo[k] # "Delete"
        BY <2>1, <4>1 DEF NoOps
      <4>3. StillToDump(k) => StillToDump(k)'
        BY <3>1 DEF StillToDump
      <4>4. Effective("Add")' = Effective("Add")
        BY <2>1 DEF Effective
      <4> QED
        BY <2>1, <3>1, <4>1, <4>2, <4>3, <4>4 DEF Accounted, StartupJob
    <3> QED
      BY <2>1, <3>1, <3>2, OrphanHandOver DEF DumpsFamily
  <2> QED
    BY <2>2, <2>3
<1>12. CASE resync_apply_done
  <2>1. /\ UNCHANGED <<rules, inflight, owned_ips, startup>> /\ maintenance.job = "ResyncApply"
        /\ maintenance'.job = "Idle" /\ ~maintenance'.dumping
    BY <1>12 DEF resync_apply_done, PlanDone, Idle
  <2> QED
    BY <2>1, OrphanIdle DEF StartupDone, startup, StartupJob
<1>13. CASE cleanup_tracked_done
  <2>1. /\ UNCHANGED <<rules, inflight, owned_ips, startup>> /\ maintenance.job = "CleanupTracked"
        /\ maintenance'.job = "Idle" /\ ~maintenance'.dumping /\ maintenance.todo = NoOps
    BY <1>13 DEF cleanup_tracked_done, PlanDone, Idle
  <2> QED
    BY <2>1, OrphanIdle DEF StartupDone, startup, StartupJob
<1>14. CASE build_resync_plan
  BY <1>14, OrphanStill DEF build_resync_plan
<1>15. CASE dump_next_family
  BY <1>15, OrphanStill DEF dump_next_family
<1>16. CASE plan_ready \/ build_fails
  <2>1. maintenance.job = "ResyncBuild"
    BY <1>16 DEF plan_ready, build_fails, OrphanInv, LedgerInv, HandshakeInv, SliceAlone
  <2>2. ~maintenance.dumping
    BY <2>1 DEF OrphanInv, AllAccounted, DumpsFamily
  <2>3. /\ UNCHANGED <<rules, inflight, owned_ips, startup>>
        /\ maintenance'.job \in {"Idle", "ResyncApply"} /\ ~maintenance'.dumping
    <3>1. CASE plan_ready
      BY <2>2, <3>1 DEF plan_ready, MaintenanceJob
    <3>2. CASE build_fails
      BY <3>2 DEF build_fails, BuildAgain, Idle
    <3> QED
      BY <1>16, <3>1, <3>2
  <2> QED
    BY <2>1, <2>3, OrphanIdle DEF StartupDone, startup, StartupJob
<1> QED
  BY <1>1, <1>2, <1>3, <1>4, <1>5, <1>6, <1>8, <1>9, <1>10, <1>11, <1>12, <1>13, <1>14, <1>15, <1>16
     DEF Slice

\* Every step of the reactor keeps the rules accounted for.
LEMMA OrphanStep ==
    ASSUME OrphanInv, [Next]_vars,
           Faults \cap {"late_ack", "kernel_err", "send_err", "recv_err"} = {}
    PROVE  OrphanInv'
<1> SUFFICES AllAccounted'
  BY LedgerStep, HandshakeStep DEF OrphanInv, LedgerInv
<1> USE DEF batch, socket
<1>1. CASE start_pending_batch
  <2>1. PICK take : FlushChunk(take)
    BY <1>1 DEF start_pending_batch
  <2>2. UNCHANGED <<owned_ips, rule_dump, maintenance, startup>> /\ inflight.owner = "None"
    BY <1>1 DEF start_pending_batch, slice
  <2>3. prefilter(Only(pending, take), owned_ips) \in Batch
    BY BatchTypes DEF OrphanInv, LedgerInv, HandshakeInv, TypeOK
  <2>4. CASE UNCHANGED <<rules, inflight>>
    BY <2>2, <2>4, OrphanStill
  <2>5. CASE \E ops \in Batch : \E id : Send("Pending", id, ops)
    <3>1. PICK ops \in Batch : \E id : Send("Pending", id, ops)
      BY <2>5
    <3> DEFINE c == {}
    <3>2. c = {} \/ ops = Only(maintenance.todo, c)
      OBVIOUS
    <3> HIDE DEF c
    <3> QED
      BY <2>2, <3>1, <3>2, OrphanSend
  <2> QED
    BY <2>1, <2>3, <2>4, <2>5 DEF FlushChunk, SendFails
<1>2. CASE drain_rule_acks_once
  <2>1. PICK acks \in SUBSET inflight.unseen :
          IF acks = inflight.unseen THEN finish_inflight_batch
          ELSE /\ inflight' = [inflight EXCEPT !.unseen = @ \ acks]
               /\ UNCHANGED <<owned_ips, completed_batch>>
    BY <1>2 DEF drain_rule_acks_once
  <2>2. /\ UNCHANGED <<rules, maintenance, startup>> /\ inflight.owner # "None"
        /\ rule_dump' = NoDump
    BY <1>2 DEF drain_rule_acks_once, slice
  <2>3. CASE acks = inflight.unseen
    BY <2>1, <2>2, <2>3, OrphanCommit
  <2>4. CASE acks # inflight.unseen
    <3>1. /\ inflight'.ops = inflight.ops /\ inflight'.errno = inflight.errno /\ UNCHANGED owned_ips
      BY <2>1, <2>4 DEF OrphanInv, LedgerInv, HandshakeInv, TypeOK, InflightBatch
    <3>2. \A action : Effective(action)' = Effective(action)
      BY <3>1 DEF Effective
    <3>3. \A k : StillToDump(k) => StillToDump(k)'
      BY <2>2 DEF StillToDump, NoDump
    <3>4. \A k : Accounted(k) => Accounted(k)'
      BY <2>2, <3>1, <3>2, <3>3 DEF Accounted
    <3>5. StartupDone' = StartupDone
      BY <2>2 DEF StartupDone, startup
    <3> QED
      BY <2>2, <3>2, <3>4, <3>5 DEF OrphanInv, AllAccounted, DumpsFamily, CurrentFamily
  <2> QED
    BY <2>3, <2>4
<1>3. CASE cleanup_rules_tracked
  <2>1. UNCHANGED <<inflight, maintenance, startup, rule_dump>>
    BY <1>3 DEF cleanup_rules_tracked, slice
  <2>2. CASE shutdown_cleanup_done
    BY <1>3, <2>1, <2>2, OrphanStill DEF cleanup_rules_tracked
  <2>3. CASE ~shutdown_cleanup_done
    <3>1. rules' = rules \ owned_ips
      BY <1>3, <2>3 DEF cleanup_rules_tracked
    <3>2. \A action : Effective(action)' = Effective(action)
      BY <2>1 DEF Effective
    <3>3. \A k : StillToDump(k) => StillToDump(k)'
      BY <2>1 DEF StillToDump
    <3>4. \A k \in rules' : Accounted(k) => Accounted(k)'
      BY <2>1, <3>1, <3>2, <3>3 DEF Accounted
    <3>5. StartupDone' = StartupDone
      BY <2>1 DEF StartupDone, startup
    <3> QED
      BY <2>1, <3>1, <3>2, <3>4, <3>5 DEF OrphanInv, AllAccounted, DumpsFamily, CurrentFamily
  <2> QED
    BY <2>2, <2>3
<1>4. CASE Slice \/ slice_over
  BY <1>4, OrphanSlice
<1>5. CASE handle_ack_timeout \/ recv_error
  BY <1>5 DEF handle_ack_timeout, recv_error
<1>6. CASE \/ Environment \/ flush_timerfd \/ handle_route_events \/ handle_signals
           \/ enter_slice \/ await_acks \/ UNCHANGED vars
  BY <1>6, OrphanStill DEF vars, slice, Environment, AddrAdded, AddrRemoved, AddrRefreshed,
                    ChangeAllowed, SendSignal, flush_timerfd, handle_route_events, handle_signals,
                    enter_slice, await_acks
<1> QED
  BY <1>1, <1>2, <1>3, <1>4, <1>5, <1>6 DEF Next, Reactor, Drive

\* As long as the kernel grants the requests and acknowledges them in time, no
\* rule is left in a handled family that nobody will ever delete, once the startup
\* cleanup went through: dumps may fail or be stolen and retried, events may be
\* dropped, and pending batches run between the families of the startup cleanup.
THEOREM NoOrphansHold ==
    ASSUME Faults \cap {"late_ack", "kernel_err", "send_err", "recv_err"} = {}
    PROVE  Spec => []NoOrphanRules
<1>1. Init => OrphanInv
  <2> SUFFICES ASSUME Init PROVE OrphanInv
    OBVIOUS
  <2>1. inflight.ops = NoOps /\ ~maintenance.dumping /\ maintenance.job = "Idle"
    BY DEF Init, NoInflight, Idle
  <2>2. Effective("Delete") = {}
    BY <2>1 DEF Effective, NoOps
  <2>3. ~StartupDone
    BY DEF Init, StartupDone
  <2> QED
    BY <2>1, <2>2, <2>3, HandshakeInit DEF Init, OrphanInv, LedgerInv, EntryClosed, AllAccounted,
       DumpsFamily, StartupJob
<1>2. OrphanInv /\ [Next]_vars => OrphanInv'
  BY OrphanStep
<1>3. OrphanInv => NoOrphanRules
  BY DEF OrphanInv, AllAccounted, NoOrphanRules, StartupDone, Accounted, StartupJob, Effective
<1> QED
  BY <1>1, <1>2, <1>3, PTL DEF Spec

-----------------------------------------------------------------------------
(* Calm weather: the rules follow the addresses.                            *)

\* Nothing fails (a rule dump may still arrive in pieces), changes and signals only
\* arrive while no maintenance work is outstanding, and an address sits on one
\* interface.
Calm == Faults \subseteq {"split_dump"} /\ ~Overlap /\ \E i : Iface = {i}

Here(k) == \E i \in Iface : <<k, i>> \in addrs

\* Whether a key has a rule once the operations are carried out.
Outcome(ops, k) == IF ops[k] = "None" THEN k \in rules ELSE ops[k] = "Add"

\* Maintenance and event batches do not meet.
Apart == ~Settled => routeq = <<>> /\ pending = NoOps /\ inflight.owner # "Pending"

\* Outside maintenance the queued and the pending events lead from the rules to the
\* addresses; the rest of a resync plan does the same.
EventsInStep == Settled => \A k \in Handled : Outcome(insert_events(routeq, pending), k) <=> Here(k)
PlanInStep   == maintenance.job = "ResyncApply" =>
                    \A k \in Handled : Outcome(maintenance.todo, k) <=> Here(k)

\* A snapshot is not overtaken by changes.
Snapshot ==
    /\ phase = "dump4" => target_keys = Present(0)
    /\ phase = "dump6" => target_keys = Present(0) \cup Present(1)

GoodEvents == \A i \in DOMAIN routeq : routeq[i].action \in Action

\* The startup cleanup comes first and is not repeated.
StartupOnce ==
    /\ startup_cleanup_retry_count = 0
    /\ maintenance.job \in {"ResyncBuild", "ResyncApply", "CleanupTracked"} => ~startup_cleanup_pending

\* A stop is the last thing that is asked for.
Stopping ==
    shutdown_requested \/ "TERM" \in sigpend =>
        /\ ~resync_requested /\ "USR1" \notin sigpend /\ ~startup_cleanup_pending
        /\ maintenance.job \in {"Idle", "CleanupTracked"}

\* It hands the tracked set over to the shutdown cleanup, and nothing is tracked again.
HandedOver ==
    /\ maintenance.job = "CleanupTracked" =>
          /\ shutdown_requested /\ owned_ips = {}
          /\ \A k \in Key : maintenance.todo[k] # "Add" /\ inflight.ops[k] # "Add"
    /\ shutdown_cleanup_done => shutdown_requested /\ owned_ips = {} /\ maintenance.job = "Idle"

Leaves == phase \notin {"exit", "drive"} /\ (phase = "stopped" => LoopExit)

InStep  == EventsInStep /\ PlanInStep /\ Snapshot
Orderly == Apart /\ GoodEvents /\ StartupOnce /\ Stopping /\ HandedOver /\ Leaves

CalmInv == LedgerInv /\ OwnedHaveRules /\ NoOrphanRules /\ InStep /\ Orderly

-----------------------------------------------------------------------------
\* What calm weather excludes.
LEMMA CalmFaults ==
    ASSUME Calm
    PROVE  /\ Faults \cap {"late_ack", "kernel_err", "send_err", "recv_err", "dump_err", "bad_event",
                           "flagged", "burst"} = {}
           /\ ~Overlap
BY DEF Calm

\* An event that is appended decides for its key, and only for that.
LEMMA InsertAppended ==
    ASSUME NEW q \in Seq(AddrEvent), NEW map \in Batch, NEW k \in Key, NEW action \in Action
    PROVE  LET more == Append(q, [key |-> k, action |-> action])
           IN \A j \in Key : insert_events(more, map)[j] = IF j = k THEN action
                                                           ELSE insert_events(q, map)[j]
<1> DEFINE ev   == [key |-> k, action |-> action]
           more == Append(q, ev)
           Mine(s, j) == {i \in DOMAIN s : s[i].key = j /\ s[i].action \in Action}
           Last(s, j) == {i \in Mine(s, j) : \A l \in Mine(s, j) : l <= i}
<1>1. /\ Len(more) = Len(q) + 1 /\ DOMAIN more = 1 .. Len(q) + 1 /\ DOMAIN q = 1 .. Len(q)
      /\ Len(q) \in Nat /\ more[Len(q) + 1] = ev
      /\ \A i \in 1 .. Len(q) : more[i] = q[i]
  OBVIOUS
<1>2. \A s, j : j \in Key => insert_events(s, map)[j] =
                   IF Last(s, j) = {} THEN map[j] ELSE s[CHOOSE i \in Last(s, j) : TRUE].action
  BY DEF insert_events
<1>3. ev.key = k /\ ev.action = action
  OBVIOUS
<1>4. Last(more, k) = {Len(q) + 1}
  <2>1. Len(q) + 1 \in Mine(more, k) /\ Mine(more, k) \subseteq 1 .. Len(q) + 1
    BY <1>1, <1>3
  <2> QED
    BY <1>1, <2>1
<1>5. insert_events(more, map)[k] = action
  <2>1. (CHOOSE i \in {Len(q) + 1} : TRUE) = Len(q) + 1
    OBVIOUS
  <2>2. Last(more, k) # {} /\ (CHOOSE i \in Last(more, k) : TRUE) = Len(q) + 1
    BY <1>4, <2>1
  <2>3. more[Len(q) + 1].action = action
    BY <1>1, <1>3
  <2> HIDE DEF Last, more
  <2> QED
    BY <1>2, <2>2, <2>3
<1>6. ASSUME NEW j \in Key, j # k PROVE insert_events(more, map)[j] = insert_events(q, map)[j]
  <2>1. Mine(more, j) = Mine(q, j) /\ Mine(q, j) \subseteq 1 .. Len(q)
    BY <1>1, <1>3, <1>6
  <2> HIDE DEF Mine
  <2>2. Last(more, j) = Last(q, j) /\ Last(q, j) \subseteq 1 .. Len(q)
    BY <2>1
  <2> HIDE DEF Last, more
  <2>3. CASE Last(q, j) = {}
    BY <1>2, <2>2, <2>3
  <2>4. CASE Last(q, j) # {}
    <3>1. (CHOOSE i \in Last(q, j) : TRUE) \in 1 .. Len(q)
      BY <2>2, <2>4
    <3> QED
      BY <1>1, <1>2, <2>2, <2>4, <3>1
  <2> QED
    BY <2>3, <2>4
<1> QED
  BY <1>5, <1>6

Core == InStep /\ Apart /\ GoodEvents /\ StartupOnce /\ Stopping /\ HandedOver

\* The ranges of what the invariant speaks of.
LEMMA CalmTypes ==
    ASSUME CalmInv
    PROVE  /\ rules \subseteq Key /\ pending \in Batch /\ routeq \in Seq(AddrEvent)
           /\ sigpend \subseteq {"USR1", "TERM"} /\ maintenance \in MaintenanceJob
           /\ maintenance.todo \in Batch /\ inflight \in InflightBatch /\ inflight.ops \in Batch
           /\ owned_ips \subseteq Key /\ Handled \subseteq Key
           /\ startup_cleanup_pending \in BOOLEAN /\ resync_requested \in BOOLEAN
           /\ shutdown_requested \in BOOLEAN /\ shutdown_cleanup_done \in BOOLEAN
BY DEF CalmInv, LedgerInv, HandshakeInv, TypeOK, MaintenanceJob, InflightBatch, Handled

\* With no batch in flight the tracked keys are the keys with a rule, unless the
\* startup cleanup or the shutdown cleanup is at work.
LEMMA TrackedAreRules ==
    ASSUME CalmInv, inflight.owner = "None", ~startup_cleanup_pending,
           maintenance.job \notin StartupJob \cup {"CleanupTracked"}, NEW k \in Handled
    PROVE  k \in rules <=> k \in owned_ips
<1>1. inflight = NoInflight /\ k \in Key
  BY DEF CalmInv, LedgerInv, EntryClosed, Handled
<1>2. inflight.ops[k] = "None"
  BY <1>1 DEF NoInflight, NoOps
<1>3. StartupDone
  BY DEF StartupDone, CalmInv, Orderly, StartupOnce, StartupJob
<1> QED
  BY <1>2, <1>3 DEF CalmInv, OwnedHaveRules, NoOrphanRules

\* Rules, addresses, events and plan stay in step while none of them changes.
LEMMA InStepFrame ==
    ASSUME CalmInv, UNCHANGED <<addrs, rules, routeq, pending, maintenance>>, Settled' => Settled,
           phase' \notin {"dump4", "dump6"}
    PROVE  InStep'
<1>1. insert_events(routeq, pending)' = insert_events(routeq, pending)
  BY DEF insert_events
<1>2. \A k : Here(k)' <=> Here(k)
  BY DEF Here
<1>3. EventsInStep'
  <2> SUFFICES ASSUME Settled, NEW k \in Handled
               PROVE  Outcome(insert_events(routeq, pending), k)' <=> Here(k)'
    BY DEF EventsInStep, Handled
  <2>1. Outcome(insert_events(routeq, pending), k) <=> Here(k)
    BY DEF CalmInv, InStep, EventsInStep
  <2> QED
    BY <1>1, <1>2, <2>1 DEF Outcome
<1>4. PlanInStep' /\ Snapshot'
  BY <1>2 DEF CalmInv, InStep, PlanInStep, Snapshot, Outcome, Handled
<1> QED
  BY <1>3, <1>4 DEF InStep

\* A step that touches nothing the invariant speaks of.
LEMMA CalmFrame ==
    ASSUME CalmInv, phase' \notin {"dump4", "dump6"},
           UNCHANGED <<addrs, rules, routeq, sigpend, owned_ips, pending, inflight, shutdown,
                       resync, startup, maintenance>>
    PROVE  Core'
<1> USE DEF shutdown, resync, startup
<1>1. Settled' <=> Settled
  BY DEF Settled
<1>2. InStep'
  BY <1>1, InStepFrame
<1>3. Apart' /\ GoodEvents' /\ StartupOnce' /\ Stopping' /\ HandedOver'
  BY <1>1 DEF CalmInv, Orderly, Apart, GoodEvents, StartupOnce, Stopping, HandedOver
<1> QED
  BY <1>2, <1>3 DEF Core

\* The kernel announces what it does, in the order in which it does it.
LEMMA CalmChange ==
    ASSUME CalmInv, Calm, NEW k \in Key, NEW i \in Iface,
           AddrAdded(k, i) \/ AddrRemoved(k, i) \/ AddrRefreshed(k, i)
    PROVE  Core'
<1>1. /\ Settled /\ UNCHANGED <<sigpend, socket, phase, owned_ips, debounce, batch, shutdown, resync,
                                startup, slice>>
  BY CalmFaults DEF AddrAdded, AddrRemoved, AddrRefreshed, ChangeAllowed
<1>2. UNCHANGED <<rules, sigpend, phase, owned_ips, pending, inflight, shutdown_requested,
                  shutdown_cleanup_done, resync_requested, startup_cleanup_pending,
                  startup_cleanup_retry_count, maintenance, target_keys>>
  BY <1>1 DEF socket, debounce, batch, shutdown, resync, startup, slice
<1>3. Settled' /\ maintenance.job = "Idle"
  BY <1>1, <1>2 DEF Settled
<1>4. PICK action \in Action : /\ Announce(k, action)
                               /\ \A j \in Key : Here(j)' <=> IF j = k THEN action = "Add" ELSE Here(j)
  <2>0. Iface = {i}
    BY DEF Calm
  <2>1. CASE AddrAdded(k, i) \/ AddrRefreshed(k, i)
    <3>1. Announce(k, "Add")
      BY <2>1 DEF AddrAdded, AddrRefreshed
    <3>2. \A j \in Key : Here(j)' <=> IF j = k THEN TRUE ELSE Here(j)
      BY <2>0, <2>1 DEF AddrAdded, AddrRefreshed, Here
    <3> QED
      BY <3>1, <3>2 DEF Action
  <2>2. CASE AddrRemoved(k, i)
    <3>1. Announce(k, "Delete")
      BY <2>2, CalmFaults DEF AddrRemoved
    <3>2. \A j \in Key : Here(j)' <=> IF j = k THEN FALSE ELSE Here(j)
      BY <2>0, <2>2 DEF AddrRemoved, Here
    <3> QED
      BY <3>1, <3>2 DEF Action
  <2> QED
    BY <2>1, <2>2
<1>5. /\ k \notin Handled => routeq' = routeq
      /\ k \in Handled => routeq' = Append(routeq, [key |-> k, action |-> action])
  BY <1>4, CalmFaults DEF Announce
<1>6. EventsInStep'
  <2> SUFFICES ASSUME NEW j \in Handled
               PROVE  Outcome(insert_events(routeq, pending), j)' <=> Here(j)'
    BY DEF EventsInStep, Handled
  <2>1. j \in Key /\ pending \in Batch /\ routeq \in Seq(AddrEvent)
    BY CalmTypes
  <2>2. Outcome(insert_events(routeq, pending), j) <=> Here(j)
    BY <1>1 DEF CalmInv, InStep, EventsInStep
  <2>3. CASE k \notin Handled
    <3>1. insert_events(routeq, pending)' = insert_events(routeq, pending) /\ j # k
      <4>1. routeq' = routeq /\ pending' = pending /\ j # k
        BY <1>2, <1>5, <2>3
      <4>2. insert_events(routeq, pending)' = insert_events(routeq', pending')
        BY DEF insert_events
      <4> QED
        BY <4>1, <4>2
    <3> QED
      BY <1>2, <1>4, <2>1, <2>2, <3>1 DEF Outcome
  <2>4. CASE k \in Handled
    <3>1. insert_events(routeq', pending')[j]
             = IF j = k THEN action ELSE insert_events(routeq, pending)[j]
      <4> DEFINE more == Append(routeq, [key |-> k, action |-> action])
      <4>1. insert_events(more, pending)[j]
               = IF j = k THEN action ELSE insert_events(routeq, pending)[j]
        BY <2>1, InsertAppended
      <4>2. routeq' = more /\ pending' = pending
        BY <1>2, <1>5, <2>4
      <4> HIDE DEF more
      <4> QED
        BY <4>1, <4>2
    <3>2. insert_events(routeq, pending)' = insert_events(routeq', pending')
      BY DEF insert_events
    <3> QED
      BY <1>2, <1>4, <2>1, <2>2, <3>1, <3>2 DEF Outcome, Action
  <2> QED
    BY <2>3, <2>4
<1>7. PlanInStep' /\ Snapshot'
  <2>1. phase \notin {"dump4", "dump6"}
    BY <1>3 DEF CalmInv, LedgerInv, HandshakeInv, SliceAlone
  <2> QED
    BY <1>2, <1>3, <2>1 DEF PlanInStep, Snapshot
<1>8. GoodEvents'
  <2>1. routeq \in Seq(AddrEvent) /\ \A l \in 1 .. Len(routeq) : routeq[l].action \in Action
    BY CalmTypes DEF CalmInv, Orderly, GoodEvents
  <2>2. CASE k \in Handled
    <3> DEFINE ev == [key |-> k, action |-> action]
    <3>1. /\ DOMAIN Append(routeq, ev) = 1 .. Len(routeq) + 1
          /\ \A l \in 1 .. Len(routeq) : Append(routeq, ev)[l] = routeq[l]
          /\ Append(routeq, ev)[Len(routeq) + 1] = ev /\ ev.action = action
      BY <2>1
    <3>2. routeq' = Append(routeq, ev) /\ Len(routeq) \in Nat
      BY <1>5, <2>1, <2>2
    <3> HIDE DEF ev
    <3>3. ASSUME NEW l \in 1 .. Len(routeq) + 1 PROVE Append(routeq, ev)[l].action \in Action
      <4>1. CASE l = Len(routeq) + 1
        BY <3>1, <4>1
      <4>2. CASE l \in 1 .. Len(routeq)
        BY <2>1, <3>1, <4>2
      <4> QED
        BY <3>2, <4>1, <4>2
    <3> QED
      BY <3>1, <3>2, <3>3 DEF GoodEvents
  <2>3. CASE k \notin Handled
    BY <1>5, <2>3 DEF GoodEvents, CalmInv, Orderly
  <2> QED
    BY <2>2, <2>3
<1>9. Apart' /\ StartupOnce' /\ Stopping' /\ HandedOver'
  BY <1>2, <1>3 DEF CalmInv, Orderly, Apart, StartupOnce, Stopping, HandedOver
<1> QED
  BY <1>6, <1>7, <1>8, <1>9 DEF Core, InStep

\* A signal comes when the events have been dealt with.
LEMMA CalmSignal ==
    ASSUME CalmInv, Calm, NEW sig \in {"USR1", "TERM"}, SendSignal(sig)
    PROVE  Core'
<1>1. /\ Settled /\ routeq = <<>> /\ pending = NoOps /\ inflight.owner = "None"
      /\ sigpend' = sigpend \cup {sig}
      /\ UNCHANGED <<addrs, routeq, socket, phase, owned_ips, debounce, batch, shutdown, resync,
                     startup, slice>>
  BY CalmFaults DEF SendSignal
<1>2. UNCHANGED <<rules, phase, owned_ips, pending, inflight, shutdown_requested,
                  shutdown_cleanup_done, resync_requested, startup_cleanup_pending,
                  startup_cleanup_retry_count, maintenance, target_keys>>
  BY <1>1 DEF socket, debounce, batch, shutdown, resync, startup, slice
<1>3. /\ ~Settled' /\ maintenance.job = "Idle" /\ sigpend = {}
      /\ ~(startup_cleanup_pending \/ resync_requested \/ shutdown_requested)
  BY <1>1 DEF Settled
<1>4. phase \notin {"dump4", "dump6"}
  BY <1>3 DEF CalmInv, LedgerInv, HandshakeInv, SliceAlone
<1>5. InStep'
  BY <1>2, <1>3, <1>4 DEF InStep, EventsInStep, PlanInStep, Snapshot
<1>6. Apart' /\ GoodEvents' /\ StartupOnce' /\ HandedOver'
  BY <1>1, <1>2, <1>3 DEF CalmInv, Orderly, Apart, GoodEvents, StartupOnce, HandedOver
<1>7. Stopping'
  BY <1>1, <1>2, <1>3 DEF Stopping
<1> QED
  BY <1>5, <1>6, <1>7 DEF Core

\* The handlers move the events to the pending map, turn a signal into a request and
\* commit acknowledgements.
LEMMA CalmHandlers ==
    ASSUME CalmInv, Calm, handle_route_events \/ handle_signals \/ drain_rule_acks_once
    PROVE  Core'
<1>1. CASE handle_route_events
  <2>1. /\ routeq # <<>> /\ routeq' = <<>> /\ phase' = "events"
        /\ UNCHANGED <<addrs, sigpend, socket, owned_ips, batch, shutdown, startup, slice>>
        /\ \E n \in Processed :
              /\ pending' = insert_events(SubSeq(routeq, 1, n), pending)
              /\ queue_compensate_resync(\E i \in DOMAIN SubSeq(routeq, 1, n) :
                                             SubSeq(routeq, 1, n)[i].action = "Bad")
    BY <1>1 DEF handle_route_events
  <2>2. Processed = {Len(routeq)}
    BY CalmFaults DEF Processed
  <2>3. SubSeq(routeq, 1, Len(routeq)) = routeq
    BY CalmTypes
  <2>4. /\ pending' = insert_events(routeq, pending)
        /\ queue_compensate_resync(\E i \in DOMAIN routeq : routeq[i].action = "Bad")
    BY <2>1, <2>2, <2>3
  <2>5. ~\E i \in DOMAIN routeq : routeq[i].action = "Bad"
    BY DEF CalmInv, Orderly, GoodEvents, Action
  <2>6. resync_requested' = resync_requested
    BY <2>4, <2>5, CalmTypes DEF queue_compensate_resync
  <2>7. UNCHANGED <<rules, inflight, shutdown_requested, shutdown_cleanup_done,
                    startup_cleanup_pending, startup_cleanup_retry_count, maintenance, target_keys>>
    BY <2>1 DEF socket, batch, shutdown, startup, slice
  <2>8. Settled /\ Settled' /\ maintenance.job = "Idle"
    BY <2>1, <2>6, <2>7 DEF CalmInv, Orderly, Apart, Settled
  <2>9. routeq' \in Seq(AddrEvent) /\ DOMAIN routeq' = {}
    <3>1. routeq' = <<>>
      BY <2>1
    <3>2. <<>> \in Seq(AddrEvent) /\ Len(<<>>) = 0
      OBVIOUS
    <3> QED
      BY <3>1, <3>2
  <2>10. EventsInStep'
    <3>1. pending' \in Batch
      BY <2>4, CalmTypes, InsertType
    <3>2. insert_events(routeq', pending') = insert_events(routeq, pending)
      <4>1. insert_events(routeq', pending') = pending'
        BY <3>1, <2>9, InsertNothing
      <4> QED
        BY <2>4, <4>1
    <3>3. insert_events(routeq, pending)' = insert_events(routeq', pending')
      BY DEF insert_events
    <3> QED
      BY <2>1, <2>7, <2>8, <3>2, <3>3 DEF CalmInv, InStep, EventsInStep, Outcome, Here, Handled
  <2>11. PlanInStep' /\ Snapshot' /\ GoodEvents' /\ Apart'
    <3>1. PlanInStep' /\ Snapshot'
      BY <2>1, <2>7, <2>8 DEF PlanInStep, Snapshot
    <3>2. GoodEvents'
      BY <2>9, Zenon DEF GoodEvents
    <3>3. Apart'
      BY <2>8, Zenon DEF Apart
    <3> QED
      BY <3>1, <3>2, <3>3
  <2>12. StartupOnce' /\ Stopping' /\ HandedOver'
    BY <2>1, <2>6, <2>7 DEF CalmInv, Orderly, StartupOnce, Stopping, HandedOver
  <2> QED
    BY <2>10, <2>11, <2>12 DEF Core, InStep
<1>2. CASE handle_signals
  <2>1. /\ sigpend # {} /\ sigpend' = {} /\ phase' = "events"
        /\ resync_requested' = (resync_requested \/ "USR1" \in sigpend)
        /\ shutdown_requested' = (shutdown_requested \/ "TERM" \in sigpend)
        /\ UNCHANGED <<addrs, routeq, socket, owned_ips, debounce, batch, shutdown_cleanup_done,
                       startup, slice>>
    BY <1>2 DEF handle_signals
  <2>2. UNCHANGED <<rules, pending, inflight, shutdown_cleanup_done, startup_cleanup_pending,
                    startup_cleanup_retry_count, maintenance, target_keys>>
    BY <2>1 DEF socket, debounce, batch, startup, slice
  <2>3. ~Settled /\ ~Settled'
    BY <2>1, CalmTypes DEF Settled
  <2>4. InStep'
    BY <2>1, <2>2, <2>3, InStepFrame
  <2>5. Apart' /\ GoodEvents' /\ StartupOnce'
    BY <2>1, <2>2, <2>3 DEF CalmInv, Orderly, Apart, GoodEvents, StartupOnce
  <2>6. Stopping' /\ HandedOver'
    BY <2>1, <2>2, CalmTypes DEF CalmInv, Orderly, Stopping, HandedOver
  <2> QED
    BY <2>4, <2>5, <2>6 DEF Core
<1>3. CASE drain_rule_acks_once
  <2>1. PICK acks \in SUBSET inflight.unseen :
          IF acks = inflight.unseen THEN finish_inflight_batch
          ELSE /\ inflight' = [inflight EXCEPT !.unseen = @ \ acks]
               /\ UNCHANGED <<owned_ips, completed_batch>>
    BY <1>3 DEF drain_rule_acks_once
  <2>2. UNCHANGED <<addrs, routeq, sigpend, rules, pending, shutdown_requested, shutdown_cleanup_done,
                    resync_requested, startup_cleanup_pending, startup_cleanup_retry_count,
                    maintenance, target_keys>> /\ phase' = "events" /\ inflight.owner # "None"
    BY <1>3 DEF drain_rule_acks_once, env, debounce, shutdown, resync, startup, slice
  <2>3. /\ inflight'.owner \in {inflight.owner, "None"}
        /\ \A k \in Key : inflight'.ops[k] \in {inflight.ops[k], "None"}
        /\ owned_ips' \subseteq owned_ips \cup {k \in Key : inflight.ops[k] = "Add"}
    <3>1. CASE acks = inflight.unseen
      BY <2>1, <3>1 DEF finish_inflight_batch, NoInflight, NoOps, commit_ack_outcomes
    <3>2. CASE acks # inflight.unseen
      BY <2>1, <3>2, CalmTypes DEF InflightBatch
    <3> QED
      BY <3>1, <3>2
  <2>4. Settled' <=> Settled
    BY <2>2 DEF Settled
  <2>5. InStep'
    BY <2>2, <2>4, InStepFrame
  <2>6. Apart' /\ GoodEvents' /\ StartupOnce' /\ Stopping'
    BY <2>2, <2>3, <2>4 DEF CalmInv, Orderly, Apart, GoodEvents, StartupOnce, Stopping
  <2>7. ~shutdown_cleanup_done
    <3>1. ASSUME shutdown_cleanup_done PROVE FALSE
      <4>1. ~Settled /\ maintenance.job = "Idle"
        BY <3>1 DEF CalmInv, Orderly, HandedOver, Settled
      <4>2. inflight.owner \notin {"Pending", "Maintenance"}
        BY <4>1 DEF CalmInv, Orderly, Apart, LedgerInv, HandshakeInv, BatchHandshake, ApplyJob
      <4> QED
        BY <2>2, <4>2, CalmTypes DEF InflightBatch
    <3> QED
      BY <3>1
  <2>8. HandedOver'
    BY <2>2, <2>3, <2>7 DEF CalmInv, Orderly, HandedOver
  <2> QED
    BY <2>5, <2>6, <2>8 DEF Core
<1> QED
  BY <1>1, <1>2, <1>3

\* What a batch does to the rules when the kernel refuses nothing.
LEMMA SendOutcome ==
    ASSUME Calm, NEW ops \in Batch, NEW owner, NEW id, Send(owner, id, ops)
    PROVE  /\ inflight'.owner = owner /\ inflight'.ops = ops
           /\ \A k \in Key : k \in rules' <=> Outcome(ops, k)
<1>1. /\ rules' = kernel_rules(ops, rules, {})
      /\ inflight' = [owner |-> owner, batch_id |-> id, ops |-> ops,
                      errno |-> kernel_errno(ops, rules, {}), unseen |-> OpKeys(ops)]
  BY CalmFaults DEF Send
<1> QED
  BY <1>1 DEF kernel_rules, Outcome, Batch, Action

\* start_pending_batch carries out what it takes from the pending map: what the
\* pre-filter drops is done already.
LEMMA CalmFlush ==
    ASSUME CalmInv, Calm, start_pending_batch
    PROVE  Core'
<1>1. /\ Driving /\ inflight.owner = "None" /\ pending # NoOps
      /\ UNCHANGED <<env, rule_dump, owned_ips, completed_batch, shutdown, resync, startup, slice>>
  BY DEF start_pending_batch, may_flush
<1>2. PICK take : FlushChunk(take)
  BY DEF start_pending_batch
<1>3. UNCHANGED <<addrs, routeq, sigpend, owned_ips, shutdown_requested, shutdown_cleanup_done,
                  resync_requested, startup_cleanup_pending, startup_cleanup_retry_count, maintenance>>
  BY <1>1 DEF env, shutdown, resync, startup, slice
<1>4. Settled /\ Settled' /\ maintenance.job = "Idle" /\ routeq = <<>>
  BY <1>1, <1>3 DEF CalmInv, Orderly, Apart, Settled, Driving, Leaves
<1> DEFINE ops == prefilter(Only(pending, take), owned_ips)
<1>5. ops \in Batch /\ pending' \in Batch /\ pending' = Except(pending, take)
  BY <1>2, BatchTypes, CalmTypes DEF FlushChunk, PullPending
<1>6. \A k \in Key : k \in rules' <=> Outcome(ops, k)
  <2>1. CASE ops = NoOps /\ UNCHANGED rules
    BY <2>1 DEF Outcome, NoOps
  <2>2. CASE Send("Pending", NextId(batch_id), ops)
    BY <1>5, <2>2, SendOutcome
  <2> QED
    BY <1>2, <2>1, <2>2, CalmFaults DEF FlushChunk, SendFails
<1>7. EventsInStep'
  <2> SUFFICES ASSUME NEW k \in Handled
               PROVE  Outcome(insert_events(routeq, pending), k)' <=> Here(k)'
    BY DEF EventsInStep, Handled
  <2>1. k \in Key /\ pending \in Batch
    BY CalmTypes
  <2>2. <<>> \in Seq(AddrEvent) /\ DOMAIN <<>> = {}
    OBVIOUS
  <2>3. insert_events(routeq, pending) = pending /\ insert_events(routeq', pending') = pending'
    BY <1>3, <1>4, <1>5, <2>1, <2>2, InsertNothing
  <2>4. insert_events(routeq, pending)' = insert_events(routeq', pending')
    BY DEF insert_events
  <2>5. Outcome(pending, k) <=> Here(k)
    BY <1>4, <2>3 DEF CalmInv, InStep, EventsInStep
  <2>6. Here(k)' <=> Here(k)
    BY <1>3 DEF Here
  <2>7. k \in rules <=> k \in owned_ips
    BY <1>1, <1>4, TrackedAreRules DEF Settled, StartupJob
  <2>8. pending'[k] = IF k \in take THEN "None" ELSE pending[k]
    BY <1>5, <2>1 DEF Except
  <2>9. ops[k] = IF k \notin take THEN "None"
                 ELSE IF pending[k] = (IF k \in owned_ips THEN "Add" ELSE "Delete") THEN "None"
                 ELSE pending[k]
    BY <2>1 DEF prefilter, Only
  <2>10. pending[k] \in {"Add", "Delete", "None"}
    BY <2>1 DEF Batch, Action
  <2>11. k \in rules' <=> IF ops[k] = "None" THEN k \in rules ELSE ops[k] = "Add"
    BY <1>6, <2>1 DEF Outcome
  <2> HIDE DEF ops
  <2>12. (IF pending'[k] = "None" THEN k \in rules' ELSE pending'[k] = "Add") <=> Here(k)
    BY <2>5, <2>7, <2>8, <2>9, <2>10, <2>11 DEF Outcome
  <2> QED
    BY <2>3, <2>4, <2>6, <2>12 DEF Outcome
<1>8. phase' \notin {"dump4", "dump6"}
  BY <1>2, CalmFaults DEF FlushChunk, EndIteration, SendFails
<1>9. PlanInStep' /\ Snapshot'
  BY <1>3, <1>4, <1>8 DEF PlanInStep, Snapshot
<1>10. Apart' /\ GoodEvents' /\ StartupOnce' /\ Stopping' /\ HandedOver'
  BY <1>3, <1>4 DEF CalmInv, Orderly, Apart, GoodEvents, StartupOnce, Stopping, HandedOver
<1> QED
  BY <1>7, <1>9, <1>10 DEF Core, InStep

\* While maintenance work is outstanding there are no events and no pending keys, and
\* a step that leaves the resync plan behind has to account for it only if the
\* daemon is settled afterwards.
LEMMA CalmWork ==
    ASSUME CalmInv, ~Settled,
           UNCHANGED <<addrs, sigpend, pending, shutdown_requested>>,
           routeq' = <<>>, inflight'.owner \in {inflight.owner, "Maintenance"},
           Settled' => \A k \in Handled : k \in rules' <=> Here(k)
    PROVE  EventsInStep' /\ Apart' /\ GoodEvents'
<1>1. pending = NoOps /\ inflight.owner # "Pending" /\ pending \in Batch
  BY CalmTypes DEF CalmInv, Orderly, Apart
<1>2. Apart' /\ GoodEvents'
  BY <1>1 DEF Apart, GoodEvents
<1>3. EventsInStep'
  <2> SUFFICES ASSUME Settled', NEW k \in Handled
               PROVE  Outcome(insert_events(routeq, pending), k)' <=> Here(k)'
    BY DEF EventsInStep, Handled
  <2>1. <<>> \in Seq(AddrEvent) /\ DOMAIN <<>> = {}
    OBVIOUS
  <2>2. insert_events(routeq', pending') = NoOps
    BY <1>1, <2>1, InsertNothing
  <2>3. insert_events(routeq, pending)' = NoOps /\ k \in Key
    BY <2>2, CalmTypes DEF insert_events
  <2>4. Here(k)' <=> Here(k)
    BY DEF Here
  <2> QED
    BY <2>3, <2>4 DEF Outcome, NoOps
<1> QED
  BY <1>2, <1>3

\* The idle daemon takes up the next job.
LEMMA CalmIdle ==
    ASSUME CalmInv, Calm, prepare_shutdown_cleanup_job \/ begin_startup_cleanup \/ begin_resync
    PROVE  Core'
<1> USE DEF InSlice
<1>1. /\ maintenance.job = "Idle" /\ phase' = "slice" /\ inflight.owner = "None"
      /\ UNCHANGED <<env, socket, debounce, batch, shutdown_requested>>
  BY DEF prepare_shutdown_cleanup_job, begin_startup_cleanup, begin_resync, Continue, CalmInv,
         LedgerInv, HandshakeInv, SliceAlone, shutdown
<1>2. UNCHANGED <<addrs, routeq, sigpend, rules, pending, inflight, shutdown_requested>>
  BY <1>1 DEF env, socket, debounce, batch
<1>3. ~Settled /\ ~Settled'
  <2>1. CASE prepare_shutdown_cleanup_job
    BY <1>2, <2>1 DEF prepare_shutdown_cleanup_job, ShutdownDue, Settled
  <2>2. CASE begin_startup_cleanup
    BY <2>2 DEF begin_startup_cleanup, Settled, Idle
  <2>3. CASE begin_resync
    BY <2>3 DEF begin_resync, Settled, Idle
  <2> QED
    BY <2>1, <2>2, <2>3
<1>4. routeq = <<>>
  BY <1>3 DEF CalmInv, Orderly, Apart
<1>5. EventsInStep' /\ Apart' /\ GoodEvents'
  BY <1>2, <1>3, <1>4, CalmWork
<1>6. maintenance'.job # "ResyncApply"
  BY <1>1 DEF prepare_shutdown_cleanup_job, begin_startup_cleanup, begin_resync, Idle
<1>7. PlanInStep' /\ Snapshot'
  BY <1>1, <1>6 DEF PlanInStep, Snapshot
<1>8. StartupOnce' /\ Stopping' /\ HandedOver'
  <2>1. CASE prepare_shutdown_cleanup_job
    <3>1. /\ shutdown_requested /\ owned_ips' = {} /\ UNCHANGED <<resync, startup>>
          /\ IF owned_ips = {} THEN shutdown_cleanup_done' = TRUE /\ UNCHANGED maintenance
             ELSE /\ maintenance' = [Idle EXCEPT !.job = "CleanupTracked",
                                                 !.todo = AllOf(owned_ips, "Delete"),
                                                 !.batch_id = batch_id]
                  /\ UNCHANGED shutdown_cleanup_done
      BY <2>1 DEF prepare_shutdown_cleanup_job, ShutdownDue
    <3>2. ~shutdown_cleanup_done /\ ~startup_cleanup_pending /\ ~resync_requested /\ "USR1" \notin sigpend
      BY <2>1, <3>1 DEF prepare_shutdown_cleanup_job, ShutdownDue, CalmInv, Orderly, Stopping
    <3>3. inflight.ops = NoOps
      BY <1>1 DEF CalmInv, LedgerInv, EntryClosed, NoInflight
    <3>4. CASE owned_ips = {}
      BY <1>1, <1>2, <3>1, <3>2, <3>4 DEF CalmInv, Orderly, StartupOnce, Stopping, HandedOver, startup, resync
    <3>5. CASE owned_ips # {}
      <4>1. maintenance'.job = "CleanupTracked" /\ maintenance'.todo = AllOf(owned_ips, "Delete")
        BY <3>1, <3>5 DEF Idle
      <4>2. \A k \in Key : maintenance'.todo[k] # "Add" /\ inflight'.ops[k] # "Add"
        BY <1>2, <3>3, <4>1 DEF AllOf, NoOps
      <4>3. UNCHANGED <<startup_cleanup_pending, startup_cleanup_retry_count, resync_requested,
                        shutdown_cleanup_done>>
        BY <3>1, <3>5 DEF startup, resync
      <4> QED
        BY <1>2, <3>1, <3>2, <4>1, <4>2, <4>3 DEF CalmInv, Orderly, StartupOnce, Stopping, HandedOver
    <3> QED
      BY <3>4, <3>5
  <2>2. CASE begin_startup_cleanup
    <3>1. /\ startup_cleanup_pending /\ UNCHANGED <<shutdown_cleanup_done, startup_cleanup_retry_count>>
          /\ maintenance'.job = "StartupCleanupDumpCollect"
      BY <2>2 DEF begin_startup_cleanup, Idle, shutdown
    <3>2. ~shutdown_requested /\ "TERM" \notin sigpend /\ ~shutdown_cleanup_done
      BY <3>1 DEF CalmInv, Orderly, Stopping, HandedOver
    <3> QED
      BY <1>2, <3>1, <3>2 DEF CalmInv, Orderly, StartupOnce, Stopping, HandedOver
  <2>3. CASE begin_resync
    <3>1. /\ resync_requested /\ UNCHANGED <<shutdown_cleanup_done, startup>> /\ ~startup_cleanup_pending
          /\ maintenance'.job = "ResyncBuild"
      BY <2>3 DEF begin_resync, Idle, shutdown
    <3>2. ~shutdown_requested /\ "TERM" \notin sigpend /\ ~shutdown_cleanup_done
      BY <3>1 DEF CalmInv, Orderly, Stopping, HandedOver
    <3> QED
      BY <1>2, <3>1, <3>2 DEF CalmInv, Orderly, StartupOnce, Stopping, HandedOver, startup
  <2> QED
    BY <2>1, <2>2, <2>3
<1> QED
  BY <1>5, <1>7, <1>8 DEF Core, InStep

\* The startup cleanup: it ends in a request for the first resync.
LEMMA CalmStartup ==
    ASSUME CalmInv, Calm, collect_finished \/ collect_pending \/ collect_done \/ startup_apply_done
    PROVE  Core'
<1> USE DEF InSlice, Collecting, PlanDone
<1>1. /\ maintenance.job \in StartupJob
      /\ UNCHANGED <<env, rules, inflight, owned_ips, debounce, shutdown>>
      /\ phase' \in {"slice", "wait", "stopped"}
  BY DEF collect_finished, collect_pending, collect_done, startup_apply_done, StartupJob, batch,
         socket, shutdown, Break, EndIteration, Continue
<1>2. UNCHANGED <<addrs, routeq, sigpend, pending, shutdown_requested, shutdown_cleanup_done>>
  BY <1>1 DEF env, debounce, shutdown
<1>3. /\ startup_cleanup_retry_count' = 0
      /\ \/ maintenance'.job \in StartupJob
         \/ maintenance'.job = "Idle" /\ resync_requested'
  <2>1. startup_cleanup_retry_count = 0 /\ maintenance \in MaintenanceJob
    BY CalmTypes DEF CalmInv, Orderly, StartupOnce
  <2>2. CASE collect_finished
    <3>1. CASE StartupFinished
      BY <3>1 DEF StartupFinished, Idle
    <3>2. CASE /\ maintenance' = [maintenance EXCEPT !.job = "StartupCleanupDumpApply", !.family_idx = 2]
               /\ UNCHANGED startup
      <4>1. maintenance'.job = "StartupCleanupDumpApply"
        BY <2>1, <3>2 DEF MaintenanceJob
      <4> QED
        BY <2>1, <3>2, <4>1 DEF StartupJob, startup
    <3> QED
      BY <2>2, <3>1, <3>2 DEF collect_finished
  <2>3. CASE collect_pending
    BY <1>1, <2>1, <2>3 DEF collect_pending, StartupJob, MaintenanceJob, startup
  <2>4. CASE collect_done
    BY <1>1, <2>1, <2>4 DEF collect_done, StartupJob, MaintenanceJob, startup
  <2>5. CASE startup_apply_done
    <3>1. CASE StartupFinished
      BY <3>1 DEF StartupFinished, Idle
    <3>2. CASE /\ maintenance' = [Idle EXCEPT !.job = "StartupCleanupDumpCollect",
                                              !.family_idx = maintenance.family_idx,
                                              !.batch_id = maintenance.batch_id]
               /\ UNCHANGED startup
      <4>1. maintenance'.job = "StartupCleanupDumpCollect"
        BY <3>2 DEF Idle
      <4> QED
        BY <2>1, <3>2, <4>1 DEF StartupJob, startup
    <3> QED
      BY <2>5, <3>1, <3>2 DEF startup_apply_done
  <2> QED
    BY <2>2, <2>3, <2>4, <2>5
<1>4. ~Settled /\ ~Settled'
  BY <1>1, <1>3 DEF Settled, StartupJob
<1>5. EventsInStep' /\ Apart' /\ GoodEvents'
  <2>1. routeq = <<>>
    BY <1>4 DEF CalmInv, Orderly, Apart
  <2> QED
    BY <1>1, <1>2, <1>4, <2>1, CalmWork
<1>6. PlanInStep' /\ Snapshot'
  BY <1>1, <1>3 DEF PlanInStep, Snapshot, StartupJob
<1>7. ~shutdown_requested /\ "TERM" \notin sigpend /\ ~shutdown_cleanup_done
  BY <1>1 DEF CalmInv, Orderly, Stopping, HandedOver, StartupJob
<1>8. StartupOnce' /\ Stopping' /\ HandedOver'
  BY <1>2, <1>3, <1>7 DEF StartupOnce, Stopping, HandedOver, StartupJob
<1> QED
  BY <1>5, <1>6, <1>8 DEF Core, InStep

\* A job sends the next chunk of its plan: what is left of the plan leads from the
\* new rules to where the whole plan led from the old ones.
LEMMA CalmApply ==
    ASSUME CalmInv, Calm, NEW job \in ApplyJob, apply_chunk(job)
    PROVE  Core'
<1>1. /\ maintenance.job = job /\ inflight.owner = "None" /\ maintenance \in MaintenanceJob
      /\ maintenance.todo \in Batch /\ phase' \in {"wait", "stopped"}
      /\ UNCHANGED <<env, rule_dump, owned_ips, debounce, batch_id, shutdown, resync, startup>>
  BY CalmTypes DEF apply_chunk, InSlice, Break, EndIteration, CalmInv, LedgerInv, HandshakeInv, SliceAlone
<1>2. UNCHANGED <<addrs, routeq, sigpend, pending, owned_ips, shutdown_requested,
                  shutdown_cleanup_done, resync_requested, startup_cleanup_pending,
                  startup_cleanup_retry_count>>
  BY <1>1 DEF env, debounce, shutdown, resync, startup
<1>3. CASE StillWaiting
  <2>1. UNCHANGED <<rules, inflight, maintenance>>
    BY <1>3 DEF apply_chunk
  <2> QED
    BY <1>1, <1>2, <2>1, CalmFrame DEF shutdown, resync, startup
<1>4. CASE ~StillWaiting
  <2>1. PICK c : SendChunk(c)
    BY <1>4 DEF apply_chunk
  <2> DEFINE ops == Only(maintenance.todo, c)
  <2>2. Send("Maintenance", NextId(maintenance.batch_id), ops) /\ ops \in Batch
    BY <1>1, <2>1, BatchTypes DEF SendChunk
  <2>3. maintenance'.job = job /\ maintenance'.todo = Except(maintenance.todo, c)
    BY <1>1, <2>1 DEF SendChunk, MaintenanceJob
  <2>4. /\ inflight'.owner = "Maintenance" /\ inflight'.ops = ops
        /\ \A k \in Key : k \in rules' <=> Outcome(ops, k)
    BY <2>2, SendOutcome
  <2>5. \A k \in Key : /\ ops[k] = IF k \in c THEN maintenance.todo[k] ELSE "None"
                       /\ maintenance'.todo[k] = IF k \in c THEN "None" ELSE maintenance.todo[k]
                       /\ maintenance.todo[k] \in {"Add", "Delete", "None"}
    BY <1>1, <2>3 DEF Only, Except, Batch, Action
  <2> HIDE DEF ops
  <2>6. ~Settled /\ ~Settled'
    BY <1>1, <2>3 DEF Settled, ApplyJob
  <2>7. EventsInStep' /\ Apart' /\ GoodEvents'
    <3>1. routeq' = <<>>
      BY <1>2, <2>6 DEF CalmInv, Orderly, Apart
    <3> QED
      BY <1>2, <2>4, <2>6, <3>1, CalmWork
  <2>8. PlanInStep'
    <3> SUFFICES ASSUME job = "ResyncApply", NEW k \in Handled
                 PROVE  Outcome(maintenance.todo, k)' <=> Here(k)'
      BY <2>3 DEF PlanInStep, Handled
    <3>1. k \in Key /\ (Outcome(maintenance.todo, k) <=> Here(k))
      BY <1>1, CalmTypes DEF CalmInv, InStep, PlanInStep
    <3>2. Here(k)' <=> Here(k)
      BY <1>2 DEF Here
    <3> QED
      BY <2>4, <2>5, <3>1, <3>2 DEF Outcome
  <2>9. Snapshot' /\ StartupOnce' /\ Stopping'
    BY <1>1, <1>2, <2>3 DEF CalmInv, Orderly, Snapshot, StartupOnce, Stopping
  <2>10. HandedOver'
    <3>1. job = "CleanupTracked" => \A k \in Key : maintenance'.todo[k] # "Add" /\ inflight'.ops[k] # "Add"
      BY <1>1, <2>4, <2>5 DEF CalmInv, Orderly, HandedOver
    <3>2. ~shutdown_cleanup_done
      BY <1>1 DEF CalmInv, Orderly, HandedOver, ApplyJob
    <3> QED
      BY <1>1, <1>2, <2>3, <3>1, <3>2 DEF CalmInv, Orderly, HandedOver
  <2> QED
    BY <2>7, <2>8, <2>9, <2>10 DEF Core, InStep
<1> QED
  BY <1>3, <1>4

\* The end of a resync: the rules are the addresses.  The end of the shutdown cleanup:
\* nothing is tracked.
LEMMA CalmDone ==
    ASSUME CalmInv, Calm, resync_apply_done \/ cleanup_tracked_done
    PROVE  Core'
<1> USE DEF PlanDone, InSlice
<1>1. /\ maintenance.todo = NoOps /\ maintenance'.job = "Idle" /\ phase' = "slice"
      /\ UNCHANGED <<env, rules, inflight, owned_ips, debounce, shutdown_requested, startup, resync_requested>>
  <2>1. CASE resync_apply_done
    BY <2>1 DEF resync_apply_done, Idle, Continue, socket
  <2>2. CASE cleanup_tracked_done
    BY <2>2 DEF cleanup_tracked_done, Idle, Continue, socket, resync
  <2> QED
    BY <2>1, <2>2
<1>2. UNCHANGED <<addrs, routeq, sigpend, pending, startup_cleanup_pending, startup_cleanup_retry_count>>
  BY <1>1 DEF env, debounce, startup
<1>3. CASE resync_apply_done
  <2>1. maintenance.job = "ResyncApply" /\ UNCHANGED shutdown_cleanup_done
    BY <1>3 DEF resync_apply_done
  <2>2. \A k \in Handled : k \in rules' <=> Here(k)
    <3> SUFFICES ASSUME NEW k \in Handled PROVE k \in rules <=> Here(k)
      BY <1>1
    <3>1. maintenance.todo[k] = "None"
      BY <1>1, CalmTypes DEF NoOps
    <3> QED
      BY <2>1, <3>1 DEF CalmInv, InStep, PlanInStep, Outcome
  <2>3. ~Settled
    BY <2>1 DEF Settled
  <2>4. routeq' = <<>>
    BY <1>2, <2>3 DEF CalmInv, Orderly, Apart
  <2>5. EventsInStep' /\ Apart' /\ GoodEvents'
    BY <1>1, <1>2, <2>2, <2>3, <2>4, CalmWork
  <2>6. ~shutdown_requested /\ "TERM" \notin sigpend /\ ~shutdown_cleanup_done
    BY <2>1 DEF CalmInv, Orderly, Stopping, HandedOver
  <2>7. PlanInStep' /\ Snapshot' /\ StartupOnce' /\ Stopping' /\ HandedOver'
    BY <1>1, <1>2, <2>1, <2>6 DEF CalmInv, Orderly, PlanInStep, Snapshot, StartupOnce, Stopping, HandedOver
  <2> QED
    BY <2>5, <2>7 DEF Core, InStep
<1>4. CASE cleanup_tracked_done
  <2>1. maintenance.job = "CleanupTracked" /\ shutdown_cleanup_done' = TRUE
    BY <1>4 DEF cleanup_tracked_done
  <2>2. shutdown_requested /\ owned_ips = {} /\ ~startup_cleanup_pending /\ ~resync_requested
        /\ "USR1" \notin sigpend
    BY <2>1 DEF CalmInv, Orderly, HandedOver, Stopping
  <2>3. ~Settled /\ ~Settled'
    BY <1>1, <2>2 DEF Settled
  <2>4. routeq' = <<>>
    BY <1>2, <2>3 DEF CalmInv, Orderly, Apart
  <2>5. EventsInStep' /\ Apart' /\ GoodEvents'
    BY <1>1, <1>2, <2>3, <2>4, CalmWork
  <2>6. PlanInStep' /\ Snapshot' /\ StartupOnce' /\ Stopping' /\ HandedOver'
    BY <1>1, <1>2, <2>1, <2>2 DEF CalmInv, Orderly, PlanInStep, Snapshot, StartupOnce, Stopping, HandedOver
  <2> QED
    BY <2>5, <2>6 DEF Core, InStep
<1> QED
  BY <1>3, <1>4

\* build_resync_plan: no change comes between the dumps, so the plan leads from the
\* rules, which are the tracked keys, to the addresses.
LEMMA CalmBuild ==
    ASSUME CalmInv, Calm, build_resync_plan \/ dump_next_family \/ plan_ready
    PROVE  Core'
<1>1. /\ maintenance.job = "ResyncBuild" /\ inflight.owner = "None" /\ maintenance \in MaintenanceJob
      /\ UNCHANGED <<addrs, sigpend, socket, owned_ips, debounce, batch, shutdown, resync, startup>>
      /\ \E n \in 0 .. Len(routeq) : Discard(n)
  <2>1. Len(routeq) \in 0 .. Len(routeq)
    BY CalmTypes
  <2> QED
    BY <2>1, CalmTypes DEF build_resync_plan, dump_next_family, plan_ready, InSlice, CalmInv, LedgerInv,
         HandshakeInv, SliceAlone
<1>2. UNCHANGED <<rules, pending, inflight, shutdown_requested, shutdown_cleanup_done, resync_requested,
                  startup_cleanup_pending, startup_cleanup_retry_count>>
  BY <1>1 DEF socket, debounce, batch, shutdown, resync, startup
<1>3. /\ maintenance'.job \in {"ResyncBuild", "ResyncApply"}
      /\ plan_ready \/ maintenance'.job = "ResyncBuild"
  BY <1>1 DEF build_resync_plan, dump_next_family, plan_ready, MaintenanceJob
<1>4. ~Settled /\ ~Settled'
  BY <1>1, <1>3 DEF Settled
<1>5. routeq' = <<>>
  <2>1. routeq = <<>>
    BY <1>4 DEF CalmInv, Orderly, Apart
  <2>2. PICK n \in 0 .. Len(routeq) : routeq' = SubSeq(routeq, n + 1, Len(routeq))
    BY <1>1 DEF Discard
  <2>3. n = 0 /\ Len(routeq) = 0
    BY <2>1
  <2> QED
    BY <2>1, <2>2, <2>3
<1>6. EventsInStep' /\ Apart' /\ GoodEvents'
  BY <1>1, <1>2, <1>4, <1>5, CalmWork
<1>7. ~shutdown_requested /\ "TERM" \notin sigpend /\ ~shutdown_cleanup_done /\ ~startup_cleanup_pending
  BY <1>1 DEF CalmInv, Orderly, Stopping, HandedOver, StartupOnce
<1>8. StartupOnce' /\ Stopping' /\ HandedOver'
  BY <1>1, <1>2, <1>3, <1>7 DEF CalmInv, Orderly, StartupOnce, Stopping, HandedOver
<1>9. Snapshot'
  <2>1. Present(0)' = Present(0) /\ Present(1)' = Present(1)
    BY <1>1 DEF Present, FamilyKeys
  <2> QED
    BY <2>1 DEF build_resync_plan, dump_next_family, plan_ready, Continue, CalmInv, InStep, Snapshot
<1>10. PlanInStep'
  <2> SUFFICES ASSUME plan_ready, NEW k \in Handled
               PROVE  Outcome(maintenance.todo, k)' <=> Here(k)'
    BY <1>3 DEF PlanInStep, Handled
  <2>1. maintenance'.todo = resync_ops(owned_ips, target_keys)
    BY <1>1 DEF plan_ready, MaintenanceJob
  <2>2. k \in Key /\ (k \in rules <=> k \in owned_ips)
    BY <1>1, <1>7, CalmTypes, TrackedAreRules DEF StartupJob
  <2>3. k \in target_keys <=> Here(k)
    <3>1. target_keys = IF Ipv6 THEN Present(0) \cup Present(1) ELSE Present(0)
      BY DEF plan_ready, CalmInv, InStep, Snapshot
    <3>2. k \in Present(0) <=> k \notin Key6 /\ Here(k)
      BY <2>2 DEF Present, FamilyKeys, Here
    <3>3. k \in Present(1) <=> k \in Key6 /\ Here(k)
      BY <2>2 DEF Present, FamilyKeys, Here
    <3> QED
      BY <3>1, <3>2, <3>3 DEF Handled
  <2>4. Here(k)' <=> Here(k)
    BY <1>1 DEF Here
  <2> QED
    BY <1>2, <2>1, <2>2, <2>3, <2>4 DEF Outcome, resync_ops
<1> QED
  BY <1>6, <1>8, <1>9, <1>10 DEF Core, InStep

\* Every iteration ends in event_loop's exit test.
LEMMA CalmLeaves ==
    ASSUME CalmInv, Calm, [Next]_vars
    PROVE  Leaves'
<1>1. CASE Environment \/ UNCHANGED vars
  <2>1. UNCHANGED <<phase, debounce, batch, shutdown, slice>>
    BY <1>1 DEF vars, Environment, AddrAdded, AddrRemoved, AddrRefreshed, ChangeAllowed, SendSignal
  <2> QED
    BY <2>1 DEF CalmInv, Orderly, Leaves, LoopExit, debounce, batch, shutdown, slice
<1>2. CASE Reactor
  <2>1. phase' \in {"events", "slice", "dump4", "dump6"} \/ EndIteration
    <3> USE CalmFaults DEF Break, Continue
    <3>1. CASE \/ flush_timerfd \/ handle_route_events \/ handle_signals \/ drain_rule_acks_once
               \/ recv_error \/ handle_ack_timeout \/ Drive \/ slice_over
      BY <3>1 DEF Drive, flush_timerfd, handle_route_events, handle_signals, drain_rule_acks_once,
                  recv_error, handle_ack_timeout, start_pending_batch, FlushChunk, SendFails,
                  enter_slice, await_acks, slice_over
    <3>2. CASE cleanup_rules_tracked
      BY <3>2 DEF cleanup_rules_tracked, CalmInv, Orderly, Leaves
    <3>3. CASE Slice
      BY <3>3 DEF Slice, prepare_shutdown_cleanup_job, begin_startup_cleanup,
                  begin_resync, stay_idle, collect_finished, collect_pending, collect_done,
                  collect_fails, apply_chunk, apply_chunk_fails, SendFails, startup_apply_done,
                  resync_apply_done, cleanup_tracked_done, PlanDone, build_resync_plan,
                  dump_next_family, plan_ready, build_fails
    <3> QED
      BY <1>2, <3>1, <3>2, <3>3 DEF Reactor
  <2> QED
    BY <2>1 DEF EndIteration, Leaves
<1> QED
  BY <1>1, <1>2 DEF Next

\* Every step keeps rules and addresses in step.
LEMMA CalmStep ==
    ASSUME CalmInv, Calm, [Next]_vars
    PROVE  InStep' /\ Orderly'
<1> SUFFICES Core'
  BY CalmLeaves DEF Core, Orderly
<1>1. CASE flush_timerfd \/ enter_slice \/ await_acks \/ stay_idle \/ slice_over
  <2>1. UNCHANGED <<env, socket, owned_ips, debounce, batch, shutdown, resync, startup, maintenance>>
        /\ phase' \notin {"dump4", "dump6"}
    BY <1>1 DEF flush_timerfd, enter_slice, await_acks, stay_idle, slice_over, slice, Break, EndIteration
  <2> QED
    BY <2>1, CalmFrame DEF env, socket, debounce, batch
<1>2. CASE UNCHANGED vars
  <2>1. UNCHANGED <<addrs, rules, routeq, sigpend, owned_ips, pending, inflight, shutdown,
                    resync, startup, maintenance, target_keys, phase>>
    BY <1>2 DEF vars, env, socket, debounce, batch, slice
  <2>2. CASE phase \in {"dump4", "dump6"}
    <3>1. ~Settled /\ ~Settled' /\ maintenance.job = "ResyncBuild"
      BY <2>1, <2>2 DEF CalmInv, LedgerInv, HandshakeInv, SliceAlone, Settled
    <3>2. InStep'
      BY <2>1, <3>1 DEF CalmInv, InStep, EventsInStep, PlanInStep, Snapshot, Present, FamilyKeys
    <3>3. Apart' /\ GoodEvents' /\ StartupOnce' /\ Stopping' /\ HandedOver'
      BY <2>1, <3>1 DEF CalmInv, Orderly, Apart, GoodEvents, StartupOnce, Stopping, HandedOver,
                        shutdown, resync, startup
    <3> QED
      BY <3>2, <3>3 DEF Core
  <2>3. CASE phase \notin {"dump4", "dump6"}
    BY <2>1, <2>3, CalmFrame
  <2> QED
    BY <2>2, <2>3
<1>3. CASE Environment
  BY <1>3, CalmChange, CalmSignal DEF Environment
<1>4. CASE cleanup_rules_tracked
  BY <1>4 DEF cleanup_rules_tracked, CalmInv, Orderly, Leaves
<1>5. CASE recv_error \/ handle_ack_timeout \/ collect_fails \/ build_fails
  BY <1>5, CalmFaults DEF recv_error, handle_ack_timeout, collect_fails, build_fails
<1>6. ASSUME NEW job \in ApplyJob, apply_chunk_fails(job) PROVE Core'
  BY <1>6, CalmFaults DEF apply_chunk_fails, SendFails
<1> QED
  BY <1>1, <1>2, <1>3, <1>4, <1>5, <1>6, CalmHandlers, CalmFlush, CalmIdle, CalmStartup, CalmApply,
     CalmDone, CalmBuild DEF Next, Reactor, Drive, Slice

\* The daemon starts with rules of any earlier run and a startup cleanup to do.
LEMMA CalmInit == Init => InStep /\ Orderly
<1> SUFFICES ASSUME Init PROVE InStep /\ Orderly
  OBVIOUS
<1>1. maintenance.job = "Idle" /\ inflight.owner = "None" /\ ~Settled
  BY DEF Init, Idle, NoInflight, Settled
<1>2. InStep
  BY <1>1 DEF Init, InStep, EventsInStep, PlanInStep, Snapshot
<1>3. Orderly
  BY <1>1 DEF Init, Orderly, Apart, GoodEvents, StartupOnce, Stopping, HandedOver, Leaves
<1> QED
  BY <1>2, <1>3

\* What the two theorems below rest on.
LEMMA CalmHolds == ASSUME Calm PROVE Spec => []CalmInv
<1>1. Spec => []LedgerInv
  <2>1. Init => LedgerInv
    BY HandshakeInit DEF Init, LedgerInv, EntryClosed
  <2>2. LedgerInv /\ [Next]_vars => LedgerInv'
    BY LedgerStep, HandshakeStep DEF LedgerInv
  <2> QED
    BY <2>1, <2>2, PTL DEF Spec
<1>2. Spec => []OwnedHaveRules
  BY OwnershipHolds, CalmFaults
<1>3. Spec => []NoOrphanRules
  BY NoOrphansHold, CalmFaults
<1>4. Init => InStep /\ Orderly
  BY CalmInit
<1>5. CalmInv /\ [Next]_vars => InStep' /\ Orderly'
  BY CalmStep
<1> DEFINE Known == LedgerInv /\ OwnedHaveRules /\ NoOrphanRules
           New   == InStep /\ Orderly
<1>6. CalmInv <=> Known /\ New
  BY DEF CalmInv
<1>7. New /\ [Next]_vars /\ Known => New'
  BY <1>5, <1>6
<1>8. Spec => []Known
  BY <1>1, <1>2, <1>3, PTL
<1>9. Init => New
  BY <1>4
<1> HIDE DEF Known, New
<1>10. Spec => []New
  BY <1>7, <1>8, <1>9, PTL DEF Spec
<1> QED
  BY <1>6, <1>8, <1>10, PTL

\* In calm weather, when everything has come to rest, the kernel has a rule for each
\* address of the interface and no other: for any keys, batch sizes and budgets, and
\* any number of changes and resyncs.
THEOREM SyncHolds == ASSUME Calm PROVE Spec => []SyncedWhenQuiescent
<1>1. CalmInv => SyncedWhenQuiescent
  <2> SUFFICES ASSUME CalmInv, Quiescent
               PROVE  rules \cap Handled = Present(0) \cup (Present(1) \cap Handled)
    BY DEF SyncedWhenQuiescent
  <2>1. Settled /\ routeq = <<>> /\ pending = NoOps
    BY DEF Quiescent, Outstanding, Settled
  <2>2. <<>> \in Seq(AddrEvent) /\ DOMAIN <<>> = {} /\ NoOps \in Batch
    BY BatchTypes
  <2>3. insert_events(routeq, pending) = NoOps
    BY <2>1, <2>2, InsertNothing
  <2>4. \A k \in Handled : k \in Key /\ (k \in rules <=> Here(k))
    BY <2>1, <2>3, CalmTypes DEF CalmInv, InStep, EventsInStep, Outcome, NoOps
  <2> QED
    BY <2>4 DEF Present, FamilyKeys, Handled, Here
<1> QED
  BY <1>1, CalmHolds, PTL

\* In calm weather a stop takes all of the daemon's rules out of the kernel, the ones an
\* earlier run left included.
THEOREM StopHolds == ASSUME Calm PROVE Spec => []StopLeavesNoRule
<1>1. CalmInv => StopLeavesNoRule
  <2> SUFFICES ASSUME CalmInv, phase = "stopped", NEW k \in Handled PROVE k \notin rules
    BY DEF StopLeavesNoRule
  <2>1. /\ inflight.owner = "None" /\ maintenance.job = "Idle" /\ shutdown_requested
        /\ owned_ips = {} /\ ~startup_cleanup_pending
    BY DEF CalmInv, Orderly, Leaves, LoopExit, HandedOver, Stopping
  <2> QED
    BY <2>1, TrackedAreRules DEF StartupJob
<1> QED
  BY <1>1, CalmHolds, PTL
=============================================================================
