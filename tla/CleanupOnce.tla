---------------------------- MODULE CleanupOnce -----------------------------
(***************************************************************************)
(* cleanup_rules, which runs in one go: as the command cleanup, in a       *)
(* process of its own (cleanup_once), and when the daemon leaves its loop  *)
(* with tracked rules.  With source "Dump" it reads a dump of the kernel's *)
(* rules and deletes its own in batches, some of them from within the      *)
(* callback of the dump, on the socket the dump arrives on.                *)
(*                                                                         *)
(* The kernel makes a packet of a dump when the one before it is read, and *)
(* resumes at the position it had reached; requests are executed and       *)
(* acknowledged when they are sent, behind the packet that is ready.       *)
(* Which acknowledgement belongs to which request is the subject of        *)
(* AckMatch.                                                               *)
(***************************************************************************)
EXTENDS Integers, SequencesExt

CONSTANTS
    Addr4, Addr6,   \* addresses with rules
    Ipv6,           \* opts.ipv6
    PacketRules,    \* how many rules the kernel puts in a packet
    Slots,          \* packets of a recv_many
    BatchSize,      \* max(batch_max, CLEANUP_BATCH_SIZE)
    MaxChanges      \* bound: changes of the rules by other processes

NoDst == "none"     \* a rule without a destination

ASSUME CleanupAssumption ==
    /\ {PacketRules, Slots, BatchSize} \subseteq Nat \ {0} /\ Ipv6 \in BOOLEAN
    /\ NoDst \notin Addr4 \cup Addr6

VARIABLES
    pc,         \* "tracked", "family", "recv", "msgs", "flush", "ok" or "err"
    source,     \* CleanupSource
    families,   \* the families still to be dumped
    tracked,    \* the tracked addresses taken from owned_ips and not pushed yet
    chunk_ops,  \* addresses to delete
    seen,       \* of the dump
    ring, got,  \* messages received and not looked at, packets in the ring
    done,       \* NLMSG_DONE was among them
    rules,      \* kernel: the rules of a family, in order
    packet,     \* kernel: the packet that is ready
    position,   \* kernel: where the dump resumes; 0 if none is running
    refused,    \* kernel: addresses whose deletion fails
    changes,
    owed,       \* history: own rules that were there when the cleanup began
    disturbed   \* history: a rule of the dump was deleted by another process

kernel == <<rules, packet, position, refused>>
vars == <<pc, source, families, tracked, chunk_ops, seen, ring, got, done, kernel,
          changes, owed, disturbed>>

-----------------------------------------------------------------------------
(* The rules.                                                               *)

\* rule_ctx
RuleContext == [pref |-> 1, table |-> 1]

OwnRule(addr) == [dst |-> addr, pref |-> RuleContext.pref, table |-> RuleContext.table]
Family(addr)  == IF addr \in Addr4 THEN 4 ELSE 6
AllFamilies   == IF Ipv6 THEN <<4, 6>> ELSE <<4>>

\* Rules of others: one for an address, in another table, and one for a mark.
OtherRules == {[dst |-> CHOOSE a \in Addr4 : TRUE, pref |-> 1, table |-> 2],
               [dst |-> NoDst, pref |-> 1, table |-> 1]}

Lists(R) == {s \in UNION {[1 .. n -> R] : n \in 0 .. Cardinality(R)} : IsInjective(s)}

Init ==
    /\ \E r4 \in Lists({OwnRule(a) : a \in Addr4} \cup OtherRules),
          r6 \in Lists({OwnRule(a) : a \in Addr6}) : 
             rules = [family \in {4, 6} |-> IF family = 4 THEN r4 ELSE r6]
    /\ LET own == {a \in Addr4 \cup Addr6 : OwnRule(a) \in Range(rules[Family(a)])}
       IN \/ /\ source = "Dump" /\ pc = "family" /\ tracked = {}
             /\ owed = {a \in own : Family(a) \in Range(AllFamilies)}
          \/ /\ source = "Tracked" /\ pc = "tracked" /\ tracked \in SUBSET own
             /\ owed = tracked
    /\ families = AllFamilies
    /\ chunk_ops = {} /\ seen = {} /\ ring = <<>> /\ got = 0 /\ done = FALSE
    /\ refused \in {{}} \cup {{a} : a \in Addr4}
    /\ packet = <<>> /\ position = 0
    /\ changes = 0 /\ disturbed = FALSE

-----------------------------------------------------------------------------
(* The kernel.                                                              *)

DONE == [dst |-> "done", pref |-> 0, table |-> 0]

\* The dump goes on at a position: rules as far as they fit, then the end, in a
\* packet of its own or in that of the last rules.
Fill(family, from) ==
    LET upto == Min({Len(rules[family]), from + PacketRules - 1})
        some == SubSeq(rules[family], from, upto)
    IN \/ /\ some # <<>>
          /\ packet' = some /\ position' = upto + 1
       \/ /\ upto = Len(rules[family])
          /\ packet' = Append(some, DONE) /\ position' = 0

\* Mutant: the request does not say which table.
RequestAnyTable(addr) == [dst |-> addr, pref |-> RuleContext.pref]

\* A request matches the rules that have the attributes it carries.
build_rule_message(addr) == OwnRule(addr)
MatchedBy(request, rule) == \A field \in DOMAIN request : rule[field] = request[field]

\* What is left of a list of rules after the deletions of a set of addresses.
Surviving(list, S) ==
    LET kept[n \in 0 .. Len(list)] ==
          IF n = 0 THEN <<>>
          ELSE IF \E a \in S : MatchedBy(build_rule_message(a), list[n]) THEN kept[n - 1]
          ELSE Append(kept[n - 1], list[n])
    IN kept[Len(list)]

kernel_deletes(S) ==
    rules' = [family \in {4, 6} |->
                Surviving(rules[family], {a \in S \ refused : Family(a) = family})]

\* Another process, such as the daemon, makes or deletes a rule.
OthersAdd ==
    /\ changes < MaxChanges
    /\ \E a \in Addr4, i \in 1 .. Len(rules[4]) + 1 :
          /\ OwnRule(a) \notin Range(rules[4])
          /\ rules' = [rules EXCEPT ![4] = InsertAt(@, i, OwnRule(a))]
          /\ owed' = owed \ {a}
    /\ changes' = changes + 1
    /\ UNCHANGED <<pc, source, families, tracked, chunk_ops, seen, ring, got, done,
                   packet, position, refused, disturbed>>

OthersDelete ==
    /\ changes < MaxChanges
    /\ \E i \in DOMAIN rules[4] : rules' = [rules EXCEPT ![4] = RemoveAt(@, i)]
    /\ disturbed' = (disturbed \/ position > 0)
    /\ changes' = changes + 1
    /\ UNCHANGED <<pc, source, families, tracked, chunk_ops, seen, ring, got, done,
                   packet, position, refused, owed>>

-----------------------------------------------------------------------------
(* apply_batch_blocking: the requests are sent and acknowledged at once.    *)
(* drain_apply_ack_messages reads until the socket is empty, so whatever    *)
(* the kernel still has of a dump is read as well, and dropped.             *)

apply_batch_blocking(S) ==
    /\ kernel_deletes(S)
    /\ packet' = <<>> /\ position' = 0

\* A target is pushed; a full chunk is applied.
push_target(addr) ==
    LET chunk == chunk_ops \cup {addr}
    IN IF Cardinality(chunk) < BatchSize
       THEN chunk_ops' = chunk /\ UNCHANGED <<rules, packet, position>>
       ELSE chunk_ops' = {} /\ apply_batch_blocking(chunk)

\* Source Tracked: the tracked set is iterated in no particular order.
push_tracked ==
    /\ pc = "tracked"
    /\ \/ \E a \in tracked : push_target(a) /\ tracked' = tracked \ {a} /\ UNCHANGED pc
       \/ /\ tracked = {} /\ pc' = "flush"
          /\ UNCHANGED <<tracked, chunk_ops, rules, packet, position>>
    /\ UNCHANGED <<source, families, seen, ring, got, done, refused, changes, owed, disturbed>>

\* What is left after the last family or tracked address.
flush_chunk ==
    /\ pc = "flush" /\ pc' = "ok"
    /\ IF chunk_ops = {} THEN UNCHANGED <<rules, packet, position>>
       ELSE apply_batch_blocking(chunk_ops)
    /\ chunk_ops' = {}
    /\ UNCHANGED <<source, families, tracked, seen, ring, got, done, refused, changes,
                   owed, disturbed>>

-----------------------------------------------------------------------------
(* dump_cleanup_targets_stream_with_scratch                                 *)

\* start_cleanup_dump_family
start_family ==
    /\ pc = "family"
    /\ IF families = <<>> THEN pc' = "flush" /\ UNCHANGED <<packet, position, seen, done>>
       ELSE /\ pc' = "recv"
            /\ Fill(Head(families), 1)
            /\ seen' = {} /\ done' = FALSE
    /\ UNCHANGED <<source, families, tracked, chunk_ops, ring, got, rules, refused, changes,
                   owed, disturbed>>

\* recv_many reads a packet; the kernel makes the next one.
recv_packet ==
    /\ pc = "recv" /\ got < Slots /\ packet # <<>>
    /\ ring' = ring \o packet /\ got' = got + 1
    /\ IF position = 0 THEN packet' = <<>> /\ UNCHANGED position
       ELSE Fill(Head(families), position)
    /\ UNCHANGED <<pc, source, families, tracked, chunk_ops, seen, done, rules, refused,
                   changes, owed, disturbed>>

\* recv_many returns, because the ring is full or the socket is empty.
recv_many_returns ==
    /\ pc = "recv" /\ got > 0
    /\ got = Slots \/ packet = <<>>
    /\ pc' = "msgs" /\ got' = 0
    /\ UNCHANGED <<source, families, tracked, chunk_ops, seen, ring, done, kernel, changes,
                   owed, disturbed>>

\* Mutant: an empty socket is taken for the end of the dump.
EndOnEmptySocket ==
    /\ pc = "recv" /\ got = 0 /\ packet = <<>>
    /\ pc' = "family" /\ families' = Tail(families)
    /\ UNCHANGED <<source, tracked, chunk_ops, seen, ring, got, done, kernel, changes, owed,
                   disturbed>>

\* Mutant: the wait has no deadline.
WaitForever ==
    /\ FALSE
    /\ UNCHANGED vars

\* recv_until_done: nothing comes until DUMP_WAIT_TIMEOUT.
dump_wait_timeout ==
    /\ pc = "recv" /\ got = 0 /\ packet = <<>>
    /\ pc' = "err"
    /\ UNCHANGED <<source, families, tracked, chunk_ops, seen, ring, got, done, kernel,
                   changes, owed, disturbed>>

\* A rule of the daemon's table and preference, for an address.
parse_cleanup_rule_addr(rule) ==
    IF rule.dst # NoDst /\ rule.pref = RuleContext.pref /\ rule.table = RuleContext.table
    THEN rule.dst ELSE NoDst

\* recv_step looks at a message.
on_msg ==
    LET m    == Head(ring)
        addr == parse_cleanup_rule_addr(m)
    IN /\ pc = "msgs" /\ ring # <<>>
       /\ ring' = Tail(ring)
       /\ IF m # DONE /\ addr # NoDst /\ addr \notin seen
          THEN seen' = seen \cup {addr} /\ push_target(addr) /\ UNCHANGED done
          ELSE done' = (done \/ m = DONE) /\ UNCHANGED <<seen, chunk_ops, rules, packet, position>>
       /\ UNCHANGED <<pc, source, families, tracked, got, refused, changes, owed, disturbed>>

\* recv_step returns Done or Continue.
recv_step_returns ==
    /\ pc = "msgs" /\ ring = <<>>
    /\ IF done THEN pc' = "family" /\ families' = Tail(families)
       ELSE pc' = "recv" /\ UNCHANGED families
    /\ UNCHANGED <<source, tracked, chunk_ops, seen, ring, got, done, kernel, changes, owed,
                   disturbed>>

\* Any system call may fail, and an acknowledgement may be late: an error.
fails ==
    /\ pc \notin {"ok", "err"} /\ pc' = "err"
    /\ UNCHANGED <<source, families, tracked, chunk_ops, seen, ring, got, done, kernel,
                   changes, owed, disturbed>>

Step ==
    \/ push_tracked \/ flush_chunk
    \/ start_family \/ recv_packet \/ recv_many_returns \/ dump_wait_timeout
    \/ on_msg \/ recv_step_returns

Next == Step \/ fails \/ OthersAdd \/ OthersDelete

\* The process goes on; its deadlines pass.
Spec == Init /\ [][Next]_vars /\ WF_vars(Step)

-----------------------------------------------------------------------------
(* Properties.                                                              *)

\* A cleanup that reports success has deleted every rule it was to delete, unless
\* the kernel refused: a batch that is applied while the dump is still coming takes
\* the rest of the dump with it, and then the cleanup fails.  Rules that others make
\* meanwhile do no harm; one they delete in the middle of a dump may hide another
\* (cleanup_rules, recv_until_done, drain_apply_ack_messages).
SuccessIsComplete ==
    pc = "ok" /\ ~disturbed =>
        \A a \in owed \ refused : OwnRule(a) \notin Range(rules[Family(a)])

\* The rules of others stay: those of another table for the same address, and those
\* without an address, although they have the daemon's preference and table
\* (build_rule_message_into, parse_cleanup_rule_addr).
OthersAreKept ==
    [][changes' = changes =>
          \A r \in OtherRules : r \in Range(rules[4]) => r \in Range(rules'[4])]_vars

\* The cleanup comes to an end, also after it has lost the end of a dump
\* (recv_until_done, wait_readable).
CleanupEnds == <>(pc \in {"ok", "err"})
=============================================================================
