----------------------------- MODULE RuleLedger -----------------------------
(***************************************************************************)
(* What the daemon promises about its tracked set, without queues, jobs,   *)
(* timers or signals: a ledger of the rules it has made.  At most one      *)
(* batch is under way; the entry for it is exactly the difference it made  *)
(* in the kernel; the ledger changes by a whole entry at a time, or is     *)
(* handed over as a whole when the daemon stops.  AddrSync implements it.  *)
(***************************************************************************)
CONSTANTS
    Key,     \* the addresses eligible for a rule
    Lossy    \* acknowledgements may be late and sends may fail half way

VARIABLES
    rules,   \* the kernel's rules
    tracked, \* the ledger (owned_ips)
    sent     \* the entry of the batch under way

vars == <<rules, tracked, sent>>

NoEntry == [busy |-> FALSE, added |-> {}, deleted |-> {}]

Init ==
    /\ rules \in SUBSET Key
    /\ tracked = {}
    /\ sent = NoEntry

\* A batch takes effect in the kernel when it is sent.
SendBatch ==
    /\ ~sent.busy
    /\ rules' \in SUBSET Key
    /\ sent' = [busy |-> TRUE, added |-> rules' \ rules, deleted |-> rules \ rules']
    /\ UNCHANGED tracked

\* Its acknowledgements are complete: the entry is booked.
Commit ==
    /\ sent.busy
    /\ tracked' = (tracked \cup sent.added) \ sent.deleted
    /\ sent' = NoEntry
    /\ UNCHANGED rules

\* Its acknowledgements are late: the entry is lost.
Lose ==
    /\ Lossy
    /\ sent.busy
    /\ sent' = NoEntry
    /\ UNCHANGED <<rules, tracked>>

\* A batch is sent in part and never gets an entry.
SendHalf ==
    /\ Lossy
    /\ ~sent.busy
    /\ rules' \in SUBSET Key
    /\ UNCHANGED <<tracked, sent>>

\* The stop takes the ledger as its list of rules to delete; the blocking
\* cleanup has deleted some of them by the time it returns, and no other rule.
HandOver ==
    /\ tracked' = {}
    /\ rules' \subseteq rules
    /\ rules \ tracked \subseteq rules'
    /\ UNCHANGED sent

Next == SendBatch \/ Commit \/ Lose \/ SendHalf \/ HandOver

Spec == Init /\ [][Next]_vars

-----------------------------------------------------------------------------
\* A ledger that loses no entry claims no rule the kernel does not have, other
\* than those whose deletion is about to be booked.
LedgerIsCovered == ~Lossy => tracked \subseteq rules \cup sent.deleted
=============================================================================
