----------------------------- MODULE RuleBatch -----------------------------
(***************************************************************************)
(* What one batch of ip-rule requests does to the kernel's rules and to    *)
(* the daemon's tracked set: the pre-filter of start_pending_batch, the    *)
(* kernel's answer to every request, the classification of that answer and *)
(* its commit.  Constant operators only; AddrSync drives them.             *)
(*                                                                         *)
(* A batch is a function from keys to actions; a key the batch does not    *)
(* name has the action "None".  The code never puts a key twice in one     *)
(* batch: a batch is made of map keys, of deduplicated dump entries or of  *)
(* a merge of two duplicate-free sorted lists.                             *)
(***************************************************************************)
EXTENDS Integers

CONSTANT Key        \* the addresses (IpKey) eligible for a rule

Action == {"Add", "Delete"}
Batch  == [Key -> Action \cup {"None"}]

\* The kernel's answers to a request; "None" where nothing was asked.
Errno     == {"OK", "EEXIST", "ENOENT", "EPERM"}
ErrnoList == [Key -> Errno \cup {"None"}]

NoOps    == [k \in Key |-> "None"]
NoErrno  == [k \in Key |-> "None"]
OpKeys(ops) == {k \in Key : ops[k] # "None"}

\* The batch that asks for one action on every key of a set.
AllOf(S, action) == [k \in Key |-> IF k \in S THEN action ELSE "None"]

\* The part of a batch that concerns the keys of a set, and the rest.
Only(ops, S)   == [k \in Key |-> IF k \in S THEN ops[k] ELSE "None"]
Except(ops, S) == [k \in Key |-> IF k \in S THEN "None" ELSE ops[k]]

-----------------------------------------------------------------------------
(* The kernel.  Requests carry NLM_F_CREATE|NLM_F_EXCL and are executed in  *)
(* order when they are sent; "refused" are the keys whose request fails for *)
(* a reason of its own (no memory, no permission).                          *)

kernel_errno(ops, rules, refused) ==
    [k \in Key |->
        IF ops[k] = "None" THEN "None"
        ELSE IF k \in refused THEN "EPERM"
        ELSE IF ops[k] = "Add" THEN (IF k \in rules THEN "EEXIST" ELSE "OK")
        ELSE (IF k \in rules THEN "OK" ELSE "ENOENT")]

kernel_rules(ops, rules, refused) ==
    (rules \cup {k \in Key \ refused : ops[k] = "Add"})
        \ {k \in Key \ refused : ops[k] = "Delete"}

-----------------------------------------------------------------------------
(* The daemon.                                                              *)

\* Mutant: a rule that was there already counts as one the daemon has made.
ClassifyEexistOk(action, errno) ==
    IF errno = "OK" \/ (action = "Add" /\ errno = "EEXIST") THEN "Ok"
    ELSE IF action = "Delete" /\ errno = "ENOENT" THEN "EnoentNoop"
    ELSE "KernelErr"

\* RuleAckClass of one acknowledgement.
classify_ack_for_op(action, errno) ==
    IF errno = "OK" THEN "Ok"
    ELSE IF action = "Add" /\ errno = "EEXIST" THEN "EexistNoop"
    ELSE IF action = "Delete" /\ errno = "ENOENT" THEN "EnoentNoop"
    ELSE "KernelErr"

\* The pre-filter: adding a tracked key or deleting an untracked one is
\* dropped before anything is sent.
prefilter(ops, owned) ==
    [k \in Key |-> IF ops[k] = IF k \in owned THEN "Add" ELSE "Delete"
                   THEN "None" ELSE ops[k]]

\* Mutant: an acknowledged deletion stays tracked.
CommitAddsOnly(ops, errno, owned) ==
    owned \cup {k \in Key : ops[k] = "Add" /\ errno[k] = "OK"}

\* Only a clean acknowledgement moves the tracked set.
commit_ack_outcomes(ops, errno, owned) ==
    LET acked(action) == {k \in Key : /\ ops[k] = action
                                      /\ classify_ack_for_op(action, errno[k]) = "Ok"}
    IN (owned \cup acked("Add")) \ acked("Delete")

\* Mutant: keys that went away are not deleted.
ResyncAddsOnly(current, target) ==
    [k \in Key |-> IF k \in target \ current THEN "Add" ELSE "None"]

\* The operations that turn the tracked set into the snapshot.
resync_ops(current, target) ==
    [k \in Key |-> IF k \in target \ current THEN "Add"
                   ELSE IF k \in current \ target THEN "Delete" ELSE "None"]
=============================================================================
