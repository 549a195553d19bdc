-------------------------------- MODULE Pbr ---------------------------------
(***************************************************************************)
(* The pbr command (pbr.rs): requests for one mark, table and preference,  *)
(* each run by a process of its own.  A request talks to the kernel one    *)
(* message at a time: the message is executed when it is sent and the      *)
(* process goes on by the acknowledgement's class.  Several requests may   *)
(* run at once, as when boot scripts and an operator overlap.              *)
(***************************************************************************)
EXTENDS Integers, FiniteSets

CONSTANTS
    Proc,         \* the processes that run a request
    Limit,        \* DELETE_RULE_LIMIT
    MaxRules      \* bound: equal rules present at the start

ASSUME PbrAssumption ==
    /\ IsFiniteSet(Proc) /\ Proc # {}
    /\ Limit \in Nat \ {0}
    /\ MaxRules \in Nat \ {0}

VARIABLES
    rules,        \* the kernel's rules that match the request (equal rules,
                  \* left by other tools, are possible)
    route,        \* the table has its local default route
    action,       \* PbrAction of every process
    pc,           \* the message a process sends next, or how it ended
    tries,        \* iterations of cleanup_request's loop so far
    before,       \* history: rules at the start
    refused       \* history: the kernel refused some message

pbr_vars == <<rules, route, action, pc, tries, before, refused>>

PbrOp == {"DeleteRule", "DeleteRoute", "ReplaceRoute", "AddRule"}
RequestEnded == {"ok", "failed"}

\* Whatever earlier requests and other tools left.
PbrInit ==
    /\ rules \in 0 .. MaxRules
    /\ route \in BOOLEAN
    /\ action \in [Proc -> {"Apply", "Cleanup"}]
    /\ pc = [p \in Proc |-> "idle"]
    /\ tries = [p \in Proc |-> 0]
    /\ before = rules
    /\ refused = FALSE

-----------------------------------------------------------------------------
(* The kernel.  NLM_F_EXCL on a new rule, NLM_F_REPLACE on a new route; a   *)
(* deletion removes one rule.                                               *)

errno(op) ==
    IF op = "AddRule" /\ rules > 0 THEN "EEXIST"
    ELSE IF op = "DeleteRule" /\ rules = 0 THEN "ENOENT"
    ELSE IF op = "DeleteRoute" /\ ~route THEN "ESRCH"
    ELSE "OK"

execute(op) ==
    /\ rules' = CASE op = "AddRule" /\ rules = 0 -> 1
                  [] op = "DeleteRule" /\ rules > 0 -> rules - 1
                  [] OTHER -> rules
    /\ route' = CASE op = "ReplaceRoute" -> TRUE
                  [] op = "DeleteRoute" -> FALSE
                  [] OTHER -> route

-----------------------------------------------------------------------------
(* The process.                                                             *)

\* Mutant: every error counts as nothing to do.
ClassifyLenient(op, status) == IF status = "OK" THEN "Ok" ELSE "Noop"

classify_pbr_ack(op, status) ==
    IF status = "OK" THEN "Ok"
    ELSE IF op \in {"AddRule", "ReplaceRoute"} /\ status = "EEXIST" THEN "Noop"
    ELSE IF op \in {"DeleteRule", "DeleteRoute"} /\ status \in {"ENOENT", "ESRCH"} THEN "Noop"
    ELSE "KernelErr"

\* Mutant: one iteration too few.
LoopOneShort(p, class) == class # "Noop" /\ tries[p] + 2 < Limit

\* The loop of cleanup_request goes on: only "nothing to delete" leaves it early.
LoopAgain(p, class) == class # "Noop" /\ tries[p] + 1 < Limit

\* Mutant: the rule is added before the route its table needs.
RuleBeforeRoute(p, op) ==
    CASE op = "DeleteRule"   -> "DeleteRoute"
      [] op = "DeleteRoute"  -> IF action[p] = "Apply" THEN "AddRule" ELSE "ok"
      [] op = "AddRule"      -> "ReplaceRoute"
      [] op = "ReplaceRoute" -> "ok"

\* The message that follows when op is through.
AfterOp(p, op) ==
    CASE op = "DeleteRule"   -> "DeleteRoute"
      [] op = "DeleteRoute"  -> IF action[p] = "Apply" THEN "ReplaceRoute" ELSE "ok"
      [] op = "ReplaceRoute" -> "AddRule"
      [] op = "AddRule"      -> "ok"

GoOn(p, op, class) ==
    IF op = "DeleteRule"
    THEN IF LoopAgain(p, class)
         THEN /\ tries' = [tries EXCEPT ![p] = @ + 1]
              /\ UNCHANGED pc
         ELSE /\ pc' = [pc EXCEPT ![p] = AfterOp(p, op)]
              /\ UNCHANGED tries
    ELSE /\ pc' = [pc EXCEPT ![p] = IF class = "KernelErr" THEN "failed" ELSE AfterOp(p, op)]
         /\ UNCHANGED tries

\* run_request: open the socket, look up the loopback interface; both actions
\* begin with cleanup_request.
run_request(p) ==
    /\ pc[p] = "idle"
    /\ \E next \in {"DeleteRule", "failed"} : pc' = [pc EXCEPT ![p] = next]
    /\ UNCHANGED <<rules, route, action, tries, before, refused>>

\* send_pbr_message_classified: the kernel executes the message.
send_pbr_message(p) ==
    LET op == pc[p]
    IN /\ op \in PbrOp
       /\ execute(op)
       /\ GoOn(p, op, classify_pbr_ack(op, errno(op)))
       /\ UNCHANGED <<action, before, refused>>

\* The kernel refuses the message.
message_refused(p) ==
    LET op == pc[p]
    IN /\ op \in PbrOp
       /\ refused' = TRUE
       /\ GoOn(p, op, classify_pbr_ack(op, "EPERM"))
       /\ UNCHANGED <<rules, route, action, before>>

\* The send fails, or wait_pbr_ack times out after the message was executed:
\* the request ends with an error.
ack_lost(p) ==
    /\ pc[p] \in PbrOp
    /\ execute(pc[p]) \/ UNCHANGED <<rules, route>>
    /\ pc' = [pc EXCEPT ![p] = "failed"]
    /\ UNCHANGED <<action, tries, before, refused>>

PbrStep(p) == run_request(p) \/ send_pbr_message(p) \/ message_refused(p) \/ ack_lost(p)

PbrNext == \E p \in Proc : PbrStep(p)

PbrSpec == PbrInit /\ [][PbrNext]_pbr_vars

-----------------------------------------------------------------------------
(* Properties.                                                              *)

\* Every variable keeps its range; the loop of cleanup_request makes at most
\* Limit iterations.
PbrTypeOK ==
    /\ rules \in 0 .. MaxRules /\ before \in 0 .. MaxRules
    /\ route \in BOOLEAN /\ refused \in BOOLEAN
    /\ action \in [Proc -> {"Apply", "Cleanup"}]
    /\ pc \in [Proc -> PbrOp \cup RequestEnded \cup {"idle"}]
    /\ tries \in [Proc -> 0 .. Limit - 1]

AllOk(a) == \A p \in Proc : action[p] = a /\ pc[p] = "ok"

\* Applies that run at the same time delete each other's rule and route, yet
\* when all have succeeded the rule and the route are there: whoever deletes
\* last still has to add (run_request deletes before it adds).  A refused
\* deletion does not matter.
AppliesConverge == AllOk("Apply") => rules > 0 /\ route

\* Cleanups that succeeded without a refusal left no route, and no rule unless
\* there were more equal ones than their loops could delete together
\* (DELETE_RULE_LIMIT in cleanup_request).
CleanupIsComplete ==
    AllOk("Cleanup") /\ ~refused =>
        /\ ~route
        /\ before <= Limit * Cardinality(Proc) => rules = 0

\* A request that runs alone never takes the route from a rule or adds a rule
\* whose table has no route, whether it ends well or not, as long as deletions
\* are not refused and one loop can delete all equal rules (the order of
\* run_request's and cleanup_request's messages).
RuleHasRoute ==
    [][/\ Cardinality({p \in Proc : pc[p] # "idle"}) <= 1
       /\ ~refused'
       /\ before <= Limit
       /\ rules > 0 => route
       => (rules' > 0 => route')]_pbr_vars

=============================================================================
