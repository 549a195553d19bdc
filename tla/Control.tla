------------------------------ MODULE Control -------------------------------
(***************************************************************************)
(* The control plane.  There is no pid file and no control socket: the     *)
(* commands of a work directory find its daemon by scanning /proc and talk *)
(* to it with signals, and run --daemon learns from a pipe whether the     *)
(* daemon it spawned came up.                                              *)
(*                                                                         *)
(* Any number of processes come and go, at most MaxPid of them at a time;  *)
(* the pid of one that has gone is used again at once.  All processes are  *)
(* of one work directory: Startup has what they make of their arguments,   *)
(* AddrSync what a daemon does in its event loop.                          *)
(***************************************************************************)
EXTENDS Integers

CONSTANT MaxPid     \* bound: processes at a time

ASSUME ControlAssumption == MaxPid \in Nat \ {0}

VARIABLE proc       \* the process of each pid

vars == proc

Pid   == 1 .. MaxPid
None  == 0          \* no pid
Stale == -1         \* start_ticks of a process that has gone

\* "start" is run --daemon, "daemon" is run, "client" is a stop, a resync or a status
\* that looks for the daemon: they scan alike, and a stop or a resync is told apart
\* once it has found somebody.  A scan has read the pids listed, up
\* to listed_to, and has found target; ticks stands for the process whose
\* start_ticks were read; child is what a start has spawned; piped says that the
\* process was spawned with a ready pipe, ready that it has written its byte, term
\* that a SIGTERM is pending.  owed is a history variable: the processes that have
\* matched ever since the scan began.
Free == [kind |-> "none", at |-> "free", listed |-> {}, listed_to |-> 0, target |-> None,
         ticks |-> None, child |-> None, piped |-> FALSE, ready |-> FALSE, term |-> FALSE,
         owed |-> {}]

Init == proc = [p \in Pid |-> Free]

Ended(p)   == proc[p].at \in {"free", "zombie"}
Starter(p) == {s \in Pid : proc[s].child = p}

\* The command lines of both are those of a run; a zombie has none.
Matches(p) == ~Ended(p) /\ proc[p].kind \in {"start", "daemon"}

-----------------------------------------------------------------------------
(* The kernel.                                                              *)

\* The table P once the processes of E have ended: a zombie stays while its
\* starter may still wait for it.
Settle(P, E) ==
    LET waited == {p \in Pid : \E s \in Pid \ E : P[s].child = p}
        gone   == {p \in Pid \ waited : p \in E \/ P[p].at = "zombie"}
    IN [p \in Pid |->
          IF p \in gone THEN Free
          ELSE IF p \in E THEN [Free EXCEPT !.kind = P[p].kind, !.at = "zombie",
                                            !.piped = P[p].piped, !.ready = P[p].ready]
          ELSE [P[p] EXCEPT !.owed = @ \ E, !.ticks = IF @ \in gone THEN Stale ELSE @]]

Goto(p, place) == proc' = [proc EXCEPT ![p].at = place]
Exit(p)        == proc' = Settle(proc, {p})

\* Somebody runs a command; run loads its configuration first.  (So does status, but
\* nobody looks for a status, and one that fails there has no effect.)
Launch(p) ==
    /\ proc[p] = Free
    /\ \E k \in {"start", "daemon", "client"} :
          proc' = [proc EXCEPT ![p].kind = k,
                               ![p].at = IF k = "client" THEN "scan" ELSE "load"]

-----------------------------------------------------------------------------
(* run: Options::load and Daemon::new, the signalfd, the ready byte, the    *)
(* event loop.                                                              *)

\* A configuration that does not load, or a daemon that fails.
Fails(p) ==
    /\ proc[p].at \in {"load", "masked", "loop"}
    /\ Exit(p)

setup_signalfd(p) ==
    /\ proc[p].kind = "daemon" /\ proc[p].at = "load"
    /\ Goto(p, "masked")

\* Mutant: the daemon goes on although nobody reads its byte.
NotifyIgnoringErrors(p) ==
    /\ proc[p].at = "masked"
    /\ proc' = [proc EXCEPT ![p].at = "loop", ![p].ready = (Starter(p) # {})]

\* The byte goes into the pipe, if there is one; if the starter has gone the write
\* fails and the daemon ends.
notify_ready_fd(p) ==
    /\ proc[p].at = "masked"
    /\ \/ /\ ~proc[p].piped
          /\ Goto(p, "loop")
       \/ /\ Starter(p) # {}
          /\ proc' = [proc EXCEPT ![p].at = "loop", ![p].ready = TRUE]
       \/ /\ proc[p].piped /\ Starter(p) = {}
          /\ Exit(p)

\* The event loop ends after a SIGTERM.
loop_exits(p) ==
    /\ proc[p].at = "loop" /\ proc[p].term
    /\ Exit(p)

\* Mutant: a signalfd, and the signals are not blocked.
NeverBlocked(p) == FALSE

\* A daemon blocks SIGTERM and SIGUSR1 when it sets up its signalfd; before that,
\* and all other processes at any time, it dies of them.
SignalsBlocked(p) == proc[p].at \in {"masked", "loop"}

-----------------------------------------------------------------------------
(* find_running_daemon_normalized                                           *)

\* A start has loaded its configuration.
begin_find(n) ==
    /\ proc[n].kind = "start" /\ proc[n].at = "load"
    /\ Goto(n, "scan")

\* Mutant: all pids up to its own are skipped.
OthersAbove(n, upto) ==
    {p \in Pid : n < p /\ proc[n].listed_to < p /\ p <= upto /\ proc[p] # Free}

\* The other processes of a stretch of /proc.
Others(n, upto) ==
    {p \in Pid \ {n} : proc[n].listed_to < p /\ p <= upto /\ proc[p] # Free}

\* The directory is read in stretches, before the command lines are.
read_dir(n) ==
    /\ proc[n].at = "scan" /\ proc[n].listed = {}
    /\ \E upto \in proc[n].listed_to + 1 .. MaxPid :
          proc' = [proc EXCEPT ![n].listed = Others(n, upto), ![n].listed_to = upto,
                               ![n].owed = IF proc[n].listed_to > 0 THEN @
                                           ELSE {p \in Pid \ {n} : Matches(p)}]

\* Processes are looked at in the order of /proc; the first that matches is taken.
read_cmdline(n) ==
    /\ proc[n].at = "scan"
    /\ \E p \in proc[n].listed :
          /\ \A q \in proc[n].listed : p <= q
          /\ \/ /\ ~Matches(p)
                /\ proc' = [proc EXCEPT ![n].listed = @ \ {p}]
             \/ /\ Matches(p)
                /\ \/ Exit(n)             \* a start or a status: "(already) running"
                   \/ /\ proc[n].kind = "client"
                      /\ \E k \in {"stop", "resync"} :
                            proc' = [proc EXCEPT ![n] = [Free EXCEPT !.kind = k, !.at = "ticks",
                                                                     !.target = p]]

finds_nobody(n) ==
    /\ proc[n].at = "scan" /\ proc[n].listed = {} /\ proc[n].listed_to = MaxPid
    /\ \/ /\ proc[n].kind # "start"              \* "not running", "stopped"
          /\ Exit(n)
       \/ /\ proc[n].kind = "start"
          /\ proc' = [proc EXCEPT ![n] = [Free EXCEPT !.kind = "start", !.at = "spawn"]]

-----------------------------------------------------------------------------
(* stop_background and signal_resync                                        *)

\* The start_ticks of whoever has the pid by now.
process_start_ticks(n) ==
    LET p == proc[n].target
    IN /\ proc[n].at = "ticks"
       /\ proc' = [proc EXCEPT ![n].at = "kill",
                               ![n].ticks = IF proc[p] = Free THEN None ELSE p]

\* kill(2) succeeds on a zombie, to no effect.
send_signal(n) ==
    LET p     == proc[n].target
        dying == IF Ended(p) \/ SignalsBlocked(p) THEN {} ELSE {p}
    IN /\ proc[n].at = "kill"
       /\ \/ /\ proc[p] = Free                  \* ESRCH
             /\ Exit(n)
          \/ /\ proc[p] # Free /\ proc[n].kind = "stop"
             /\ proc' = Settle([proc EXCEPT ![n].at = "poll",
                                            ![p].term = SignalsBlocked(p)], dying)
          \/ /\ proc[p] # Free /\ proc[n].kind = "resync"
             /\ proc' = Settle(proc, dying \cup {n})

\* Mutant: whoever got the signal is taken for gone.
NobodyAlive(n) == FALSE

is_same_process_alive(n) ==
    proc[proc[n].target] # Free /\ proc[n].ticks \in {None, proc[n].target}

StopWaits(n) == proc[n].kind = "stop" /\ proc[n].at = "poll"

\* The process has ended within five seconds, or it has not.
stop_succeeds(n) == StopWaits(n) /\ ~is_same_process_alive(n) /\ Exit(n)
stop_timeout(n)  == StopWaits(n) /\ is_same_process_alive(n) /\ Exit(n)

-----------------------------------------------------------------------------
(* start_background and wait_child_ready_signal                             *)

spawn(n) ==
    /\ proc[n].at = "spawn"
    /\ \/ Exit(n)
       \/ \E p \in Pid :
             /\ proc[p] = Free
             /\ proc' = [proc EXCEPT ![p].kind = "daemon", ![p].at = "load",
                                     ![p].piped = TRUE,
                                     ![n].at = "try", ![n].child = p]

try_wait(n) ==
    /\ proc[n].at = "try"
    /\ \/ proc[proc[n].child].at = "zombie" /\ Exit(n)      \* "exited early"
       \/ proc[proc[n].child].at # "zombie" /\ Goto(n, "poll")

StartWaits(n) == proc[n].kind = "start" /\ proc[n].at = "poll"

\* The daemon closes its end of the pipe after it has written its byte, or ends.
PipeClosed(n) == proc[proc[n].child].at \in {"loop", "zombie"}

\* Mutant: the end of the pipe is read as the byte.
ReadyOrEof(n) == PipeClosed(n)

\* The ready byte is in the pipe.
ReadyByte(n) == proc[proc[n].child].ready

\* The byte, the end of the pipe, or nothing for ten seconds.
start_succeeds(n) == StartWaits(n) /\ ReadyByte(n) /\ Exit(n)
start_eof(n)      == StartWaits(n) /\ ~ReadyByte(n) /\ PipeClosed(n) /\ Exit(n)
start_timeout(n)  == StartWaits(n) /\ ~ReadyByte(n) /\ ~PipeClosed(n) /\ Exit(n)

-----------------------------------------------------------------------------
find(n) == begin_find(n) \/ read_dir(n) \/ read_cmdline(n) \/ finds_nobody(n)

\* Everything a command does, and a daemon until it is up.
Step(n) ==
    \/ find(n) \/ process_start_ticks(n) \/ send_signal(n)
    \/ stop_succeeds(n) \/ stop_timeout(n)
    \/ spawn(n) \/ try_wait(n)
    \/ start_succeeds(n) \/ start_eof(n) \/ start_timeout(n)
    \/ setup_signalfd(n) \/ notify_ready_fd(n)

Next == \E n \in Pid : Launch(n) \/ Step(n) \/ Fails(n) \/ loop_exits(n)

Spec == Init /\ [][Next]_vars

\* Processes are scheduled and their deadlines pass.  Nobody has to run a command,
\* and a daemon stays in its loop after a SIGTERM for as long as it likes.
FairSpec == Spec /\ \A n \in Pid : WF_vars(Step(n))

-----------------------------------------------------------------------------
(* Properties.                                                              *)

\* A scan that finds nobody has missed nobody who was there all the time: no start
\* spawns a second daemon beside one that was up before, and stop, resync and
\* status do not overlook it, although pids come and go while /proc is read
\* (find_running_daemon_normalized).
SteadyDaemonIsFound ==
    [][\A n \in Pid : finds_nobody(n) => proc[n].owed = {}]_vars

\* A start says what is true: when it reports success the daemon blocks its signals
\* and is in its loop, or was and has ended since; when it reports a closed pipe
\* there is no daemon (wait_child_ready_signal, notify_ready_fd, setup_signalfd).
StartReportsTruth ==
    [][\A n \in Pid :
          LET d == proc[n].child
          IN /\ start_succeeds(n) => \/ proc[d].at = "loop"
                                     \/ proc[d].at = "zombie" /\ proc[d].ready
             /\ start_eof(n) => Ended(d)]_vars

\* After "stopped" the process whose start_ticks were read has gone, even if its
\* pid is in use again (stop_background, is_same_process_alive).
StopReportsTruth ==
    [][\A n \in Pid : stop_succeeds(n) => proc[n].ticks \in {None, Stale}]_vars

\* A daemon that has said it is ready never dies of a stop or a resync: it gets to
\* its shutdown cleanup (setup_signalfd comes before notify_ready_fd).
ReadyDaemonIsNotKilled ==
    [][\A n, p \in Pid : send_signal(n) /\ proc[p].ready /\ ~Ended(p) =>
          proc'[p].at = proc[p].at]_vars

\* Nothing hangs: a start, a stop, a resync and a status end whatever the daemon
\* does, and a daemon whose start has gone before it was ready ends by itself, so
\* that a failed start leaves nothing behind (START_WAIT_TIMEOUT,
\* STOP_WAIT_TIMEOUT, notify_ready_fd).
NothingHangs ==
    \A p \in Pid :
        (/\ ~Ended(p)
         /\ proc[p].kind = "daemon" => proc[p].piped /\ ~proc[p].ready /\ Starter(p) = {})
        ~> Ended(p)
=============================================================================
