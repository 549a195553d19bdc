--------------------------- MODULE ProcessProofs ----------------------------
(***************************************************************************)
(* The processes around the rule table.  The commands, for any number of   *)
(* processes: a scan misses nobody who was there all the time, a start and *)
(* a stop say what has happened, and a daemon that is ready does not die   *)
(* of a signal.  The two handlers of the event loop that have limits of    *)
(* their own: the debounce window is bounded from both sides, for every    *)
(* set of keys and every setting of the times, and the drain of the route  *)
(* socket loses less than one ring, for all budgets and ring sizes.  The   *)
(* pbr command, for any number of requests and any deletion limit.         *)
(***************************************************************************)
EXTENDS Control, Debounce, RouteDrain, Pbr, TLAPS

-----------------------------------------------------------------------------
(* The commands.                                                            *)

Kind  == {"none", "start", "daemon", "client", "stop", "resync"}
Place == {"free", "load", "masked", "loop", "zombie", "scan", "spawn", "try", "poll",
          "ticks", "kill"}

Process ==
    [kind : Kind, at : Place, listed : SUBSET Pid, listed_to : 0 .. MaxPid,
     target : Pid \cup {None}, ticks : Pid \cup {None, Stale}, child : Pid \cup {None},
     piped : BOOLEAN, ready : BOOLEAN, term : BOOLEAN, owed : SUBSET Pid]

-----------------------------------------------------------------------------
(* The invariant, of a table of processes: a step may change the table and  *)
(* then let processes end.                                                  *)

\* Matches, of a table.
Running(P, p) == P[p].at \notin {"free", "zombie"} /\ P[p].kind \in {"start", "daemon"}

\* Who is owed to a scan still runs, and is listed or comes later in /proc.
Scans(P) ==
    \A n \in Pid : \A p \in P[n].owed :
        Running(P, p) /\ p # n /\ (p \in P[n].listed \/ p > P[n].listed_to)

\* Only a daemon in its loop has said it is ready, and one with a pipe has.
Readiness(P) ==
    \A p \in Pid : /\ P[p].ready => P[p].at \in {"loop", "zombie"}
                   /\ P[p].piped => P[p].kind = "daemon"
                   /\ P[p].piped /\ P[p].at = "loop" => P[p].ready

\* The pid a start waits for is that of its child, which has the pipe.
Children(P) ==
    \A n \in Pid : /\ P[n].at \in {"spawn", "try"} => P[n].kind = "start"
                   /\ P[n].at = "try" \/ (P[n].kind = "start" /\ P[n].at = "poll") => P[n].child \in Pid
                   /\ P[n].child \in Pid => P[P[n].child].piped

\* The start_ticks a stop has read are those of its target, as long as that lives.
Stops(P) ==
    \A n \in Pid : /\ P[n].at \in {"ticks", "kill"} \/ (P[n].kind = "stop" /\ P[n].at = "poll") => P[n].target \in Pid
                   /\ P[n].ticks \in {None, Stale, P[n].target}
                   /\ P[n].ticks \in Pid => P[P[n].ticks].at # "free"

Frees(P) == \A p \in Pid : P[p].at = "free" => P[p] = Free

Good(P) == /\ P \in [Pid -> Process]
           /\ Frees(P) /\ Scans(P) /\ Readiness(P) /\ Children(P) /\ Stops(P)

-----------------------------------------------------------------------------
\* Pids are numbers, and neither None nor Stale is one.
LEMMA Pids == Pid \subseteq Nat \ {0} /\ None \notin Pid /\ Stale \notin Pid /\ MaxPid \in Nat
BY ControlAssumption DEF Pid, None, Stale

LEMMA FreeFields ==
    /\ Free \in Process
    /\ Free.kind = "none" /\ Free.at = "free" /\ Free.listed = {} /\ Free.listed_to = 0
    /\ Free.target = None /\ Free.ticks = None /\ Free.child = None /\ ~Free.piped
    /\ ~Free.ready /\ ~Free.term /\ Free.owed = {}
BY Pids DEF Free, Process, Kind, Place

LEMMA ProcessTypes ==
    ASSUME NEW r \in Process
    PROVE  /\ r.kind \in Kind /\ r.at \in Place /\ r.listed \subseteq Pid
           /\ r.listed_to \in 0 .. MaxPid /\ r.target \in Pid \cup {None}
           /\ r.ticks \in Pid \cup {None, Stale} /\ r.child \in Pid \cup {None}
           /\ r.piped \in BOOLEAN /\ r.ready \in BOOLEAN /\ r.term \in BOOLEAN
           /\ r.owed \subseteq Pid
BY DEF Process

\* What is left of a process that has ended, and of one that others have left.
Corpse(k, b, c) == [Free EXCEPT !.kind = k, !.at = "zombie", !.piped = b, !.ready = c]
Pruned(p, S, t) == [p EXCEPT !.owed = S, !.ticks = t]

LEMMA CorpseFields ==
    ASSUME NEW k \in Kind, NEW b \in BOOLEAN, NEW c \in BOOLEAN
    PROVE  LET r == Corpse(k, b, c) IN
           /\ r \in Process /\ r.kind = k /\ r.at = "zombie" /\ r.piped = b /\ r.ready = c
           /\ r.target = None /\ r.ticks = None /\ r.child = None /\ r.owed = {}
BY FreeFields DEF Process, Place, Corpse

LEMMA PrunedFields ==
    ASSUME NEW p \in Process, NEW S \in SUBSET Pid, NEW t \in Pid \cup {None, Stale}
    PROVE  LET r == Pruned(p, S, t) IN
           /\ r \in Process /\ r.kind = p.kind /\ r.at = p.at /\ r.listed = p.listed
           /\ r.listed_to = p.listed_to /\ r.target = p.target /\ r.child = p.child
           /\ r.piped = p.piped /\ r.ready = p.ready /\ r.owed = S /\ r.ticks = t
           /\ S = p.owed /\ t = p.ticks => r = p
BY DEF Process, Pruned

\* A record that process n may have next, given what the others hold of it.
Fits(P, n, r) ==
    /\ r \in Process
    /\ r.at = "free" => r = Free
    /\ P[n].at # "free" => r.at # "free"
    /\ Running(P, n) => r.at # "zombie" /\ r.kind \in {"start", "daemon"}
    /\ P[n].piped => r.piped
    /\ \A p \in r.owed : Running(P, p) /\ p # n /\ (p \in r.listed \/ p > r.listed_to)
    /\ r.ready => r.at \in {"loop", "zombie"}
    /\ r.piped => r.kind = "daemon"
    /\ r.piped /\ r.at = "loop" => r.ready
    /\ r.at \in {"spawn", "try"} => r.kind = "start"
    /\ r.at = "try" \/ (r.kind = "start" /\ r.at = "poll") => r.child \in Pid
    /\ r.child \in Pid => P[r.child].piped
    /\ r.at \in {"ticks", "kill"} \/ (r.kind = "stop" /\ r.at = "poll") => r.target \in Pid
    /\ r.ticks \in {None, Stale, r.target}
    /\ r.ticks \in Pid => P[r.ticks].at # "free"

\* One process changes: what the others hold of it stays true.
LEMMA OneMoves ==
    ASSUME NEW P, Good(P), NEW n \in Pid, NEW r, Fits(P, n, r)
    PROVE  Good([P EXCEPT ![n] = r])
<1> USE DEF Fits
<1> DEFINE Q == [P EXCEPT ![n] = r]
<1>1. P \in [Pid -> Process] /\ Frees(P) /\ Scans(P) /\ Readiness(P) /\ Children(P) /\ Stops(P)
  BY DEF Good
<1>2. Q \in [Pid -> Process] /\ Q[n] = r /\ \A p \in Pid \ {n} : Q[p] = P[p]
  BY <1>1
<1> HIDE DEF Q
<1>3. \A p \in Pid : /\ Running(P, p) => Running(Q, p)
                     /\ P[p].at # "free" => Q[p].at # "free"
                     /\ P[p].piped => Q[p].piped
  BY <1>2 DEF Running
<1>4. \A p \in Pid : P[p].owed \subseteq Pid /\ Q[p].owed \subseteq Pid
  BY <1>1, <1>2, ProcessTypes
<1>5. Frees(Q)
  BY <1>1, <1>2 DEF Frees
<1>6. Scans(Q)
  BY <1>1, <1>2, <1>3, <1>4 DEF Scans
<1>7. Readiness(Q)
  BY <1>1, <1>2 DEF Readiness
<1>8. Children(Q)
  BY <1>1, <1>2, <1>3 DEF Children
<1>9. Stops(Q)
  BY <1>1, <1>2, <1>3 DEF Stops
<1> QED
  BY <1>2, <1>5, <1>6, <1>7, <1>8, <1>9 DEF Good, Q

\* The processes Settle clears away.
Gone(P, E) == {p \in Pid : /\ p \in E \/ P[p].at = "zombie"
                           /\ \A s \in Pid \ E : P[s].child # p}

\* What Settle makes of a process.
LEMMA SettleFields ==
    ASSUME NEW P \in [Pid -> Process], NEW E \in SUBSET Pid, NEW p \in Pid
    PROVE  LET q == Settle(P, E)[p] IN
           /\ q \in Process
           /\ p \in Gone(P, E) => q = Free
           /\ p \in E \ Gone(P, E) =>
                 /\ q.kind = P[p].kind /\ q.at = "zombie" /\ q.piped = P[p].piped /\ q.ready = P[p].ready
                 /\ q.target = None /\ q.ticks = None /\ q.child = None /\ q.owed = {}
           /\ p \notin E /\ p \notin Gone(P, E) =>
                 /\ q.kind = P[p].kind /\ q.at = P[p].at /\ q.listed = P[p].listed
                 /\ q.listed_to = P[p].listed_to /\ q.target = P[p].target /\ q.child = P[p].child
                 /\ q.piped = P[p].piped /\ q.ready = P[p].ready /\ q.owed = P[p].owed \ E
                 /\ q.ticks = IF P[p].ticks \in Gone(P, E) THEN Stale ELSE P[p].ticks
                 /\ P[p] = Free => q = Free
<1> DEFINE ticks  == IF P[p].ticks \in Gone(P, E) THEN Stale ELSE P[p].ticks
           owed   == P[p].owed \ E
           corpse == Corpse(P[p].kind, P[p].piped, P[p].ready)
           rest   == Pruned(P[p], owed, ticks)
<1>1. Settle(P, E)[p] = IF p \in Gone(P, E) THEN Free ELSE IF p \in E THEN corpse ELSE rest
  <2> DEFINE waited == {x \in Pid : \E s \in Pid \ E : P[s].child = x}
             gone   == {x \in Pid \ waited : x \in E \/ P[x].at = "zombie"}
  <2>1. gone = Gone(P, E)
    BY DEF Gone
  <2> QED
    BY <2>1 DEF Settle, Corpse, Pruned
<1>2. P[p] \in Process /\ P[p].kind \in Kind /\ P[p].piped \in BOOLEAN /\ P[p].ready \in BOOLEAN
  BY ProcessTypes
<1>3. /\ corpse \in Process /\ corpse.kind = P[p].kind /\ corpse.at = "zombie"
      /\ corpse.piped = P[p].piped /\ corpse.ready = P[p].ready
      /\ corpse.target = None /\ corpse.ticks = None /\ corpse.child = None /\ corpse.owed = {}
  BY <1>2, CorpseFields
<1>4. /\ rest \in Process
      /\ rest.kind = P[p].kind /\ rest.at = P[p].at /\ rest.listed = P[p].listed
      /\ rest.listed_to = P[p].listed_to /\ rest.target = P[p].target /\ rest.child = P[p].child
      /\ rest.piped = P[p].piped /\ rest.ready = P[p].ready /\ rest.owed = owed /\ rest.ticks = ticks
      /\ P[p] = Free => rest = Free
  <2>1. ticks \in Pid \cup {None, Stale} /\ owed \in SUBSET Pid
    BY <1>2, ProcessTypes
  <2>2. P[p] = Free => ticks = P[p].ticks /\ owed = P[p].owed
    BY FreeFields, Pids DEF Gone
  <2> HIDE DEF ticks, owed
  <2> QED
    BY <1>2, <2>1, <2>2, PrunedFields
<1> HIDE DEF corpse, rest
<1> QED
  BY <1>1, <1>3, <1>4, FreeFields

\* Processes may end at any time.
LEMMA SettleKeeps ==
    ASSUME NEW P, Good(P), NEW E \in SUBSET Pid
    PROVE  Good(Settle(P, E))
<1> DEFINE Q == Settle(P, E)
           G == Gone(P, E)
<1>1. P \in [Pid -> Process] /\ Frees(P) /\ Scans(P) /\ Readiness(P) /\ Children(P) /\ Stops(P)
  BY DEF Good
<1>2. \A p \in Pid :
           /\ Q[p] \in Process
           /\ p \in G => Q[p] = Free
           /\ p \in E \ G =>
                 /\ Q[p].kind = P[p].kind /\ Q[p].at = "zombie" /\ Q[p].piped = P[p].piped /\ Q[p].ready = P[p].ready
                 /\ Q[p].target = None /\ Q[p].ticks = None /\ Q[p].child = None /\ Q[p].owed = {}
           /\ p \notin E /\ p \notin G =>
                 /\ Q[p].kind = P[p].kind /\ Q[p].at = P[p].at /\ Q[p].listed = P[p].listed
                 /\ Q[p].listed_to = P[p].listed_to /\ Q[p].target = P[p].target /\ Q[p].child = P[p].child
                 /\ Q[p].piped = P[p].piped /\ Q[p].ready = P[p].ready /\ Q[p].owed = P[p].owed \ E
                 /\ Q[p].ticks = IF P[p].ticks \in G THEN Stale ELSE P[p].ticks
                 /\ P[p] = Free => Q[p] = Free
  BY <1>1, SettleFields
<1>3. Q \in [Pid -> Process]
  <2>1. Q = [p \in Pid |-> Q[p]]
    BY DEF Settle
  <2> QED
    BY <1>2, <2>1
<1>4. /\ G \subseteq Pid
      /\ \A p \in Pid : p \in G <=> (p \in E \/ P[p].at = "zombie") /\ \A s \in Pid \ E : P[s].child # p
  BY DEF Gone
<1> HIDE DEF Q, G
<1>5. \A p \in Pid : /\ p \in G => Q[p].at = "free" /\ Q[p].owed = {} /\ Q[p].child = None /\ Q[p].ticks = None
                                   /\ Q[p].kind = "none" /\ ~Q[p].piped /\ ~Q[p].ready
                     /\ P[p].owed \subseteq Pid
  BY <1>1, <1>2, FreeFields, ProcessTypes
<1>6. Frees(Q)
  BY <1>1, <1>2 DEF Frees
<1>7. Scans(Q)
  <2> SUFFICES ASSUME NEW n \in Pid, NEW p \in Q[n].owed
               PROVE  Running(Q, p) /\ p # n /\ (p \in Q[n].listed \/ p > Q[n].listed_to)
    BY DEF Scans
  <2>1. n \notin E /\ n \notin G /\ p \in P[n].owed \ E /\ p \in Pid
    BY <1>2, <1>5
  <2>2. Running(P, p) /\ p # n /\ (p \in P[n].listed \/ p > P[n].listed_to)
    BY <1>1, <2>1 DEF Scans
  <2>3. p \notin G
    BY <1>4, <2>1, <2>2 DEF Running
  <2> QED
    BY <1>2, <2>1, <2>2, <2>3 DEF Running
<1>8. Readiness(Q)
  BY <1>1, <1>2, <1>5 DEF Readiness
<1>9. Children(Q)
  <2> SUFFICES ASSUME NEW n \in Pid
               PROVE  /\ Q[n].at \in {"spawn", "try"} => Q[n].kind = "start"
                      /\ Q[n].at = "try" \/ (Q[n].kind = "start" /\ Q[n].at = "poll") => Q[n].child \in Pid
                      /\ Q[n].child \in Pid => Q[Q[n].child].piped
    BY DEF Children
  <2>1. CASE n \in E \/ n \in G
    BY <1>2, <1>5, <2>1, Pids
  <2>2. CASE n \notin E /\ n \notin G
    <3>1. Q[n].at = P[n].at /\ Q[n].kind = P[n].kind /\ Q[n].child = P[n].child
      BY <1>2, <2>2
    <3>2. ASSUME P[n].child \in Pid PROVE Q[P[n].child].piped
      <4>1. P[P[n].child].piped
        BY <1>1, <3>2 DEF Children
      <4>2. P[n].child \notin G
        BY <1>4, <2>2, <3>2
      <4> QED
        BY <1>2, <3>2, <4>1, <4>2
    <3> QED
      BY <1>1, <3>1, <3>2 DEF Children
  <2> QED
    BY <2>1, <2>2
<1>10. Stops(Q)
  <2> SUFFICES ASSUME NEW n \in Pid
               PROVE  /\ Q[n].at \in {"ticks", "kill"} \/ (Q[n].kind = "stop" /\ Q[n].at = "poll") => Q[n].target \in Pid
                      /\ Q[n].ticks \in {None, Stale, Q[n].target}
                      /\ Q[n].ticks \in Pid => Q[Q[n].ticks].at # "free"
    BY DEF Stops
  <2>1. CASE n \in E \/ n \in G
    BY <1>2, <1>5, <2>1, Pids
  <2>2. CASE n \notin E /\ n \notin G
    <3>1. Q[n].at = P[n].at /\ Q[n].kind = P[n].kind /\ Q[n].target = P[n].target
          /\ Q[n].ticks = IF P[n].ticks \in G THEN Stale ELSE P[n].ticks
      BY <1>2, <2>2
    <3>2. ASSUME Q[n].ticks \in Pid PROVE Q[Q[n].ticks].at # "free"
      <4>1. Q[n].ticks = P[n].ticks /\ P[n].ticks \in Pid \ G /\ P[P[n].ticks].at # "free"
        BY <1>1, <3>1, <3>2, Pids DEF Stops
      <4> QED
        BY <1>2, <4>1
    <3> QED
      BY <1>1, <3>1, <3>2 DEF Stops
  <2> QED
    BY <2>1, <2>2
<1> QED
  BY <1>3, <1>6, <1>7, <1>8, <1>9, <1>10 DEF Good, Q

\* What the invariant says of one process.
LEMMA GoodOne ==
    ASSUME NEW P, Good(P), NEW n \in Pid
    PROVE  Fits(P, n, P[n])
BY DEF Good, Frees, Scans, Readiness, Children, Stops, Fits, Running

\* A process goes to another place, and holds what it held.
LEMMA GotoKeeps ==
    ASSUME NEW P, Good(P), NEW n \in Pid, NEW place \in Place \ {"free", "zombie", "spawn", "try"}, P[n].at # "free",
           P[n].at = "zombie" => P[n].kind \notin {"start", "daemon"},
           ~P[n].ready, P[n].piped => place # "loop",
           P[n].kind = "start" /\ place = "poll" => P[n].child \in Pid,
           place \in {"ticks", "kill"} \/ (P[n].kind = "stop" /\ place = "poll") => P[n].target \in Pid
    PROVE  Good([P EXCEPT ![n].at = place])
<1> DEFINE r == [P[n] EXCEPT !.at = place]
<1>1. P[n] \in Process /\ Fits(P, n, P[n])
  BY GoodOne DEF Good
<1>2. /\ r \in Process /\ r.at = place /\ r.kind = P[n].kind /\ r.listed = P[n].listed
      /\ r.listed_to = P[n].listed_to /\ r.target = P[n].target /\ r.ticks = P[n].ticks
      /\ r.child = P[n].child /\ r.piped = P[n].piped /\ r.ready = P[n].ready /\ r.owed = P[n].owed
  BY <1>1 DEF Process
<1>3. [P EXCEPT ![n].at = place] = [P EXCEPT ![n] = r]
  OBVIOUS
<1> HIDE DEF r
<1>4. Fits(P, n, r)
  BY <1>1, <1>2 DEF Fits
<1> QED
  BY <1>3, <1>4, OneMoves

-----------------------------------------------------------------------------
(* The steps.                                                               *)

IInv == Good(proc)

LEMMA ExitKeeps == ASSUME IInv, NEW p \in Pid, Exit(p) PROVE IInv'
<1>1. Good(Settle(proc, {p}))
  BY SettleKeeps DEF IInv
<1> QED
  BY <1>1 DEF IInv, Exit

LEMMA LaunchKeeps == ASSUME IInv, NEW p \in Pid, Launch(p) PROVE IInv'
<1>1. PICK k \in {"start", "daemon", "client"} :
          proc' = [proc EXCEPT ![p].kind = k, ![p].at = IF k = "client" THEN "scan" ELSE "load"]
  BY DEF Launch
<1> DEFINE at == IF k = "client" THEN "scan" ELSE "load"
           r  == [Free EXCEPT !.kind = k, !.at = at]
<1>2. at \in {"scan", "load"} /\ k \in Kind
  BY DEF Kind
<1>3. proc[p] = Free /\ proc \in [Pid -> Process]
  BY DEF Launch, IInv, Good
<1>4. proc' = [proc EXCEPT ![p] = r]
  BY <1>1, <1>3
<1> HIDE DEF at
<1>5. /\ r \in Process /\ r.kind = k /\ r.at = at /\ r.listed = {} /\ r.listed_to = 0 /\ r.target = None
      /\ r.ticks = None /\ r.child = None /\ ~r.piped /\ ~r.ready /\ r.owed = {}
  BY <1>2, FreeFields DEF Process, Place
<1> HIDE DEF r
<1>6. Fits(proc, p, r)
  BY <1>2, <1>3, <1>5, FreeFields, Pids DEF Fits, Running
<1> QED
  BY <1>4, <1>6, OneMoves DEF IInv

\* A daemon comes up.
LEMMA DaemonKeeps ==
    ASSUME IInv, NEW p \in Pid, setup_signalfd(p) \/ notify_ready_fd(p)
    PROVE  IInv'
<1>1. proc[p] \in Process /\ Fits(proc, p, proc[p])
  BY GoodOne DEF IInv, Good
<1>2. ~proc[p].ready /\ proc[p].at \in {"load", "masked"}
  BY <1>1 DEF setup_signalfd, notify_ready_fd, Fits
<1>3. CASE \/ setup_signalfd(p)
           \/ ~proc[p].piped /\ Goto(p, "loop")
  <2>1. CASE setup_signalfd(p)
    <3>1. Good([proc EXCEPT ![p].at = "masked"])
      BY <1>2, <2>1, GotoKeeps DEF IInv, Place, setup_signalfd
    <3> QED
      BY <2>1, <3>1 DEF setup_signalfd, Goto, IInv
  <2>2. CASE ~proc[p].piped /\ Goto(p, "loop")
    <3>1. Good([proc EXCEPT ![p].at = "loop"])
      BY <1>2, <2>2, GotoKeeps DEF IInv, Place
    <3> QED
      BY <2>2, <3>1 DEF Goto, IInv
  <2> QED
    BY <1>3, <2>1, <2>2
<1>4. CASE proc' = [proc EXCEPT ![p].at = "loop", ![p].ready = TRUE]
  <2> DEFINE r == [proc[p] EXCEPT !.at = "loop", !.ready = TRUE]
  <2>1. proc' = [proc EXCEPT ![p] = r]
    BY <1>4 DEF IInv, Good
  <2>2. /\ r \in Process /\ r.at = "loop" /\ r.kind = proc[p].kind /\ r.listed = proc[p].listed
        /\ r.listed_to = proc[p].listed_to /\ r.target = proc[p].target /\ r.ticks = proc[p].ticks
        /\ r.child = proc[p].child /\ r.piped = proc[p].piped /\ r.ready = TRUE /\ r.owed = proc[p].owed
    BY <1>1 DEF Process, Place
  <2> HIDE DEF r
  <2>3. Fits(proc, p, r)
    BY <1>1, <1>2, <2>2 DEF Fits
  <2> QED
    BY <2>1, <2>3, OneMoves DEF IInv
<1> QED
  BY <1>3, <1>4, ExitKeeps DEF notify_ready_fd

LEMMA MatchesRunning == ASSUME NEW p PROVE Matches(p) <=> Running(proc, p)
BY DEF Matches, Ended, Running

\* Who matched when the scan began is listed by it, in this stretch or a later one.
LEMMA ReadDirKeeps == ASSUME IInv, NEW n \in Pid, read_dir(n) PROVE IInv'
<1>1. proc \in [Pid -> Process] /\ proc[n] \in Process /\ Fits(proc, n, proc[n])
  BY GoodOne DEF IInv, Good
<1>2. PICK upto \in proc[n].listed_to + 1 .. MaxPid :
          proc' = [proc EXCEPT ![n].listed = Others(n, upto), ![n].listed_to = upto,
                               ![n].owed = IF proc[n].listed_to > 0 THEN @
                                           ELSE {p \in Pid \ {n} : Matches(p)}]
  BY DEF read_dir
<1> DEFINE owed   == IF proc[n].listed_to > 0 THEN proc[n].owed ELSE {p \in Pid \ {n} : Matches(p)}
           listed == Others(n, upto)
           r      == [proc[n] EXCEPT !.listed = listed, !.listed_to = upto, !.owed = owed]
<1>3. proc' = [proc EXCEPT ![n] = r]
  BY <1>1, <1>2
<1>4. proc[n].listed_to \in 0 .. MaxPid /\ proc[n].owed \subseteq Pid /\ proc[n].at = "scan" /\ proc[n].listed = {}
  BY <1>1, ProcessTypes DEF read_dir
<1>5. owed \in SUBSET Pid /\ listed \in SUBSET Pid /\ upto \in 0 .. MaxPid
  BY <1>4, Pids DEF Others
<1>6. ASSUME NEW p \in owed PROVE Running(proc, p) /\ p # n /\ (p \in listed \/ p > upto)
  <2>1. Running(proc, p) /\ p # n /\ p > proc[n].listed_to
    <3>1. CASE proc[n].listed_to > 0
      BY <1>1, <1>4, <1>6, <3>1 DEF Fits
    <3>2. CASE ~(proc[n].listed_to > 0)
      <4>1. p \in Pid \ {n} /\ Matches(p)
        BY <1>6, <3>2
      <4>2. proc[n].listed_to = 0
        BY <1>4, <3>2, Pids
      <4> QED
        BY <4>1, <4>2, Pids, MatchesRunning
    <3> QED
      BY <3>1, <3>2
  <2>2. p \in Pid /\ proc[p] # Free
    BY <1>5, <1>6, <2>1, FreeFields DEF Running
  <2>3. p \in listed <=> p # n /\ proc[n].listed_to < p /\ p <= upto
    BY <2>2 DEF Others
  <2>4. p \in Nat /\ upto \in Nat /\ proc[n].listed_to \in Nat
    BY <1>4, <1>5, <2>2, Pids
  <2> QED
    BY <2>1, <2>3, <2>4
<1> HIDE DEF owed, listed
<1>7. /\ r \in Process /\ r.at = proc[n].at /\ r.kind = proc[n].kind /\ r.listed = listed
      /\ r.listed_to = upto /\ r.target = proc[n].target /\ r.ticks = proc[n].ticks
      /\ r.child = proc[n].child /\ r.piped = proc[n].piped /\ r.ready = proc[n].ready /\ r.owed = owed
  BY <1>1, <1>5 DEF Process
<1> HIDE DEF r
<1>8. Fits(proc, n, r)
  BY <1>1, <1>4, <1>6, <1>7 DEF Fits
<1> QED
  BY <1>3, <1>8, OneMoves DEF IInv

\* A process that does not match is crossed off; it was owed to nobody.
LEMMA CmdlineKeeps == ASSUME IInv, NEW n \in Pid, read_cmdline(n) PROVE IInv'
<1>1. proc \in [Pid -> Process] /\ proc[n] \in Process /\ Fits(proc, n, proc[n])
  BY GoodOne DEF IInv, Good
<1> PICK p \in proc[n].listed :
       \/ ~Matches(p) /\ proc' = [proc EXCEPT ![n].listed = @ \ {p}]
       \/ Exit(n)
       \/ /\ proc[n].kind = "client"
          /\ \E k \in {"stop", "resync"} :
                proc' = [proc EXCEPT ![n] = [Free EXCEPT !.kind = k, !.at = "ticks", !.target = p]]
  BY Zenon DEF read_cmdline
<1>2. proc[n].at = "scan" /\ proc[n].listed \in SUBSET Pid /\ p \in Pid
  BY <1>1, ProcessTypes DEF read_cmdline
<1>3. CASE ~Matches(p) /\ proc' = [proc EXCEPT ![n].listed = @ \ {p}]
  <2> DEFINE listed == proc[n].listed \ {p}
             r      == [proc[n] EXCEPT !.listed = listed]
  <2>1. proc' = [proc EXCEPT ![n] = r]
    BY <1>1, <1>3
  <2>2. listed \in SUBSET Pid
    BY <1>2
  <2>3. \A q \in proc[n].owed : q \in proc[n].listed => q \in listed
    BY <1>1, <1>3, MatchesRunning DEF Fits
  <2> HIDE DEF listed
  <2>4. /\ r \in Process /\ r.at = proc[n].at /\ r.kind = proc[n].kind /\ r.listed = listed
        /\ r.listed_to = proc[n].listed_to /\ r.target = proc[n].target /\ r.ticks = proc[n].ticks
        /\ r.child = proc[n].child /\ r.piped = proc[n].piped /\ r.ready = proc[n].ready /\ r.owed = proc[n].owed
    BY <1>1, <2>2 DEF Process
  <2> HIDE DEF r
  <2>5. Fits(proc, n, r)
    BY <1>1, <1>2, <2>3, <2>4 DEF Fits
  <2> QED
    BY <2>1, <2>5, OneMoves DEF IInv
<1>4. CASE /\ proc[n].kind = "client"
           /\ \E k \in {"stop", "resync"} :
                 proc' = [proc EXCEPT ![n] = [Free EXCEPT !.kind = k, !.at = "ticks", !.target = p]]
  <2>1. PICK k \in {"stop", "resync"} :
            proc' = [proc EXCEPT ![n] = [Free EXCEPT !.kind = k, !.at = "ticks", !.target = p]]
    BY <1>4
  <2> DEFINE r == [Free EXCEPT !.kind = k, !.at = "ticks", !.target = p]
  <2>2. /\ r \in Process /\ r.kind = k /\ r.at = "ticks" /\ r.listed = {} /\ r.listed_to = 0 /\ r.target = p
        /\ r.ticks = None /\ r.child = None /\ ~r.piped /\ ~r.ready /\ r.owed = {}
    BY <1>2, FreeFields DEF Process, Place, Kind
  <2> HIDE DEF r
  <2>3. Fits(proc, n, r)
    BY <1>1, <1>2, <1>4, <2>2, Pids DEF Fits, Running
  <2> QED
    BY <2>1, <2>3, OneMoves DEF IInv, r
<1> QED
  BY <1>3, <1>4, ExitKeeps

LEMMA FindKeeps == ASSUME IInv, NEW n \in Pid, find(n) PROVE IInv'
<1>1. proc \in [Pid -> Process] /\ proc[n] \in Process /\ Fits(proc, n, proc[n])
  BY GoodOne DEF IInv, Good
<1>2. CASE begin_find(n)
  <2>1. proc[n].at = "load" /\ proc[n].kind = "start" /\ ~proc[n].ready /\ ~proc[n].piped
    BY <1>1, <1>2 DEF begin_find, Fits
  <2>2. Good([proc EXCEPT ![n].at = "scan"])
    BY <2>1, GotoKeeps DEF IInv, Place
  <2> QED
    BY <1>2, <2>2 DEF begin_find, Goto, IInv
<1>3. CASE finds_nobody(n)
  <2> DEFINE r == [Free EXCEPT !.kind = "start", !.at = "spawn"]
  <2>1. CASE proc[n].kind = "start" /\ proc[n].at = "scan" /\ proc' = [proc EXCEPT ![n] = r]
    <3>1. /\ r \in Process /\ r.kind = "start" /\ r.at = "spawn" /\ r.listed = {} /\ r.listed_to = 0
          /\ r.target = None /\ r.ticks = None /\ r.child = None /\ ~r.piped /\ ~r.ready /\ r.owed = {}
      BY FreeFields DEF Process, Place, Kind
    <3> HIDE DEF r
    <3>2. Fits(proc, n, r)
      BY <1>1, <2>1, <3>1, Pids DEF Fits, Running
    <3> QED
      BY <2>1, <3>2, OneMoves DEF IInv
  <2> QED
    BY <1>3, <2>1, ExitKeeps DEF finds_nobody
<1> QED
  BY <1>2, <1>3, ReadDirKeeps, CmdlineKeeps DEF find

LEMMA TicksKeep == ASSUME IInv, NEW n \in Pid, process_start_ticks(n) PROVE IInv'
<1>1. proc \in [Pid -> Process] /\ proc[n] \in Process /\ Fits(proc, n, proc[n])
  BY GoodOne DEF IInv, Good
<1> DEFINE p     == proc[n].target
           ticks == IF proc[p] = Free THEN None ELSE p
           r     == [proc[n] EXCEPT !.at = "kill", !.ticks = ticks]
<1>2. proc[n].at = "ticks" /\ p \in Pid /\ ~proc[n].ready
  BY <1>1 DEF process_start_ticks, Fits
<1>3. proc' = [proc EXCEPT ![n] = r]
  BY <1>1 DEF process_start_ticks
<1>4. ticks \in {None, p} /\ (ticks \in Pid => proc[ticks].at # "free")
  BY <1>2, Pids DEF IInv, Good, Frees
<1> HIDE DEF ticks
<1>5. /\ r \in Process /\ r.at = "kill" /\ r.kind = proc[n].kind /\ r.listed = proc[n].listed
      /\ r.listed_to = proc[n].listed_to /\ r.target = p /\ r.ticks = ticks
      /\ r.child = proc[n].child /\ r.piped = proc[n].piped /\ r.ready = proc[n].ready /\ r.owed = proc[n].owed
  BY <1>1, <1>2, <1>4 DEF Process, Place
<1> HIDE DEF r
<1>6. Fits(proc, n, r)
  BY <1>1, <1>2, <1>4, <1>5 DEF Fits
<1> QED
  BY <1>3, <1>6, OneMoves DEF IInv

\* A pending SIGTERM is nothing the others rely on.
LEMMA TermKeeps ==
    ASSUME NEW P, Good(P), NEW p \in Pid, P[p].at # "free", NEW b \in BOOLEAN
    PROVE  Good([P EXCEPT ![p].term = b])
<1> DEFINE r == [P[p] EXCEPT !.term = b]
<1>1. P[p] \in Process /\ Fits(P, p, P[p])
  BY GoodOne DEF Good
<1>2. /\ r \in Process /\ r.at = P[p].at /\ r.kind = P[p].kind /\ r.listed = P[p].listed
      /\ r.listed_to = P[p].listed_to /\ r.target = P[p].target /\ r.ticks = P[p].ticks
      /\ r.child = P[p].child /\ r.piped = P[p].piped /\ r.ready = P[p].ready /\ r.owed = P[p].owed
  BY <1>1 DEF Process
<1>3. [P EXCEPT ![p].term = b] = [P EXCEPT ![p] = r]
  OBVIOUS
<1> HIDE DEF r
<1>4. Fits(P, p, r)
  BY <1>1, <1>2 DEF Fits
<1> QED
  BY <1>3, <1>4, OneMoves

LEMMA SignalKeeps == ASSUME IInv, NEW n \in Pid, send_signal(n) PROVE IInv'
<1> DEFINE p     == proc[n].target
           dying == IF Ended(p) \/ SignalsBlocked(p) THEN {} ELSE {p}
<1>1. proc \in [Pid -> Process] /\ proc[n] \in Process /\ Fits(proc, n, proc[n])
  BY GoodOne DEF IInv, Good
<1>2. proc[n].at = "kill" /\ p \in Pid /\ ~proc[n].ready
  BY <1>1 DEF send_signal, Fits
<1>3. dying \in SUBSET Pid /\ dying \cup {n} \in SUBSET Pid
  BY <1>2
<1>4. \/ Exit(n)
      \/ /\ proc[p] # Free /\ proc[n].kind = "stop"
         /\ proc' = Settle([proc EXCEPT ![n].at = "poll", ![p].term = SignalsBlocked(p)], dying)
      \/ proc' = Settle(proc, dying \cup {n})
  BY DEF send_signal
<1> HIDE DEF dying, p
<1>5. CASE /\ proc[p] # Free /\ proc[n].kind = "stop"
           /\ proc' = Settle([proc EXCEPT ![n].at = "poll", ![p].term = SignalsBlocked(p)], dying)
  <2> DEFINE P == [proc EXCEPT ![n].at = "poll"]
             Q == [P EXCEPT ![p].term = SignalsBlocked(p)]
  <2>1. Good(P)
    BY <1>2, <1>5, GotoKeeps DEF IInv, Place, p
  <2>2. P[p].at # "free"
    BY <1>1, <1>2, <1>5 DEF IInv, Good, Frees, Process
  <2>3. SignalsBlocked(p) \in BOOLEAN
    BY DEF SignalsBlocked
  <2> HIDE DEF P
  <2>4. Good(Q)
    BY <1>2, <2>1, <2>2, <2>3, TermKeeps
  <2>5. proc' = Settle(Q, dying)
    BY <1>5 DEF P
  <2> HIDE DEF Q
  <2> QED
    BY <1>3, <2>4, <2>5, SettleKeeps DEF IInv
<1>6. CASE proc' = Settle(proc, dying \cup {n})
  BY <1>3, <1>6, SettleKeeps DEF IInv
<1> QED
  BY <1>4, <1>5, <1>6, ExitKeeps

LEMMA SpawnKeeps == ASSUME IInv, NEW n \in Pid, spawn(n) PROVE IInv'
<1>1. proc \in [Pid -> Process] /\ proc[n] \in Process /\ Fits(proc, n, proc[n])
  BY GoodOne DEF IInv, Good
<1>2. ASSUME NEW p \in Pid, proc[p] = Free,
             proc' = [proc EXCEPT ![p].kind = "daemon", ![p].at = "load", ![p].piped = TRUE,
                                  ![n].at = "try", ![n].child = p]
      PROVE  IInv'
  <2> DEFINE c == [Free EXCEPT !.kind = "daemon", !.at = "load", !.piped = TRUE]
             P == [proc EXCEPT ![p] = c]
             r == [P[n] EXCEPT !.at = "try", !.child = p]
  <2>1. proc[n].at = "spawn" /\ p # n
    BY <1>2, FreeFields DEF spawn
  <2>2. /\ c \in Process /\ c.kind = "daemon" /\ c.at = "load" /\ c.listed = {} /\ c.listed_to = 0
        /\ c.target = None /\ c.ticks = None /\ c.child = None /\ c.piped /\ ~c.ready /\ c.owed = {}
    BY FreeFields DEF Process, Place, Kind
  <2>3. proc' = [P EXCEPT ![n] = r]
    BY <1>1, <1>2, <2>1
  <2> HIDE DEF c
  <2>4. Fits(proc, p, c)
    BY <1>2, <2>2, FreeFields, Pids DEF Fits, Running
  <2>5. Good(P)
    BY <2>4, OneMoves DEF IInv
  <2>6. P[n] = proc[n] /\ P[p] = c
    BY <1>1, <2>1
  <2> HIDE DEF P
  <2>7. P[n] \in Process /\ Fits(P, n, P[n])
    BY <2>5, GoodOne DEF Good
  <2>8. /\ r \in Process /\ r.at = "try" /\ r.kind = P[n].kind /\ r.listed = P[n].listed
        /\ r.listed_to = P[n].listed_to /\ r.target = P[n].target /\ r.ticks = P[n].ticks
        /\ r.child = p /\ r.piped = P[n].piped /\ r.ready = P[n].ready /\ r.owed = P[n].owed
    BY <2>7 DEF Process, Place
  <2> HIDE DEF r
  <2>9. Fits(P, n, r)
    BY <2>1, <2>2, <2>6, <2>7, <2>8 DEF Fits
  <2> QED
    BY <2>3, <2>5, <2>9, OneMoves DEF IInv
<1> QED
  BY <1>2, ExitKeeps DEF spawn

LEMMA TryWaitKeeps == ASSUME IInv, NEW n \in Pid, try_wait(n) PROVE IInv'
<1>1. proc[n] \in Process /\ Fits(proc, n, proc[n])
  BY GoodOne DEF IInv, Good
<1>2. proc[n].at = "try" /\ proc[n].child \in Pid /\ ~proc[n].ready
  BY <1>1 DEF try_wait, Fits
<1>3. CASE Goto(n, "poll")
  <2>1. proc[n].kind # "stop"
    BY <1>1, <1>2 DEF Fits
  <2>2. Good([proc EXCEPT ![n].at = "poll"])
    BY <1>2, <2>1, GotoKeeps DEF IInv, Place
  <2> QED
    BY <1>3, <2>2 DEF Goto, IInv
<1> QED
  BY <1>3, ExitKeeps DEF try_wait

LEMMA ControlStep == IInv /\ [Next]_vars => IInv'
<1> SUFFICES ASSUME IInv, [Next]_vars PROVE IInv'
  OBVIOUS
<1>1. CASE UNCHANGED vars
  BY <1>1 DEF vars, IInv
<1>2. ASSUME NEW n \in Pid, Fails(n) \/ loop_exits(n) PROVE IInv'
  BY <1>2, ExitKeeps DEF Fails, loop_exits
<1>3. ASSUME NEW n \in Pid, Step(n) PROVE IInv'
  <2>1. CASE stop_succeeds(n) \/ stop_timeout(n) \/ start_succeeds(n) \/ start_eof(n) \/ start_timeout(n)
    BY <2>1, ExitKeeps DEF stop_succeeds, stop_timeout, start_succeeds, start_eof, start_timeout
  <2> QED
    BY <1>3, <2>1, FindKeeps, TicksKeep, SignalKeeps, SpawnKeeps, TryWaitKeeps, DaemonKeeps DEF Step
<1> QED
  BY <1>1, <1>2, <1>3, LaunchKeeps DEF Next

LEMMA ControlInit == Init => IInv
<1> SUFFICES ASSUME Init PROVE Good(proc)
  BY DEF IInv
<1>1. proc \in [Pid -> Process] /\ \A p \in Pid : proc[p] = Free
  BY FreeFields DEF Init
<1> QED
  BY <1>1, FreeFields, Pids DEF Good, Frees, Scans, Readiness, Children, Stops

LEMMA ControlHolds == Spec => []IInv
BY ControlInit, ControlStep, PTL DEF Spec

-----------------------------------------------------------------------------
(* What the commands report.                                                *)

\* However many processes come and go while /proc is read, a scan that finds nobody
\* has missed nobody who was there all the time (find_running_daemon_normalized).
THEOREM SteadyHolds == Spec => SteadyDaemonIsFound
<1>1. ASSUME IInv, NEW n \in Pid, finds_nobody(n) PROVE proc[n].owed = {}
  <2>1. proc[n] \in Process /\ Fits(proc, n, proc[n])
    BY <1>1, GoodOne DEF IInv, Good
  <2>2. proc[n].listed = {} /\ proc[n].listed_to = MaxPid /\ proc[n].owed \subseteq Pid
    BY <1>1, <2>1, ProcessTypes DEF finds_nobody
  <2>3. \A p \in proc[n].owed : p > MaxPid
    BY <2>1, <2>2 DEF Fits
  <2>4. \A p \in Pid : ~(p > MaxPid)
    BY Pids DEF Pid
  <2> QED
    BY <2>2, <2>3, <2>4
<1>2. IInv /\ [Next]_vars => [\A n \in Pid : finds_nobody(n) => proc[n].owed = {}]_vars
  BY <1>1
<1> QED
  BY <1>2, ControlHolds, PTL DEF Spec, SteadyDaemonIsFound

\* A start that reports success has a daemon that was ready, one that reports a closed
\* pipe has none (wait_child_ready_signal, notify_ready_fd).
THEOREM StartHolds == Spec => StartReportsTruth
<1>1. ASSUME IInv, NEW n \in Pid, StartWaits(n)
      PROVE  LET d == proc[n].child
             IN /\ ReadyByte(n) => proc[d].at = "loop" \/ (proc[d].at = "zombie" /\ proc[d].ready)
                /\ ~ReadyByte(n) /\ PipeClosed(n) => Ended(d)
  <2> DEFINE d == proc[n].child
  <2>1. d \in Pid /\ proc[d].piped
    BY <1>1 DEF IInv, Good, Children, StartWaits
  <2>2. (proc[d].ready => proc[d].at \in {"loop", "zombie"}) /\ (proc[d].at = "loop" => proc[d].ready)
    BY <1>1, <2>1 DEF IInv, Good, Readiness
  <2> QED
    BY <2>1, <2>2 DEF ReadyByte, PipeClosed, Ended
<1> DEFINE A == \A n \in Pid :
          LET d == proc[n].child
          IN /\ start_succeeds(n) => \/ proc[d].at = "loop"
                                     \/ proc[d].at = "zombie" /\ proc[d].ready
             /\ start_eof(n) => Ended(d)
<1>2. IInv => A
  BY <1>1 DEF start_succeeds, start_eof
<1>3. IInv /\ [Next]_vars => [A]_vars
  BY <1>2
<1> QED
  BY <1>3, ControlHolds, PTL DEF Spec, StartReportsTruth

\* After "stopped" the process whose start_ticks were read has gone, however often its
\* pid has been used again (stop_background, is_same_process_alive).
THEOREM StopReportHolds == Spec => StopReportsTruth
<1>1. ASSUME IInv, NEW n \in Pid, stop_succeeds(n) PROVE proc[n].ticks \in {None, Stale}
  <2>1. /\ proc[n].target \in Pid /\ proc[n].ticks \in {None, Stale, proc[n].target}
        /\ proc[n].ticks \in Pid => proc[proc[n].ticks].at # "free"
    BY <1>1 DEF IInv, Good, Stops, stop_succeeds, StopWaits
  <2> QED
    BY <1>1, <2>1, FreeFields DEF stop_succeeds, is_same_process_alive
<1>2. IInv /\ [Next]_vars => [\A n \in Pid : stop_succeeds(n) => proc[n].ticks \in {None, Stale}]_vars
  BY <1>1
<1> QED
  BY <1>2, ControlHolds, PTL DEF Spec, StopReportsTruth

\* A daemon that has said it is ready does not die of a stop or a resync
\* (setup_signalfd comes before notify_ready_fd).
THEOREM ReadyHolds == Spec => ReadyDaemonIsNotKilled
<1>1. ASSUME IInv, NEW n \in Pid, NEW p \in Pid, send_signal(n), proc[p].ready, ~Ended(p)
      PROVE  proc'[p].at = proc[p].at
  <2> DEFINE t     == proc[n].target
             dying == IF Ended(t) \/ SignalsBlocked(t) THEN {} ELSE {t}
  <2>1. proc \in [Pid -> Process] /\ t \in Pid /\ proc[n].at = "kill"
    BY <1>1 DEF IInv, Good, Stops, send_signal
  <2>2. proc[p].at = "loop" /\ p # n
    BY <1>1, <2>1 DEF IInv, Good, Readiness, Ended
  <2>3. dying \in SUBSET Pid /\ {n} \in SUBSET Pid /\ p \notin dying \cup {n}
    BY <2>1, <2>2 DEF SignalsBlocked
  <2> HIDE DEF dying
  <2>4. ASSUME NEW P \in [Pid -> Process], P[p].at = "loop", NEW E \in SUBSET Pid, p \notin E
        PROVE  Settle(P, E)[p].at = "loop"
    <3>1. p \notin Gone(P, E)
      BY <2>4 DEF Gone
    <3> QED
      BY <2>4, <3>1, SettleFields
  <2>5. CASE Exit(n)
    BY <2>1, <2>2, <2>3, <2>4, <2>5 DEF Exit
  <2>6. CASE proc' = Settle(proc, dying \cup {n})
    BY <2>1, <2>2, <2>3, <2>4, <2>6
  <2>7. CASE proc' = Settle([proc EXCEPT ![n].at = "poll", ![t].term = SignalsBlocked(t)], dying)
    <3> DEFINE P == [proc EXCEPT ![n].at = "poll", ![t].term = SignalsBlocked(t)]
    <3>1. P \in [Pid -> Process]
      <4> DEFINE r == [proc[n] EXCEPT !.at = "poll"]
                 Q == [proc EXCEPT ![n].at = "poll"]
                 q == [Q[t] EXCEPT !.term = SignalsBlocked(t)]
      <4>1. r \in Process
        BY <2>1 DEF Process, Place
      <4>2. Q \in [Pid -> Process]
        BY <2>1, <4>1
      <4>3. P = [Q EXCEPT ![t] = q]
        OBVIOUS
      <4> HIDE DEF Q
      <4>4. q \in Process
        <5>1. ASSUME NEW x \in Process, NEW b \in BOOLEAN PROVE [x EXCEPT !.term = b] \in Process
          BY DEF Process
        <5>2. Q[t] \in Process /\ SignalsBlocked(t) \in BOOLEAN
          BY <2>1, <4>2 DEF SignalsBlocked
        <5> QED
          BY <5>1, <5>2
      <4> QED
        BY <2>1, <4>2, <4>3, <4>4
    <3>2. P[p].at = "loop"
      BY <2>1, <2>2 DEF Process
    <3> HIDE DEF P
    <3>3. proc' = Settle(P, dying)
      BY <2>7 DEF P
    <3> QED
      BY <2>2, <2>3, <2>4, <3>1, <3>2, <3>3
  <2> QED
    BY <1>1, <2>5, <2>6, <2>7 DEF send_signal, dying
<1>2. IInv /\ [Next]_vars =>
          [\A n, p \in Pid : send_signal(n) /\ proc[p].ready /\ ~Ended(p) => proc'[p].at = proc[p].at]_vars
  BY <1>1
<1> QED
  BY <1>2, ControlHolds, PTL DEF Spec, ReadyDaemonIsNotKilled

-----------------------------------------------------------------------------
(* The debounce window.                                                     *)

\* Deadlines and histories tell the same time; the timer is armed for the earliest
\* deadline; once the loop has run, an overdue window waits for a batch; and that
\* batch ends in time.
DeadlinesAreTrue ==
    pending # {} =>
        /\ max_deadline > 0 => open_for + max_deadline = DebounceMax
        /\ max_deadline = 0 => open_for >= DebounceMax
        /\ quiet_deadline > 0 => quiet_for + quiet_deadline = DebounceTime
        /\ quiet_deadline = 0 => quiet_for >= DebounceTime

TimerIsArmed ==
    phase = "wait" => /\ timer = min_deadline(quiet_deadline, max_deadline, ack_deadline)
                      /\ ran /\ max_deadline = 0 => Busy

WaitsForOneBatch ==
    pending # {} =>
        /\ max_deadline = 0 => open_for + ack_deadline <= DebounceMax + AckTimeout - 1
        /\ open_for <= DebounceMax + AckTimeout - 1

WindowInv == DebounceTypeOK /\ DeadlinesAreTrue /\ TimerIsArmed /\ WaitsForOneBatch

-----------------------------------------------------------------------------
\* The earliest of the deadlines is due when the upper bound is.
LEMMA DueTimer ==
    ASSUME NEW q \in Nat, NEW a \in Nat \cup {-1}
    PROVE  min_deadline(q, 0, a) = 0
  BY DEF min_deadline, NoDeadline

\* The earliest deadline is one of the three.
LEMMA TimerType ==
    ASSUME NEW q \in Nat \cup {-1}, NEW m \in Nat \cup {-1}, NEW a \in Nat \cup {-1}
    PROVE  min_deadline(q, m, a) \in Nat \cup {-1}
  BY DEF min_deadline, NoDeadline

\* Time brings the earliest deadline nearer by as much as the others.
LEMMA LaterTimer ==
    ASSUME NEW q \in Nat \cup {-1}, NEW m \in Nat \cup {-1}, NEW a \in Nat \cup {-1}
    PROVE  Later(min_deadline(q, m, a)) = min_deadline(Later(q), Later(m), Later(a))
  BY DEF min_deadline, Later, NoDeadline

\* No window is open at the start.
LEMMA WindowInit == DebounceInit => WindowInv
  <1> USE DebounceAssumption
  <1> SUFFICES ASSUME DebounceInit PROVE WindowInv
    OBVIOUS
  <1>1. DebounceTypeOK
    <2>1. -1 \in -1 .. DebounceTime /\ -1 \in -1 .. DebounceMax /\ -1 \in -1 .. AckTimeout
      OBVIOUS
    <2>2. 0 \in Nat /\ -1 \in Nat \cup {-1}
      OBVIOUS
    <2> QED
      BY <2>1, <2>2, Zenon DEF DebounceInit, DebounceTypeOK, NoDeadline
  <1> QED
    BY <1>1 DEF DebounceInit, WindowInv, DeadlinesAreTrue, TimerIsArmed, WaitsForOneBatch,
                min_deadline, NoDeadline

\* Time passes: an overdue window is waiting for a batch, whose own time runs out.
LEMMA TickStep == WindowInv /\ Tick => WindowInv'
  <1> USE DebounceAssumption
  <1> SUFFICES ASSUME WindowInv, Tick PROVE WindowInv'
    OBVIOUS
  <1> USE DEF WindowInv
  <1>1. DebounceTypeOK'
    <2>1. /\ phase' \in {"wait", "events"} /\ pending' \subseteq Key
          /\ shutdown_requested' \in BOOLEAN /\ ran' \in BOOLEAN
      BY Zenon DEF DebounceTypeOK, Tick
    <2>2. /\ quiet_deadline' \in -1 .. DebounceTime /\ max_deadline' \in -1 .. DebounceMax
          /\ ack_deadline' \in -1 .. AckTimeout /\ timer' \in Nat \cup {-1}
          /\ open_for' \in Nat /\ quiet_for' \in Nat
          /\ quiet_deadline' = NoDeadline <=> pending' = {}
          /\ max_deadline' = NoDeadline <=> pending' = {}
      BY DEF DebounceTypeOK, Tick, Later, NoDeadline
    <2> QED
      BY <2>1, <2>2, Zenon DEF DebounceTypeOK, NoDeadline
  <1>2. DeadlinesAreTrue'
    BY DEF DebounceTypeOK, DeadlinesAreTrue, Tick, Later, NoDeadline
  <1>3. TimerIsArmed'
    BY LaterTimer DEF DebounceTypeOK, TimerIsArmed, Tick
  <1>4. ASSUME pending # {}, max_deadline = 0 PROVE ack_deadline > 0
    <2>1. timer = 0
      BY <1>4, DueTimer DEF DebounceTypeOK, TimerIsArmed, Tick, NoDeadline
    <2> QED
      BY <1>4, <2>1 DEF TimerIsArmed, Tick, Busy
  <1>5. WaitsForOneBatch'
    BY <1>4 DEF DebounceTypeOK, DeadlinesAreTrue, WaitsForOneBatch, Tick, Later, NoDeadline
  <1> QED
    BY <1>1, <1>2, <1>3, <1>5

\* Events open a window or push out its quiet end, never its upper bound.
LEMMA HandlerStep ==
    WindowInv /\ (handle_route_events \/ drain_rule_acks_once \/ handle_signals \/ flush_timerfd)
        => WindowInv'
  <1> USE DebounceAssumption
  <1> SUFFICES ASSUME WindowInv,
                      handle_route_events \/ drain_rule_acks_once \/ handle_signals \/ flush_timerfd
               PROVE  WindowInv'
    OBVIOUS
  <1> USE DEF WindowInv
  <1>1. TimerIsArmed'
    BY DEF TimerIsArmed, handle_route_events, drain_rule_acks_once, handle_signals, flush_timerfd
  <1>2. CASE handle_route_events
    <2>1. PICK keys \in (SUBSET Key) \ {{}} : pending' = pending \cup keys
      BY <1>2 DEF handle_route_events
    <2>2. pending' # {} /\ pending' \subseteq Key
      BY <2>1 DEF DebounceTypeOK
    <2>3. DebounceTypeOK'
      BY <1>2, <2>2 DEF DebounceTypeOK, handle_route_events, MaxDeadline, NoDeadline
    <2>4. DeadlinesAreTrue' /\ WaitsForOneBatch'
      BY <1>2, <2>2 DEF DebounceTypeOK, DeadlinesAreTrue, WaitsForOneBatch, handle_route_events,
                        MaxDeadline, NoDeadline
    <2> QED
      BY <1>1, <2>3, <2>4
  <1>3. CASE drain_rule_acks_once \/ handle_signals \/ flush_timerfd
    <2>1. DebounceTypeOK'
      <3>1. NoDeadline \in -1 .. AckTimeout
        BY DEF NoDeadline
      <3> QED
        BY <1>3, <3>1, Zenon DEF DebounceTypeOK, drain_rule_acks_once, handle_signals, flush_timerfd
    <2>2. DeadlinesAreTrue' /\ WaitsForOneBatch'
      BY <1>3 DEF DebounceTypeOK, DeadlinesAreTrue, WaitsForOneBatch, drain_rule_acks_once,
                  handle_signals, flush_timerfd, NoDeadline
    <2> QED
      BY <1>1, <2>1, <2>2
  <1> QED
    BY <1>2, <1>3

\* A flush closes the window or cuts it; without a flush the window is not overdue
\* or a batch is in flight.
LEMMA DriveStep ==
    WindowInv /\ (start_pending_batch \/ drive_maintenance_slice \/ await_acks) => WindowInv'
  <1> USE DebounceAssumption
  <1> SUFFICES ASSUME WindowInv,
                      start_pending_batch \/ drive_maintenance_slice \/ await_acks
               PROVE  WindowInv'
    OBVIOUS
  <1> USE DEF WindowInv
  <1>1. CASE start_pending_batch
    <2>1. PICK keys \in SUBSET pending : pending' = pending \ keys /\ cut_window(pending')
      BY <1>1 DEF start_pending_batch
    <2>2. /\ pending' \subseteq Key
          /\ pending' = {} => quiet_deadline' = -1 /\ max_deadline' = -1
          /\ pending' # {} => quiet_deadline' = DebounceTime /\ max_deadline' = DebounceMax
      BY <2>1 DEF DebounceTypeOK, cut_window, NoDeadline
    <2>3. /\ ack_deadline' \in {-1, AckTimeout} /\ open_for' = 0 /\ quiet_for' = 0
          /\ phase' = "wait" /\ ran' = TRUE /\ shutdown_requested' = shutdown_requested
          /\ timer' = min_deadline(quiet_deadline', max_deadline', ack_deadline')
      BY <1>1 DEF start_pending_batch, arm_timer, NoDeadline
    <2>4. quiet_deadline' \in -1 .. DebounceTime /\ max_deadline' \in -1 .. DebounceMax
      BY <2>2
    <2>5. timer' \in Nat \cup {-1}
      BY <2>3, <2>4, TimerType
    <2>6. DebounceTypeOK'
      BY <2>2, <2>3, <2>4, <2>5 DEF DebounceTypeOK, NoDeadline
    <2>7. TimerIsArmed'
      BY <2>2, <2>3 DEF TimerIsArmed
    <2>8. DeadlinesAreTrue' /\ WaitsForOneBatch'
      <3>1. DebounceMax > 0 /\ 0 <= DebounceMax + AckTimeout - 1
        OBVIOUS
      <3>2. pending' # {} => max_deadline' > 0 /\ quiet_deadline' > 0
        BY <2>2, <2>4, <3>1
      <3>3. WaitsForOneBatch'
        <4>1. ASSUME pending' # {} PROVE max_deadline' # 0
          BY <4>1, <3>2, <2>4
        <4>2. open_for' <= DebounceMax + AckTimeout - 1
          BY <2>3, <3>1
        <4> QED
          BY <4>1, <4>2, Zenon DEF WaitsForOneBatch
      <3>4. DeadlinesAreTrue'
        BY <2>2, <2>3, <3>2 DEF DeadlinesAreTrue
      <3> QED
        BY <3>3, <3>4
    <2> QED
      BY <2>6, <2>7, <2>8
  <1>2. CASE drive_maintenance_slice \/ await_acks
    <2>1. /\ UNCHANGED <<pending, quiet_deadline, max_deadline, open_for, quiet_for,
                         shutdown_requested>>
          /\ phase' = "wait" /\ ran' = TRUE
          /\ timer' = min_deadline(quiet_deadline', max_deadline', ack_deadline')
      BY <1>2 DEF drive_maintenance_slice, await_acks, arm_timer
    <2>2. ack_deadline' \in -1 .. AckTimeout
      BY <1>2 DEF DebounceTypeOK, drive_maintenance_slice, await_acks, NoDeadline
    <2>3. timer' \in Nat \cup {-1}
      BY <2>1, <2>2, TimerType DEF DebounceTypeOK
    <2>4. DebounceTypeOK'
      BY <2>1, <2>2, <2>3 DEF DebounceTypeOK
    <2>5. DeadlinesAreTrue'
      BY <2>1 DEF DeadlinesAreTrue
    <2>6. max_deadline = 0 => Busy /\ ack_deadline' = ack_deadline
      BY <1>2 DEF DebounceTypeOK, drive_maintenance_slice, await_acks, should_flush_pending, NoDeadline
    <2>7. TimerIsArmed' /\ WaitsForOneBatch'
      BY <2>1, <2>6 DEF TimerIsArmed, WaitsForOneBatch, Busy
    <2> QED
      BY <2>4, <2>5, <2>7
  <1> QED
    BY <1>1, <1>2

\* Every step of the loop and of time keeps the invariant.
LEMMA WindowStep == WindowInv /\ [DebounceNext]_debounce_vars => WindowInv'
  <1> SUFFICES ASSUME WindowInv, [DebounceNext]_debounce_vars PROVE WindowInv'
    OBVIOUS
  <1>1. CASE UNCHANGED debounce_vars
    BY <1>1 DEF debounce_vars, WindowInv, DebounceTypeOK, DeadlinesAreTrue, TimerIsArmed, WaitsForOneBatch, Busy
  <1> QED
    BY <1>1, TickStep, HandlerStep, DriveStep DEF DebounceNext

\* The invariant holds in every reachable state.
LEMMA WindowHolds == DebounceSpec => []WindowInv
  BY WindowInit, WindowStep, PTL DEF DebounceSpec

\* However the events come and whatever maintenance does, pending keys are flushed
\* within debounce_max and the time of one batch (should_flush_pending,
\* next_deadline, arm_timer).
THEOREM WindowBoundHolds == DebounceSpec => []WindowIsBounded
  <1>1. WindowInv => WindowIsBounded
    BY DebounceAssumption DEF WindowInv, DebounceTypeOK, WaitsForOneBatch, WindowIsBounded
  <1> QED
    BY <1>1, WindowHolds, PTL

\* No flush comes before the window is over, unless the daemon stops
\* (start_pending_batch, should_flush_pending).
THEOREM FlushTimingHolds == DebounceSpec => FlushIsNotEarly
  <1>1. WindowInv /\ [DebounceNext]_debounce_vars =>
            [start_pending_batch => \/ shutdown_requested
                                    \/ quiet_for >= DebounceTime
                                    \/ open_for >= DebounceMax]_debounce_vars
    BY DEF WindowInv, DeadlinesAreTrue, start_pending_batch, should_flush_pending
  <1> QED
    BY <1>1, WindowHolds, PTL DEF DebounceSpec, FlushIsNotEarly

-----------------------------------------------------------------------------
(* The drain of the route socket.                                           *)

\* What a drain has processed and what it has left make up its budget, and a ring
\* that was filled has been used by more than a quarter, at its new size too.
DrainInv ==
    /\ DrainTypeOK
    /\ LossIsBounded
    /\ draining => packets_left + processed_packets = current
    /\ draining /\ full => processed_packets > 1 /\ processed_packets > slots \div 4

USE DrainAssumption

-----------------------------------------------------------------------------
\* A quarter of a number that at most doubled is less than the number.
LEMMA QuarterOfDouble ==
    ASSUME NEW n \in Nat, NEW k \in Nat \ {0}, n <= 2 * k
    PROVE  n \div 4 \in Nat /\ n \div 4 < k
  OBVIOUS

\* The new budget and the streaks stay in range.
LEMMA UpdateType ==
    ASSUME current \in MinBudget .. MaxBudget,
           full_streak \in 0 .. FullLimit - 1, low_streak \in 0 .. LowLimit - 1,
           update(processed_packets, full)
    PROVE  /\ current' \in MinBudget .. MaxBudget
           /\ full_streak' \in 0 .. FullLimit - 1 /\ low_streak' \in 0 .. LowLimit - 1
  <1>1. current \div 2 \in Nat /\ current \div 2 <= current
    OBVIOUS
  <1>2. current' \in MinBudget .. MaxBudget
    BY <1>1 DEF update, Larger, Smaller
  <1>3. Raised(full_streak) \in Nat /\ Raised(low_streak) \in Nat
    BY DEF Raised, Smaller
  <1>4. full_streak' \in 0 .. FullLimit - 1 /\ low_streak' \in 0 .. LowLimit - 1
    BY <1>3 DEF update
  <1> QED
    BY <1>2, <1>4

\* The ring stays in range.
LEMMA CalmType ==
    ASSUME slots \in MinSlots .. MaxSlots, route_ring_calm_streak \in 0 .. StreakMax, calm_ring
    PROVE  slots' \in MinSlots .. MaxSlots /\ route_ring_calm_streak' \in 0 .. StreakMax
  <1>1. slots \div 2 \in Nat /\ slots \div 2 <= slots
    OBVIOUS
  <1>2. Raised(route_ring_calm_streak) \in 0 .. StreakMax
    BY DEF Raised, Smaller
  <1> QED
    BY <1>1, <1>2 DEF calm_ring, Larger

\* A receive takes from the budget what it looks at, and loses the rest.
LEMMA ReceiveStep == DrainInv /\ receive => DrainInv'
  <1> SUFFICES ASSUME DrainInv, receive PROVE DrainInv'
    OBVIOUS
  <1> DEFINE count == Smaller(queue, slots)
             seen  == Smaller(count, packets_left)
  <1>1. /\ draining = TRUE /\ packets_left > 0 /\ queue > 0
        /\ queue' = queue - count
        /\ slots' = IF count = slots THEN Larger(slots, Smaller(2 * slots, MaxSlots)) ELSE slots
        /\ packets_left' = packets_left - seen
        /\ processed_packets' = processed_packets + seen
        /\ lost' = Smaller(lost + (count - seen), MaxSlots)
        /\ UNCHANGED <<budget, route_ring_calm_streak, draining>>
    BY DEF receive, DrainMore, DrainInv, DrainTypeOK
  <1>0. full' = (full \/ count = slots \/ seen < count)
    BY Zenon DEF receive
  <1>2. /\ queue \in 0 .. QueueMax /\ slots \in MinSlots .. MaxSlots
        /\ packets_left \in 1 .. MaxBudget /\ processed_packets \in 0 .. MaxBudget
        /\ current \in MinBudget .. MaxBudget
        /\ packets_left + processed_packets = current
        /\ lost = 0
    BY <1>1 DEF DrainInv, DrainTypeOK, LossIsBounded
  <1>3. /\ count \in 1 .. slots /\ count <= queue
        /\ seen \in 1 .. count /\ seen <= packets_left
        /\ seen < count => seen = packets_left
    BY <1>1, <1>2 DEF Smaller
  <1>4. slots' \in MinSlots .. MaxSlots /\ slots' <= 2 * slots
    BY <1>1, <1>2 DEF Larger, Smaller
  <1>5. /\ lost' = count - seen /\ lost' \in 0 .. MaxSlots - 1
        /\ packets_left' \in 0 .. MaxBudget /\ processed_packets' \in 0 .. MaxBudget
        /\ packets_left' + processed_packets' = current'
        /\ queue' \in 0 .. QueueMax
    <2> HIDE DEF count, seen
    <2>1. lost' = count - seen /\ lost' \in 0 .. MaxSlots - 1
      BY <1>1, <1>2, <1>3 DEF Smaller
    <2> QED
      BY <1>1, <1>2, <1>3, <2>1 DEF budget
  <1>6. full' \in BOOLEAN /\ draining' \in BOOLEAN /\ draining'
    BY <1>0, <1>1, Zenon DEF DrainInv, DrainTypeOK
  <1>7. DrainTypeOK'
    <2>1. /\ full_streak' \in 0 .. FullLimit - 1 /\ low_streak' \in 0 .. LowLimit - 1
          /\ current' \in MinBudget .. MaxBudget
          /\ route_ring_calm_streak' \in 0 .. StreakMax
      BY <1>1 DEF DrainInv, DrainTypeOK, budget
    <2>2. lost' \in 0 .. MaxSlots
      BY <1>5
    <2> QED
      BY <1>4, <1>5, <1>6, <2>1, <2>2, Zenon DEF DrainTypeOK
  <1>8. LossIsBounded'
    <2> HIDE DEF count, seen
    <2>1. lost' > 0 => seen < count
      BY <1>3, <1>5
    <2>2. lost' > 0 => packets_left' = 0
      BY <1>1, <1>2, <1>3, <2>1
    <2>3. lost' > 0 => full'
      BY <1>0, <2>1, Zenon
    <2>4. lost' < MaxSlots
      BY <1>5
    <2> QED
      BY <2>2, <2>3, <2>4, Zenon DEF LossIsBounded
  <1>9. ASSUME full' PROVE processed_packets' > 1 /\ processed_packets' > slots' \div 4
    <2> HIDE DEF count, seen
    <2>0. slots' \div 4 \in Nat /\ slots' \div 4 < slots
      <3>1. slots' \in Nat /\ slots \in Nat \ {0}
        BY <1>2, <1>4
      <3> QED
        BY <1>4, <3>1, QuarterOfDouble, Zenon
    <2>1. CASE seen < count
      <3>1. processed_packets' = current
        BY <1>1, <1>2, <1>3, <2>1
      <3> QED
        BY <2>0, <3>1, <1>2
    <2>2. CASE seen = count /\ count = slots
      <3>1. processed_packets' >= slots
        BY <1>1, <1>2, <2>2
      <3> QED
        BY <2>0, <3>1, <1>2, <1>5
    <2>3. CASE seen = count /\ count # slots
      <3>0. ~(seen < count)
        BY <1>3, <2>3
      <3>1. full
        BY <1>0, <1>9, <2>3, <3>0, Zenon
      <3>2. slots' = slots
        BY <1>1, <2>3
      <3>3. processed_packets' >= processed_packets
        BY <1>1, <1>2, <1>3
      <3> QED
        BY <1>1, <1>2, <1>5, <3>1, <3>2, <3>3 DEF DrainInv
    <2> QED
      BY <1>3, <2>1, <2>2, <2>3
  <1> QED
    BY <1>5, <1>7, <1>8, <1>9, Zenon DEF DrainInv

\* The invariant holds at the start.
LEMMA DrainStarts == DrainInit => DrainInv
  <1> SUFFICES ASSUME DrainInit PROVE DrainInv
    OBVIOUS
  <1>1. /\ 0 \in 0 .. QueueMax /\ 0 \in 0 .. FullLimit - 1 /\ 0 \in 0 .. LowLimit - 1
        /\ 0 \in 0 .. StreakMax /\ 0 \in 0 .. MaxBudget /\ 0 \in 0 .. MaxSlots
        /\ DefaultBudget \in MinBudget .. MaxBudget /\ MinSlots \in MinSlots .. MaxSlots
        /\ 0 < MaxSlots /\ ~(0 > 0)
    OBVIOUS
  <1> QED
    BY <1>1, Zenon DEF DrainInit, DrainInv, DrainTypeOK, LossIsBounded

\* Every step keeps it.
LEMMA DrainStep == DrainInv /\ [DrainNext]_drain_vars => DrainInv'
  <1> SUFFICES ASSUME DrainInv, [DrainNext]_drain_vars PROVE DrainInv'
    OBVIOUS
  <1>1. CASE PacketArrives
    BY <1>1 DEF PacketArrives, DrainInv, DrainTypeOK, LossIsBounded, budget, ring
  <1>2. CASE begin_drain
    <2>0. current \in 0 .. MaxBudget /\ 0 \in 0 .. MaxBudget /\ 0 \in 0 .. MaxSlots
      BY DEF DrainInv, DrainTypeOK
    <2>1. DrainTypeOK'
      BY <1>2, <2>0, Zenon DEF begin_drain, DrainInv, DrainTypeOK, budget, ring
    <2>2. LossIsBounded'
      BY <1>2 DEF begin_drain, LossIsBounded
    <2> QED
      BY <1>2, <2>1, <2>2 DEF begin_drain, DrainInv, DrainTypeOK, budget, ring
  <1>3. CASE receive
    BY <1>3, ReceiveStep
  <1>4. CASE end_drain
    <2>1. DrainTypeOK'
      BY <1>4, UpdateType, CalmType DEF end_drain, DrainInv, DrainTypeOK
    <2> QED
      BY <1>4, <2>1 DEF end_drain, DrainInv, LossIsBounded
  <1>5. CASE UNCHANGED drain_vars
    BY <1>5 DEF drain_vars, budget, ring, DrainInv, DrainTypeOK, LossIsBounded
  <1> QED
    BY <1>1, <1>2, <1>3, <1>4, <1>5 DEF DrainNext, DrainLoop

\* The invariant holds in every reachable state.
LEMMA DrainHolds == DrainSpec => []DrainInv
  BY DrainStarts, DrainStep, PTL DEF DrainSpec

\* A drain loses less than one ring of packets, and only when its budget is used up
\* (handle_route_events).
THEOREM LossBoundHolds == DrainSpec => []LossIsBounded
  BY DrainHolds, PTL DEF DrainInv

\* A drain that filled the ring does not shrink it at its end, provided the ring has
\* two slots and no budget is smaller than the largest ring (handle_route_events,
\* ensure_slots, shrink_slots).
THEOREM FullRingHolds == DrainSpec => FullRingIsKept
  <1>1. DrainInv /\ [DrainNext]_drain_vars
            => [draining /\ ~draining' /\ full => slots' = slots]_drain_vars
    <2> SUFFICES ASSUME DrainInv, DrainNext, draining, ~draining', full PROVE slots' = slots
      BY Zenon
    <2>1. end_drain
      BY Zenon DEF DrainNext, DrainLoop, PacketArrives, begin_drain, receive, DrainInv, DrainTypeOK
    <2>2. ~(processed_packets <= Larger(slots \div 4, 1))
      BY DEF DrainInv, DrainTypeOK, Larger
    <2> QED
      BY <2>1, <2>2 DEF end_drain, calm_ring
  <1> QED
    BY <1>1, DrainHolds, PTL DEF DrainSpec, FullRingIsKept

-----------------------------------------------------------------------------
(* The pbr command.                                                         *)

HIDE DrainAssumption
USE PbrAssumption

\* Once every request has its route behind it, the route is there: the last of them
\* put it there after all deletions.
RouteIsSettled ==
    (\A p \in Proc : action[p] = "Apply" /\ pc[p] \in {"AddRule", "ok"}) => route

ConvergeInv == PbrTypeOK /\ RouteIsSettled /\ AppliesConverge

\* All requests but that of p are still to begin.
Lone(p) == \A q \in Proc \ {p} : pc[q] = "idle"

\* What a lone request finds: every iteration of its loop has deleted a rule, the
\* loop ends with none or at its limit, and the rule comes after the route.
LoneInv ==
    \A p \in Proc : Lone(p) =>
        /\ pc[p] = "idle" => tries[p] = 0
        /\ ~refused /\ pc[p] = "idle" => rules = before
        /\ ~refused /\ pc[p] = "DeleteRule" => rules + tries[p] <= before
        /\ ~refused /\ pc[p] = "DeleteRoute" => rules = 0 \/ rules + Limit <= before
        /\ pc[p] = "AddRule" => route

\* The iterations that were made of all loops.
Iterations ==
    {d \in Proc \X (0 .. Limit - 1) :
        d[2] < tries[d[1]] \/ pc[d[1]] \in {"DeleteRoute", "ok"}}

\* Cleanups only, and nothing has gone wrong.
OnlyCleanups == ~refused /\ \A p \in Proc : action[p] = "Cleanup" /\ pc[p] # "failed"

\* Among cleanups, every iteration has deleted a rule as long as there are rules, and
\* one request that is through has deleted the route for all of them.
CleanupInv ==
    OnlyCleanups =>
        /\ \A p \in Proc : pc[p] \in {"idle", "DeleteRule", "DeleteRoute", "ok"}
        /\ \A p \in Proc : pc[p] = "ok" => ~route
        /\ rules = 0 \/ Cardinality(Iterations) + rules = before

-----------------------------------------------------------------------------
\* A message changes the kernel's rules by at most one and keeps them in range.
LEMMA ExecuteType ==
    ASSUME PbrTypeOK, NEW op \in PbrOp, execute(op)
    PROVE  /\ rules' \in 0 .. MaxRules /\ route' \in BOOLEAN
           /\ op # "AddRule" => rules' <= rules
           /\ op = "AddRule" => rules' > 0
           /\ op = "DeleteRule" /\ rules > 0 => rules' = rules - 1
           /\ op \notin {"AddRule", "DeleteRule"} => rules' = rules
           /\ op = "ReplaceRoute" => route' = TRUE
           /\ op = "DeleteRoute" => route' = FALSE
           /\ op \notin {"ReplaceRoute", "DeleteRoute"} => route' = route
  <1>1. rules \in 0 .. MaxRules /\ route \in BOOLEAN
    BY DEF PbrTypeOK
  <1>2. CASE op = "AddRule"
    BY <1>1, <1>2 DEF execute
  <1>3. CASE op = "DeleteRule"
    BY <1>1, <1>3 DEF execute
  <1>4. CASE op = "ReplaceRoute"
    BY <1>1, <1>4 DEF execute
  <1>5. CASE op = "DeleteRoute"
    BY <1>1, <1>5 DEF execute
  <1> QED
    BY <1>2, <1>3, <1>4, <1>5 DEF PbrOp

\* Where a process goes by the class of the acknowledgement.
LEMMA GoOnMoves ==
    ASSUME PbrTypeOK, NEW p \in Proc, NEW op \in PbrOp, pc[p] = op, NEW class, GoOn(p, op, class)
    PROVE  /\ \/ /\ op = "DeleteRule" /\ class # "Noop" /\ tries[p] + 1 < Limit
                 /\ tries' = [tries EXCEPT ![p] = @ + 1] /\ pc' = pc
              \/ /\ op = "DeleteRule" /\ (class = "Noop" \/ tries[p] + 1 = Limit)
                 /\ pc' = [pc EXCEPT ![p] = "DeleteRoute"] /\ tries' = tries
              \/ /\ op # "DeleteRule"
                 /\ pc' = [pc EXCEPT ![p] = IF class = "KernelErr" THEN "failed" ELSE AfterOp(p, op)]
                 /\ tries' = tries
  <1>1. tries[p] \in 0 .. Limit - 1
    BY DEF PbrTypeOK
  <1>2. CASE op = "DeleteRule" /\ LoopAgain(p, class)
    BY <1>2 DEF GoOn, LoopAgain
  <1>3. CASE op = "DeleteRule" /\ ~LoopAgain(p, class)
    <2>1. class = "Noop" \/ tries[p] + 1 = Limit
      BY <1>1, <1>3 DEF LoopAgain
    <2>2. pc' = [pc EXCEPT ![p] = "DeleteRoute"] /\ tries' = tries
      BY <1>3 DEF GoOn, AfterOp
    <2> QED
      BY <1>3, <2>1, <2>2
  <1>4. CASE op # "DeleteRule"
    BY <1>4 DEF GoOn
  <1> QED
    BY <1>2, <1>3, <1>4

\* The message after a message.
LEMMA AfterOpIs ==
    ASSUME NEW p \in Proc, NEW op \in PbrOp, action[p] \in {"Apply", "Cleanup"}
    PROVE  /\ op = "DeleteRule" => AfterOp(p, op) = "DeleteRoute"
           /\ op = "DeleteRoute" => AfterOp(p, op) \in {"ReplaceRoute", "ok"}
           /\ op = "DeleteRoute" /\ action[p] = "Apply" => AfterOp(p, op) = "ReplaceRoute"
           /\ op = "ReplaceRoute" => AfterOp(p, op) = "AddRule"
           /\ op = "AddRule" => AfterOp(p, op) = "ok"
  BY DEF AfterOp, PbrOp

\* What a step of a process may do: begin, fail, get on with a message that was
\* executed, or with one that was refused.
Moves(p) ==
    /\ action' = action /\ before' = before
    /\ \/ /\ pc[p] = "idle"
          /\ pc' = [pc EXCEPT ![p] = "DeleteRule"] \/ pc' = [pc EXCEPT ![p] = "failed"]
          /\ UNCHANGED <<rules, route, tries, refused>>
       \/ /\ pc[p] \in PbrOp
          /\ execute(pc[p]) \/ UNCHANGED <<rules, route>>
          /\ pc' = [pc EXCEPT ![p] = "failed"]
          /\ UNCHANGED <<tries, refused>>
       \/ /\ pc[p] \in PbrOp /\ pc[p] # "DeleteRule"
          /\ execute(pc[p])
          /\ pc' = [pc EXCEPT ![p] = AfterOp(p, pc[p])]
          /\ UNCHANGED <<tries, refused>>
       \/ /\ pc[p] = "DeleteRule"
          /\ \/ execute("DeleteRule") /\ refused' = refused
             \/ UNCHANGED <<rules, route>> /\ refused' = TRUE
          /\ \/ /\ tries[p] + 1 < Limit
                /\ rules > 0 \/ refused'
                /\ tries' = [tries EXCEPT ![p] = @ + 1] /\ pc' = pc
             \/ /\ rules = 0 \/ tries[p] + 1 = Limit \/ refused'
                /\ pc' = [pc EXCEPT ![p] = "DeleteRoute"] /\ tries' = tries
       \/ /\ pc[p] \in PbrOp /\ pc[p] # "DeleteRule"
          /\ UNCHANGED <<rules, route>> /\ refused' = TRUE
          /\ pc' = [pc EXCEPT ![p] = "failed"]
          /\ UNCHANGED tries

\* An executed message is classified as done or as nothing to do.
LEMMA ExecutedClass ==
    ASSUME PbrTypeOK, NEW op \in PbrOp
    PROVE  /\ classify_pbr_ack(op, errno(op)) # "KernelErr"
           /\ op = "DeleteRule" => (classify_pbr_ack(op, errno(op)) = "Noop" <=> rules = 0)
  <1>1. rules \in Nat
    BY DEF PbrTypeOK
  <1> QED
    BY <1>1 DEF PbrOp, classify_pbr_ack, errno

\* Every step is one of those.
LEMMA StepMoves ==
    ASSUME PbrTypeOK, NEW p \in Proc, PbrStep(p)
    PROVE  Moves(p)
  <1>1. CASE run_request(p)
    BY <1>1 DEF run_request, Moves
  <1>2. CASE send_pbr_message(p)
    <2> DEFINE class == classify_pbr_ack(pc[p], errno(pc[p]))
    <2>1. /\ pc[p] \in PbrOp /\ execute(pc[p]) /\ GoOn(p, pc[p], class)
          /\ action' = action /\ before' = before /\ refused' = refused
      BY <1>2 DEF send_pbr_message
    <2>2. class # "KernelErr" /\ (pc[p] = "DeleteRule" => (class = "Noop" <=> rules = 0))
      BY <2>1, ExecutedClass
    <2>3. rules \in 0 .. MaxRules
      BY DEF PbrTypeOK
    <2> HIDE DEF class
    <2>4. CASE pc[p] = "DeleteRule"
      <3>0. execute("DeleteRule") /\ refused' = refused /\ action' = action /\ before' = before
        BY <2>1, <2>4
      <3>1. CASE /\ class # "Noop" /\ tries[p] + 1 < Limit
                 /\ tries' = [tries EXCEPT ![p] = @ + 1] /\ pc' = pc
        <4>1. rules > 0
          BY <2>2, <2>3, <2>4, <3>1
        <4> QED
          BY <2>4, <3>0, <3>1, <4>1 DEF Moves
      <3>2. CASE /\ class = "Noop" \/ tries[p] + 1 = Limit
                 /\ pc' = [pc EXCEPT ![p] = "DeleteRoute"] /\ tries' = tries
        BY <2>2, <2>4, <3>0, <3>2 DEF Moves
      <3> QED
        BY <2>1, <2>4, <3>1, <3>2, GoOnMoves, Zenon
    <2>5. CASE pc[p] # "DeleteRule"
      BY <2>1, <2>2, <2>5, GoOnMoves DEF Moves
    <2> QED
      BY <2>4, <2>5
  <1>3. CASE message_refused(p)
    <2> DEFINE class == classify_pbr_ack(pc[p], "EPERM")
    <2>1. /\ pc[p] \in PbrOp /\ refused' = TRUE /\ GoOn(p, pc[p], class)
          /\ action' = action /\ before' = before /\ UNCHANGED <<rules, route>>
      BY <1>3 DEF message_refused
    <2>2. class = "KernelErr"
      BY DEF classify_pbr_ack
    <2> HIDE DEF class
    <2>3. CASE pc[p] = "DeleteRule"
      BY <2>1, <2>2, <2>3, GoOnMoves DEF Moves
    <2>4. CASE pc[p] # "DeleteRule"
      BY <2>1, <2>2, <2>4, GoOnMoves DEF Moves
    <2> QED
      BY <2>3, <2>4
  <1>4. CASE ack_lost(p)
    BY <1>4 DEF ack_lost, Moves
  <1> QED
    BY <1>1, <1>2, <1>3, <1>4 DEF PbrStep

\* Every step keeps the types.
LEMMA TypeStep ==
    ASSUME PbrTypeOK, NEW p \in Proc, Moves(p)
    PROVE  PbrTypeOK'
  <1>1. /\ rules \in 0 .. MaxRules /\ before \in 0 .. MaxRules
        /\ route \in BOOLEAN /\ refused \in BOOLEAN
        /\ action \in [Proc -> {"Apply", "Cleanup"}]
        /\ pc \in [Proc -> PbrOp \cup RequestEnded \cup {"idle"}]
        /\ tries \in [Proc -> 0 .. Limit - 1]
    BY DEF PbrTypeOK
  <1>2. rules' \in 0 .. MaxRules /\ route' \in BOOLEAN
    BY <1>1, ExecuteType DEF Moves, PbrOp
  <1>3. refused' \in BOOLEAN /\ before' \in 0 .. MaxRules
        /\ action' \in [Proc -> {"Apply", "Cleanup"}]
    BY <1>1, Zenon DEF Moves
  <1>4. pc' \in [Proc -> PbrOp \cup RequestEnded \cup {"idle"}]
    <2>1. pc[p] \in PbrOp => AfterOp(p, pc[p]) \in PbrOp \cup RequestEnded
      BY <1>1, AfterOpIs DEF PbrOp, RequestEnded
    <2> QED
      BY <1>1, <2>1 DEF Moves, PbrOp, RequestEnded
  <1>5. tries' \in [Proc -> 0 .. Limit - 1]
    <2>1. tries[p] + 1 < Limit => tries[p] + 1 \in 0 .. Limit - 1
      BY <1>1
    <2> QED
      BY <1>1, <2>1 DEF Moves
  <1> QED
    BY <1>2, <1>3, <1>4, <1>5, Zenon DEF PbrTypeOK

\* The last request to have its route behind it has just made it, and the last to end
\* has just made the rule or found it.
LEMMA ConvergeStep ==
    ASSUME ConvergeInv, NEW p \in Proc, Moves(p)
    PROVE  ConvergeInv'
  <1>1. PbrTypeOK /\ PbrTypeOK'
    BY TypeStep DEF ConvergeInv
  <1>2. ASSUME \A q \in Proc : action[q] = "Apply" /\ pc'[q] \in {"AddRule", "ok"}
        PROVE  /\ pc[p] \in {"ReplaceRoute", "AddRule"} /\ execute(pc[p])
               /\ \A q \in Proc : q # p => pc[q] \in {"AddRule", "ok"}
               /\ pc[p] = "ReplaceRoute" => pc'[p] = "AddRule"
    <2>1. pc'[p] \in {"AddRule", "ok"} /\ action[p] = "Apply"
      BY <1>2
    <2>2. pc \in [Proc -> PbrOp \cup RequestEnded \cup {"idle"}]
      BY <1>1 DEF PbrTypeOK
    <2>3. /\ pc[p] \in PbrOp /\ pc[p] # "DeleteRule" /\ execute(pc[p])
          /\ pc' = [pc EXCEPT ![p] = AfterOp(p, pc[p])]
      BY <2>1, <2>2 DEF Moves
    <2>4. pc[p] \in {"ReplaceRoute", "AddRule"} /\ (pc[p] = "ReplaceRoute" => pc'[p] = "AddRule")
      BY <2>1, <2>2, <2>3, AfterOpIs DEF PbrOp
    <2> QED
      BY <1>2, <2>2, <2>3, <2>4
  <1>3. action' = action
    BY DEF Moves
  <1>4. RouteIsSettled'
    <2> SUFFICES ASSUME \A q \in Proc : action[q] = "Apply" /\ pc'[q] \in {"AddRule", "ok"}
                 PROVE  route'
      BY <1>3 DEF RouteIsSettled
    <2>1. CASE pc[p] = "ReplaceRoute"
      BY <1>1, <1>2, <2>1, ExecuteType DEF PbrOp
    <2>2. CASE pc[p] = "AddRule"
      <3>1. route
        BY <1>2, <2>2 DEF ConvergeInv, RouteIsSettled
      <3> QED
        BY <1>1, <1>2, <2>2, <3>1, ExecuteType DEF PbrOp
    <2> QED
      BY <1>2, <2>1, <2>2
  <1>5. AppliesConverge'
    <2> SUFFICES ASSUME \A q \in Proc : action[q] = "Apply" /\ pc'[q] = "ok"
                 PROVE  rules' > 0 /\ route'
      BY <1>3 DEF AppliesConverge, AllOk
    <2>1. pc[p] = "AddRule" /\ execute(pc[p])
      BY <1>2
    <2>2. rules' > 0
      BY <1>1, <2>1, ExecuteType DEF PbrOp
    <2>3. route'
      BY <1>3, <1>4 DEF RouteIsSettled
    <2> QED
      BY <2>2, <2>3
  <1> QED
    BY <1>1, <1>4, <1>5 DEF ConvergeInv

\* A request that begins is no longer idle, so the one that was alone is the one
\* that steps.
LEMMA StepperIsLone ==
    ASSUME PbrTypeOK, NEW p \in Proc, Moves(p), NEW r \in Proc, Lone(r)'
    PROVE  r = p /\ Lone(p)
  <1>1. pc \in [Proc -> PbrOp \cup RequestEnded \cup {"idle"}] /\ action[p] \in {"Apply", "Cleanup"}
    BY DEF PbrTypeOK
  <1>2. pc'[p] # "idle" /\ \A q \in Proc : q # p => pc'[q] = pc[q]
    <2>1. pc[p] \in PbrOp => AfterOp(p, pc[p]) # "idle"
      BY <1>1, AfterOpIs DEF PbrOp
    <2> QED
      BY <1>1, <2>1 DEF Moves, PbrOp
  <1>3. r = p
    BY <1>2 DEF Lone
  <1> QED
    BY <1>2, <1>3 DEF Lone

\* The facts about a lone request are kept.
LEMMA LoneStep ==
    ASSUME PbrTypeOK, LoneInv, NEW p \in Proc, Moves(p)
    PROVE  LoneInv'
  <1> SUFFICES ASSUME Lone(p)'
               PROVE  /\ pc'[p] # "idle"
                      /\ ~refused' /\ pc'[p] = "DeleteRule" => rules' + tries'[p] <= before'
                      /\ ~refused' /\ pc'[p] = "DeleteRoute" =>
                            rules' = 0 \/ rules' + Limit <= before'
                      /\ pc'[p] = "AddRule" => route'
    <2>1. pc'[p] # "idle"
      BY AfterOpIs DEF PbrTypeOK, Moves, PbrOp
    <2>2. \A r \in Proc : Lone(r)' => r = p
      BY <2>1, StepperIsLone
    <2> QED
      BY <2>1, <2>2 DEF LoneInv
  <1>1. Lone(p)
    BY StepperIsLone
  <1>2. /\ rules \in 0 .. MaxRules /\ before \in 0 .. MaxRules /\ tries \in [Proc -> 0 .. Limit - 1]
        /\ pc \in [Proc -> PbrOp \cup RequestEnded \cup {"idle"}] /\ action[p] \in {"Apply", "Cleanup"}
        /\ before' = before
    BY DEF PbrTypeOK, Moves
  <1>3. /\ pc[p] = "idle" => tries[p] = 0
        /\ ~refused /\ pc[p] = "idle" => rules = before
        /\ ~refused /\ pc[p] = "DeleteRule" => rules + tries[p] <= before
    BY <1>1 DEF LoneInv
  <1>4. CASE pc[p] = "idle"
    BY <1>2, <1>3, <1>4 DEF Moves, PbrOp
  <1>5. CASE pc[p] = "DeleteRule"
    <2>1. CASE pc' = [pc EXCEPT ![p] = "failed"]
      BY <1>2, <2>1
    <2>2. CASE pc' = pc /\ ~refused'
      <3>1. /\ rules > 0 /\ tries' = [tries EXCEPT ![p] = @ + 1]
            /\ execute("DeleteRule") /\ ~refused
        BY <1>2, <1>5, <2>2 DEF Moves
      <3>2. rules' = rules - 1
        BY <3>1, ExecuteType DEF PbrOp
      <3> QED
        BY <1>2, <1>3, <1>5, <2>2, <3>1, <3>2
    <2>3. CASE pc' = [pc EXCEPT ![p] = "DeleteRoute"] /\ ~refused'
      <3>1. /\ rules = 0 \/ tries[p] + 1 = Limit
            /\ execute("DeleteRule") /\ ~refused
        BY <1>2, <1>5, <2>3 DEF Moves
      <3>2. rules' \in 0 .. MaxRules /\ rules' <= rules /\ (rules > 0 => rules' = rules - 1)
        BY <3>1, ExecuteType DEF PbrOp
      <3>3. rules' = 0 \/ rules' + Limit <= before
        <4>1. rules + tries[p] <= before /\ tries[p] \in Nat
          BY <1>2, <1>3, <1>5, <3>1
        <4>2. CASE rules = 0
          BY <3>2, <4>2
        <4>3. CASE rules > 0 /\ tries[p] + 1 = Limit
          BY <1>2, <3>2, <4>1, <4>3
        <4> QED
          BY <1>2, <3>1, <4>2, <4>3
      <3> QED
        BY <1>2, <2>3, <3>3
    <2>4. CASE refused' /\ (pc' = pc \/ pc' = [pc EXCEPT ![p] = "DeleteRoute"])
      BY <1>2, <1>5, <2>4
    <2> QED
      BY <1>5, <2>1, <2>2, <2>3, <2>4 DEF Moves, PbrOp
  <1>6. CASE pc[p] \in {"DeleteRoute", "ReplaceRoute", "AddRule"}
    <2>1. \/ pc'[p] = "failed"
          \/ execute(pc[p]) /\ pc'[p] = AfterOp(p, pc[p])
      BY <1>2, <1>6 DEF Moves
    <2>2. pc'[p] = "AddRule" => pc[p] = "ReplaceRoute" /\ execute(pc[p])
      BY <1>2, <1>6, <2>1, AfterOpIs DEF PbrOp
    <2>3. pc'[p] \in {"failed", "ReplaceRoute", "AddRule", "ok"}
      BY <1>2, <1>6, <2>1, AfterOpIs DEF PbrOp
    <2> QED
      BY <2>2, <2>3, ExecuteType DEF PbrOp
  <1> QED
    BY <1>2, <1>4, <1>5, <1>6 DEF Moves, PbrOp, RequestEnded

INSTANCE FiniteSetTheorems

\* At most one request has begun: the one that is under way is alone.
LEMMA AtMostOne ==
    ASSUME Cardinality({q \in Proc : pc[q] # "idle"}) <= 1, NEW p \in Proc, pc[p] # "idle"
    PROVE  Lone(p)
  <1> DEFINE begun == {q \in Proc : pc[q] # "idle"}
  <1>1. IsFiniteSet(begun) /\ Cardinality(begun) \in Nat
    BY FS_Subset, FS_CardinalityType
  <1>2. begun # {} /\ p \in begun
    OBVIOUS
  <1>3. Cardinality(begun) = 1
    BY <1>1, <1>2, FS_EmptySet
  <1>4. PICK x : begun = {x}
    BY <1>1, <1>3, FS_Singleton
  <1> QED
    BY <1>2, <1>4 DEF Lone

\* The iterations are finitely many; if all requests are through, all were made.
LEMMA IterationsCount ==
    /\ IsFiniteSet(Iterations) /\ Cardinality(Iterations) \in Nat
    /\ (\A p \in Proc : pc[p] = "ok") => Cardinality(Iterations) = Limit * Cardinality(Proc)
  <1> DEFINE All == Proc \X (0 .. Limit - 1)
  <1>1. IsFiniteSet(0 .. Limit - 1) /\ Cardinality(0 .. Limit - 1) = Limit
    BY FS_Interval
  <1>2. IsFiniteSet(All) /\ Cardinality(All) = Cardinality(Proc) * Limit
    BY <1>1, FS_Product
  <1>3. Iterations \in SUBSET All
    BY DEF Iterations
  <1>4. IsFiniteSet(Iterations)
    BY <1>2, <1>3, FS_Subset
  <1>5. Cardinality(Iterations) \in Nat /\ Cardinality(Proc) \in Nat
    BY <1>4, FS_CardinalityType
  <1>6. ASSUME \A p \in Proc : pc[p] = "ok" PROVE Iterations = All
    BY <1>6 DEF Iterations
  <1>7. Cardinality(Proc) * Limit = Limit * Cardinality(Proc)
    BY <1>5
  <1> QED
    BY <1>2, <1>4, <1>5, <1>6, <1>7, Zenon

\* A loop that makes another iteration, or its last one, adds exactly one.
LEMMA IterationMade ==
    ASSUME PbrTypeOK, NEW p \in Proc, pc[p] = "DeleteRule",
           \/ tries' = [tries EXCEPT ![p] = @ + 1] /\ pc' = pc /\ tries[p] + 1 < Limit
           \/ pc' = [pc EXCEPT ![p] = "DeleteRoute"] /\ tries' = tries /\ tries[p] + 1 = Limit
    PROVE  Cardinality(Iterations') = Cardinality(Iterations) + 1
  <1> DEFINE d == <<p, tries[p]>>
  <1>1. /\ pc \in [Proc -> PbrOp \cup RequestEnded \cup {"idle"}]
        /\ tries \in [Proc -> 0 .. Limit - 1] /\ tries[p] \in 0 .. Limit - 1
    BY DEF PbrTypeOK
  <1>2. d \notin Iterations
    BY <1>1 DEF Iterations
  <1>3. Iterations' = Iterations \cup {d}
    <2>1. ASSUME NEW q \in Proc, NEW i \in 0 .. Limit - 1
          PROVE  (i < tries'[q] \/ pc'[q] \in {"DeleteRoute", "ok"}) <=>
                 (i < tries[q] \/ pc[q] \in {"DeleteRoute", "ok"} \/ (q = p /\ i = tries[p]))
      <3>1. CASE q # p
        BY <1>1, <3>1
      <3>2. CASE q = p /\ tries'[p] = tries[p] + 1 /\ pc'[p] = "DeleteRule"
        BY <1>1, <3>2
      <3>3. CASE q = p /\ tries[p] + 1 = Limit /\ pc'[p] = "DeleteRoute"
        BY <1>1, <3>3
      <3> QED
        BY <1>1, <3>1, <3>2, <3>3
    <2> QED
      BY <1>1, <2>1 DEF Iterations
  <1> QED
    BY <1>2, <1>3, IterationsCount, FS_AddElement

\* Steps of cleanups keep the count: an iteration deletes a rule, or finds none, and
\* then there will be none.
LEMMA CleanupStep ==
    ASSUME PbrTypeOK, CleanupInv, NEW p \in Proc, Moves(p)
    PROVE  CleanupInv'
  <1> SUFFICES ASSUME OnlyCleanups'
               PROVE  /\ \A q \in Proc : pc'[q] \in {"idle", "DeleteRule", "DeleteRoute", "ok"}
                      /\ \A q \in Proc : pc'[q] = "ok" => ~route'
                      /\ rules' = 0 \/ Cardinality(Iterations') + rules' = before'
    BY DEF CleanupInv
  <1>1. /\ pc \in [Proc -> PbrOp \cup RequestEnded \cup {"idle"}] /\ tries \in [Proc -> 0 .. Limit - 1]
        /\ rules \in 0 .. MaxRules /\ before \in 0 .. MaxRules
        /\ action \in [Proc -> {"Apply", "Cleanup"}] /\ refused \in BOOLEAN
    BY DEF PbrTypeOK
  <1>2. action' = action /\ before' = before
    BY DEF Moves
  <1>3. ~refused' /\ pc'[p] # "failed" /\ action[p] = "Cleanup"
    BY <1>2 DEF OnlyCleanups
  <1>4. OnlyCleanups
    <2>1. ~refused
      BY <1>3 DEF Moves
    <2>2. \A q \in Proc : pc[q] # "failed"
      <3>1. \A q \in Proc \ {p} : pc'[q] = pc[q]
        BY <1>1 DEF Moves
      <3>2. pc[p] # "failed"
        BY DEF Moves, PbrOp
      <3> QED
        BY <3>1, <3>2 DEF OnlyCleanups
    <2> QED
      BY <1>2, <2>1, <2>2 DEF OnlyCleanups
  <1>5. /\ \A q \in Proc : pc[q] \in {"idle", "DeleteRule", "DeleteRoute", "ok"}
        /\ \A q \in Proc : pc[q] = "ok" => ~route
        /\ rules = 0 \/ Cardinality(Iterations) + rules = before
    BY <1>4 DEF CleanupInv
  <1>6. CASE pc[p] = "idle"
    <2>1. pc' = [pc EXCEPT ![p] = "DeleteRule"] /\ UNCHANGED <<rules, route, tries>>
      BY <1>1, <1>3, <1>6 DEF Moves, PbrOp
    <2>2. Iterations' = Iterations
      BY <1>1, <1>6, <2>1 DEF Iterations
    <2> QED
      BY <1>1, <1>2, <1>5, <2>1, <2>2
  <1>7. CASE pc[p] = "DeleteRule"
    <2>1. /\ execute("DeleteRule")
          /\ \/ /\ tries[p] + 1 < Limit /\ rules > 0
                /\ tries' = [tries EXCEPT ![p] = @ + 1] /\ pc' = pc
             \/ /\ rules = 0 \/ tries[p] + 1 = Limit
                /\ pc' = [pc EXCEPT ![p] = "DeleteRoute"] /\ tries' = tries
      BY <1>1, <1>3, <1>7 DEF Moves
    <2>2. /\ rules' \in 0 .. MaxRules /\ rules' <= rules /\ route' = route
          /\ rules > 0 => rules' = rules - 1
      BY <2>1, ExecuteType DEF PbrOp
    <2>3. \A q \in Proc : /\ pc'[q] \in {"idle", "DeleteRule", "DeleteRoute", "ok"}
                          /\ pc'[q] = "ok" => pc[q] = "ok"
      BY <1>1, <1>5, <2>1
    <2>4. CASE rules = 0
      <3>1. rules' = 0
        BY <2>2, <2>4
      <3> QED
        BY <1>5, <2>2, <2>3, <3>1, Zenon
    <2>5. CASE rules > 0
      <3>1. Cardinality(Iterations') = Cardinality(Iterations) + 1
        BY <1>7, <2>1, <2>5, IterationMade
      <3>2. Cardinality(Iterations') + rules' = before'
        BY <1>1, <1>2, <1>5, <2>2, <2>5, <3>1, IterationsCount
      <3> QED
        BY <1>5, <2>2, <2>3, <3>2, Zenon
    <2> QED
      BY <1>1, <2>4, <2>5
  <1>8. CASE pc[p] = "DeleteRoute"
    <2>1. execute(pc[p]) /\ pc' = [pc EXCEPT ![p] = "ok"] /\ tries' = tries
      BY <1>1, <1>3, <1>8 DEF Moves, AfterOp
    <2>2. rules' = rules /\ route' = FALSE
      BY <1>8, <2>1, ExecuteType DEF PbrOp
    <2>3. Iterations' = Iterations
      BY <1>1, <1>8, <2>1 DEF Iterations
    <2> QED
      BY <1>1, <1>2, <1>5, <2>1, <2>2, <2>3
  <1>9. pc[p] # "ok"
    BY DEF Moves, PbrOp
  <1> QED
    BY <1>5, <1>6, <1>7, <1>8, <1>9

\* All invariants hold at the start and are kept.
LEMMA PbrHolds == PbrSpec => [](ConvergeInv /\ LoneInv /\ CleanupInv)
  <1>1. PbrInit => ConvergeInv /\ LoneInv /\ CleanupInv
    <2> SUFFICES ASSUME PbrInit PROVE ConvergeInv /\ LoneInv /\ CleanupInv
      OBVIOUS
    <2>1. PbrTypeOK
      <3>1. 0 \in 0 .. Limit - 1
        OBVIOUS
      <3>2. pc \in [Proc -> PbrOp \cup RequestEnded \cup {"idle"}] /\ tries \in [Proc -> 0 .. Limit - 1]
        BY <3>1 DEF PbrInit
      <3> QED
        BY <3>2, Zenon DEF PbrInit, PbrTypeOK
    <2>2. RouteIsSettled /\ AppliesConverge
      BY DEF PbrInit, RouteIsSettled, AppliesConverge, AllOk
    <2>3. LoneInv
      BY DEF PbrInit, LoneInv
    <2>4. CleanupInv
      <3>1. Iterations = {}
        BY DEF PbrInit, Iterations
      <3>2. Cardinality(Iterations) = 0 /\ rules \in Nat /\ before = rules
        BY <3>1, FS_EmptySet DEF PbrInit
      <3> QED
        BY <3>2 DEF PbrInit, CleanupInv
    <2> QED
      BY <2>1, <2>2, <2>3, <2>4 DEF ConvergeInv
  <1>2. ConvergeInv /\ LoneInv /\ CleanupInv /\ [PbrNext]_pbr_vars =>
            (ConvergeInv /\ LoneInv /\ CleanupInv)'
    <2> SUFFICES ASSUME ConvergeInv, LoneInv, CleanupInv, [PbrNext]_pbr_vars
                 PROVE  ConvergeInv' /\ LoneInv' /\ CleanupInv'
      OBVIOUS
    <2>1. ASSUME NEW p \in Proc, PbrStep(p) PROVE ConvergeInv' /\ LoneInv' /\ CleanupInv'
      BY <2>1, StepMoves, ConvergeStep, LoneStep, CleanupStep DEF ConvergeInv
    <2>2. CASE UNCHANGED pbr_vars
      <3>1. ConvergeInv' /\ LoneInv'
        BY <2>2 DEF pbr_vars, ConvergeInv, PbrTypeOK, RouteIsSettled, AppliesConverge, AllOk, LoneInv, Lone
      <3>2. CleanupInv'
        BY <2>2 DEF pbr_vars, CleanupInv, OnlyCleanups, Iterations
      <3> QED
        BY <3>1, <3>2
    <2> QED
      BY <2>1, <2>2 DEF PbrNext
  <1> QED
    BY <1>1, <1>2, PTL DEF PbrSpec

\* However many applies overlap and delete each other's rule and route, when all have
\* succeeded both are there (run_request).
THEOREM ConvergenceHolds == PbrSpec => []AppliesConverge
  BY PbrHolds, PTL DEF ConvergeInv

\* However many cleanups overlap, when all have succeeded without a refusal the route
\* is gone, and so are all equal rules unless there were more than all loops together
\* have iterations, for every DELETE_RULE_LIMIT (cleanup_request).
THEOREM CompletenessHolds == PbrSpec => []CleanupIsComplete
  <1>1. PbrTypeOK /\ CleanupInv => CleanupIsComplete
    <2> SUFFICES ASSUME PbrTypeOK, CleanupInv, AllOk("Cleanup"), ~refused
                 PROVE  ~route /\ (before <= Limit * Cardinality(Proc) => rules = 0)
      BY DEF CleanupIsComplete
    <2>1. OnlyCleanups
      BY DEF OnlyCleanups, AllOk
    <2>2. ~route
      BY <2>1 DEF CleanupInv, AllOk
    <2>3. rules = 0 \/ Cardinality(Iterations) + rules = before
      BY <2>1 DEF CleanupInv
    <2>4. Cardinality(Iterations) = Limit * Cardinality(Proc) /\ Cardinality(Iterations) \in Nat
      BY IterationsCount DEF AllOk
    <2>5. rules \in Nat /\ before \in Nat
      BY DEF PbrTypeOK
    <2>6. before <= Cardinality(Iterations) => rules = 0
      BY <2>3, <2>4, <2>5
    <2> QED
      BY <2>2, <2>4, <2>6, Zenon
  <1> QED
    BY <1>1, PbrHolds, PTL DEF ConvergeInv

\* A request that runs alone never leaves a rule whose table has no route, wherever it
\* stops, for every deletion limit (run_request, cleanup_request).
THEOREM RouteOrderHolds == PbrSpec => RuleHasRoute
  <1>1. ConvergeInv /\ LoneInv /\ [PbrNext]_pbr_vars =>
          [/\ Cardinality({p \in Proc : pc[p] # "idle"}) <= 1
           /\ ~refused'
           /\ before <= Limit
           /\ rules > 0 => route
           => (rules' > 0 => route')]_pbr_vars
    <2> SUFFICES ASSUME ConvergeInv, LoneInv, NEW p \in Proc, PbrStep(p),
                        Cardinality({q \in Proc : pc[q] # "idle"}) <= 1,
                        ~refused', before <= Limit, rules > 0 => route
                 PROVE  rules' > 0 => route'
      BY DEF PbrNext
    <2>1. PbrTypeOK /\ Moves(p)
      BY StepMoves DEF ConvergeInv
    <2>2. ~refused /\ rules \in 0 .. MaxRules /\ before \in 0 .. MaxRules
      BY <2>1 DEF Moves, PbrTypeOK
    <2>3. CASE UNCHANGED <<rules, route>>
      BY <2>3
    <2>4. CASE pc[p] \in PbrOp /\ execute(pc[p])
      <3>1. Lone(p)
        BY <2>4, AtMostOne DEF PbrOp
      <3>2. CASE pc[p] = "DeleteRule"
        BY <2>1, <2>2, <2>4, <3>2, ExecuteType DEF PbrOp
      <3>3. CASE pc[p] = "DeleteRoute"
        <4>1. rules = 0 \/ rules + Limit <= before
          BY <2>2, <3>1, <3>3, Zenon DEF LoneInv
        <4>2. rules = 0
          BY <2>2, <4>1
        <4> QED
          BY <2>1, <2>4, <3>3, <4>2, ExecuteType DEF PbrOp
      <3>4. CASE pc[p] = "ReplaceRoute"
        BY <2>1, <2>4, <3>4, ExecuteType DEF PbrOp
      <3>5. CASE pc[p] = "AddRule"
        <4>1. route
          BY <3>1, <3>5 DEF LoneInv
        <4> QED
          BY <2>1, <2>4, <3>5, <4>1, ExecuteType DEF PbrOp
      <3> QED
        BY <2>4, <3>2, <3>3, <3>4, <3>5 DEF PbrOp
    <2> QED
      BY <2>1, <2>3, <2>4 DEF Moves, PbrOp
  <1> QED
    BY <1>1, PbrHolds, PTL DEF PbrSpec, RuleHasRoute

=============================================================================
