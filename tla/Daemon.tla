------------------------------- MODULE Daemon -------------------------------
(***************************************************************************)
(* The service type "daemon" (modules/daemon) for one daemon: how its      *)
(* state, its list of T_DAEMON processes and the processes of the system   *)
(* stay together while it is started, looked for by pid file or name,      *)
(* respawned, terminated and killed.                                       *)
(*                                                                         *)
(* Other services, clients and the order of the main loop are arbitrary:   *)
(* anybody may ask for a start or a stop between two callbacks, and the    *)
(* dependencies may be met, fail or not be met yet at every check.  Pids   *)
(* are used again once they are reaped.  As pid 1 initng reaps copies the  *)
(* daemon forked too.  launch() and up_check() never return FAIL.          *)
(***************************************************************************)
EXTENDS Naturals, Sequences

CONSTANTS
    Pids,           \* pids of the system
    NoPid,          \* no pid: -1
    FORKS, PIDFILE, PIDOF, RESPAWN,     \* which entries the service file sets
    FAIL_OK,        \* DAEMON_FAIL_OK
    STOPS_BADLY,    \* DAEMON_STOPS_BADLY
    MaxProcs        \* bound: entries PIDOF may add to the process list

\* The states, without their prefix DAEMON_.  FAIL_START_NONEXIST, FAIL_STOPPING
\* and STOP_DEPS_FAILED are never reached, RESPAWN_RATE_EXCEEDED is overwritten
\* by the handler that sets it.
Is ==
    [STOPPED |-> "DOWN",
     START_MARKED |-> "STARTING", WAITING_FOR_START_DEP |-> "STARTING",
     START_DEPS_MET |-> "STARTING", LAUNCH |-> "STARTING",
     WAIT_FOR_PID_FILE |-> "STARTING", WAIT_RESP_TOUT |-> "STARTING",
     RUNNING |-> "UP",
     STOP_MARKED |-> "STOPPING", WAITING_FOR_STOP_DEP |-> "STOPPING",
     STOP_DEPS_MET |-> "STOPPING", TERM |-> "STOPPING", KILL |-> "STOPPING",
     START_DEPS_FAILED |-> "FAILED", FAIL_START_RCODE |-> "FAILED",
     FAIL_START_SIGNAL |-> "FAILED", FAIL_START_LAUNCH |-> "FAILED",
     FAIL_START_TIMEOUT_PIDFILE |-> "FAILED", UP_CHECK_FAILED |-> "FAILED",
     REQ_NOT_FOUND |-> "FAILED"]

\* A process the daemon's launch led to: as launched, a launched one that has
\* forked its copy, such a copy, one that waits to be reaped.
Running == {"main", "parent", "copy"}
ProcessStates == Running \cup {"none", "zombie"}

ASSUME DaemonAssumption ==
    /\ NoPid \notin Pids
    /\ MaxProcs \in Nat
    /\ FORKS \in BOOLEAN /\ PIDFILE \in BOOLEAN /\ PIDOF \in BOOLEAN
    /\ RESPAWN \in BOOLEAN /\ FAIL_OK \in BOOLEAN /\ STOPS_BADLY \in BOOLEAN

VARIABLES
    state,      \* current_state
    queued,     \* the daemon is in the interrupt list
    alarm,      \* its alarm is set
    recent,     \* INTERNAL_LAST_RESPAWN is less than RESPAWN_RATE ago
    procs,      \* pids of its active T_DAEMON processes, in list order
    os,         \* what runs on the system
    killed,     \* processes that were sent SIGKILL
    pidfile,    \* what the pid file says
    sys         \* g.sys_state: "up" for STATE_STARTING and STATE_UP

mark == <<state, queued, alarm>>
system == <<os, killed, pidfile>>
vars == <<state, queued, alarm, recent, procs, os, killed, pidfile, sys>>

Init ==
    /\ state = "STOPPED" /\ queued = FALSE /\ alarm = FALSE /\ recent = FALSE
    /\ procs = <<>>
    /\ os = [p \in Pids |-> "none"] /\ killed = {} /\ pidfile = NoPid
    /\ sys = "up"

-----------------------------------------------------------------------------
\* initng_common_mark_service of the unlocked daemon.
Mark(st) ==
    IF state = st THEN UNCHANGED mark
    ELSE state' = st /\ queued' = TRUE /\ alarm' = FALSE

\* initng_handler_start_service: start_deps may find that a required service is
\* missing; then start_DAEMON.
Start ==
    /\ sys = "up" /\ Is[state] \in {"DOWN", "STOPPING"}
    /\ \/ Mark(IF state = "WAITING_FOR_STOP_DEP" THEN "RUNNING" ELSE "START_MARKED")
       \/ Mark("REQ_NOT_FOUND")
    /\ UNCHANGED <<recent, procs, system, sys>>

\* initng_handler_stop_service and stop_DAEMON.
StopService ==
    IF Is[state] \in {"UP", "STARTING"}
      THEN Mark(IF state = "WAITING_FOR_START_DEP" THEN "STOPPED" ELSE "STOP_MARKED")
      ELSE UNCHANGED mark

Stop ==
    /\ Is[state] \in {"UP", "STARTING"}
    /\ StopService
    /\ UNCHANGED <<recent, procs, system, sys>>

\* initng_handler_stop_all.
StopAll ==
    /\ sys = "up" /\ sys' = "stopping"
    /\ StopService
    /\ UNCHANGED <<recent, procs, system>>

-----------------------------------------------------------------------------
\* handle() takes the daemon from the interrupt list and calls the init callback
\* of its state st, if it has one.
InitCallback(st) == queued /\ state = st

InitStartMarked ==
    /\ InitCallback("START_MARKED")
    /\ Mark("WAITING_FOR_START_DEP")
    /\ UNCHANGED <<recent, procs, system, sys>>

InitStopMarked ==
    /\ InitCallback("STOP_MARKED")
    /\ Mark("WAITING_FOR_STOP_DEP")
    /\ UNCHANGED <<recent, procs, system, sys>>

\* Where init_DAEMON_START_DEPS_MET leaves a daemon it has launched.
LaunchedState ==
    IF PIDFILE \/ PIDOF THEN "WAIT_FOR_PID_FILE" ELSE IF FORKS THEN "LAUNCH" ELSE "RUNNING"

\* A wrong version: launch() does not look for an active process.
InitStartDepsMetTwice ==
    /\ InitCallback("START_DEPS_MET")
    /\ \E p \in Pids :
         /\ os[p] = "none" /\ Len(procs) < 2
         /\ procs' = Append(procs, p)
         /\ os' = [os EXCEPT ![p] = "main"]
    /\ Mark(LaunchedState)
    /\ UNCHANGED <<recent, killed, pidfile, sys>>

\* With PIDOF a process of that name is taken over; else the daemon is launched,
\* which needs that no T_DAEMON process is active and something to run.
InitStartDepsMet ==
    /\ InitCallback("START_DEPS_MET")
    /\ pidfile' = IF PIDFILE THEN NoPid ELSE pidfile
    /\ \/ \E p \in Pids :
            /\ PIDOF /\ os[p] # "none" /\ Len(procs) < MaxProcs
            /\ procs' = Append(procs, p)
            /\ Mark("RUNNING")
            /\ UNCHANGED os
       \/ \E p \in Pids :
            /\ procs = <<>> /\ os[p] = "none"
            /\ procs' = <<p>>
            /\ os' = [os EXCEPT ![p] = "main"]
            /\ Mark(LaunchedState)
       \/ Mark("FAIL_START_LAUNCH") /\ UNCHANGED <<procs, os>>
    /\ UNCHANGED <<recent, killed, sys>>

\* SIGTERM (or the "kill" script) goes to the first T_DAEMON process; without one
\* the daemon stays where it is.
InitStopDepsMet ==
    /\ InitCallback("STOP_DEPS_MET")
    /\ IF procs = <<>> THEN queued' = FALSE /\ UNCHANGED <<state, alarm>>
       ELSE Mark(IF os[Head(procs)] = "none" THEN "STOPPED" ELSE "TERM")
    /\ UNCHANGED <<recent, procs, system, sys>>

\* A wrong version: states whose init sets no alarm.
WaitsNoRespawn == {"WAIT_FOR_PID_FILE", "TERM", "KILL"}
WaitsNoTerm == {"WAIT_FOR_PID_FILE", "WAIT_RESP_TOUT", "KILL"}

Waits == {"WAIT_FOR_PID_FILE", "WAIT_RESP_TOUT", "TERM", "KILL"}

\* init_ of the states that wait for a time, and of the states without one.
InitOther ==
    /\ queued /\ state \notin {"START_MARKED", "STOP_MARKED", "START_DEPS_MET", "STOP_DEPS_MET"}
    /\ queued' = FALSE
    /\ alarm' = (alarm \/ state \in Waits)
    /\ UNCHANGED <<state, recent, procs, system, sys>>

Handle == InitStartMarked \/ InitStopMarked \/ InitStartDepsMet \/ InitStopDepsMet \/ InitOther

\* handle_DAEMON_WAITING_FOR_START_DEP when start_dep_met is TRUE or FAIL.
WaitingForStartDep ==
    /\ state = "WAITING_FOR_START_DEP"
    /\ \/ Mark("START_DEPS_FAILED")
       \/ Mark(IF sys = "up" THEN "START_DEPS_MET" ELSE "STOPPED")
    /\ UNCHANGED <<recent, procs, system, sys>>

\* handle_DAEMON_WAITING_FOR_STOP_DEP when stop_dep_met is TRUE.
WaitingForStopDep ==
    /\ state = "WAITING_FOR_STOP_DEP"
    /\ Mark("STOP_DEPS_MET")
    /\ UNCHANGED <<recent, procs, system, sys>>

-----------------------------------------------------------------------------
\* What try_get_pid finds on a system s: a process of the name (once it bears it),
\* or the one the pid file names if it exists.
FindsPid(s, p) == s[p] # "none" /\ (PIDOF \/ (PIDFILE /\ pidfile = p))
MayFindNone(s) == PIDOF \/ \A p \in Pids : ~FindsPid(s, p)

\* try_get_pid when it finds p.
GotPid(p) ==
    IF procs = <<>> THEN Mark("UP_CHECK_FAILED") /\ UNCHANGED procs
    ELSE /\ procs' = IF FORKS THEN [procs EXCEPT ![1] = p] ELSE procs
         /\ Mark("RUNNING")

\* timeout_DAEMON_WAIT_FOR_PID_FILE before PID_TIMEOUT: look again in a second.
TimeoutWaitForPidFile ==
    /\ alarm /\ state = "WAIT_FOR_PID_FILE"
    /\ \/ \E p \in Pids : FindsPid(os, p) /\ GotPid(p)
       \/ MayFindNone(os) /\ UNCHANGED <<mark, procs>>
    /\ UNCHANGED <<recent, system, sys>>

\* kill_daemon(SIGKILL): a process that does not exist is freed instead.
KillDaemon ==
    IF procs = <<>> THEN UNCHANGED <<procs, killed>>
    ELSE IF os[Head(procs)] = "none" THEN procs' = Tail(procs) /\ UNCHANGED killed
    ELSE killed' = killed \cup {Head(procs)} /\ UNCHANGED procs

\* A wrong version: the process is freed and not killed.
TimeoutPidTimeoutFrees ==
    /\ alarm /\ state = "WAIT_FOR_PID_FILE"
    /\ Mark("FAIL_START_TIMEOUT_PIDFILE")
    /\ procs' = <<>>
    /\ UNCHANGED <<recent, killed, os, pidfile, sys>>

\* timeout_DAEMON_WAIT_FOR_PID_FILE after PID_TIMEOUT: kill the daemon and free
\* the first process that is left.
TimeoutPidTimeout ==
    /\ alarm /\ state = "WAIT_FOR_PID_FILE"
    /\ Mark("FAIL_START_TIMEOUT_PIDFILE")
    /\ LET head == IF procs # <<>> /\ os[Head(procs)] = "none" THEN Tail(procs) ELSE procs
       IN procs' = IF head = <<>> THEN head ELSE Tail(head)
    /\ killed' = IF procs # <<>> /\ os[Head(procs)] # "none" THEN killed \cup {Head(procs)} ELSE killed
    /\ UNCHANGED <<recent, os, pidfile, sys>>

\* timeout_DAEMON_WAIT_RESP_TOUT: marked STOPPED, then start_service.
TimeoutWaitRespTout ==
    /\ alarm /\ state = "WAIT_RESP_TOUT"
    /\ \/ sys = "up" /\ (Mark("START_MARKED") \/ Mark("REQ_NOT_FOUND"))
       \/ sys # "up" /\ Mark("STOPPED")
    /\ UNCHANGED <<recent, procs, system, sys>>

\* A wrong version: the daemon is given up and taken for stopped.
TimeoutTermGivesUp ==
    /\ alarm /\ state = "TERM"
    /\ Mark("STOPPED")
    /\ UNCHANGED <<recent, procs, system, sys>>

\* timeout_DAEMON_TERM.
TimeoutTerm ==
    /\ alarm /\ state = "TERM"
    /\ KillDaemon
    /\ Mark("KILL")
    /\ UNCHANGED <<recent, os, pidfile, sys>>

\* timeout_DAEMON_KILL, again and again.
TimeoutKill ==
    /\ alarm /\ state = "KILL"
    /\ KillDaemon
    /\ UNCHANGED <<mark, recent, os, pidfile, sys>>

RunAlarm ==
    \/ TimeoutWaitForPidFile \/ TimeoutPidTimeout \/ TimeoutWaitRespTout
    \/ TimeoutTerm \/ TimeoutKill

-----------------------------------------------------------------------------
\* procs without the first process of pid p.
Freed(p) ==
    LET i == CHOOSE j \in 1..Len(procs) : procs[j] = p /\ \A k \in 1..(j - 1) : procs[k] # p
    IN [j \in 1..(Len(procs) - 1) |-> IF j < i THEN procs[j] ELSE procs[j + 1]]

\* The end of handle_killed_daemon: by return code.
KilledState(how) ==
    CASE how = "segv" -> "FAIL_START_SIGNAL"
      [] how \in {"exit0", "signal"} -> "STOPPED"
      [] how = "exit1" -> IF FAIL_OK \/ (Is[state] = "STOPPING" /\ STOPS_BADLY)
                            THEN "STOPPED" ELSE "FAIL_START_RCODE"

\* check_respawn is TRUE.
CheckRespawn == state = "RUNNING" /\ RESPAWN /\ ~recent

\* handle_killed_daemon for the process p that has just been reaped; s is the
\* system without it.
HandleKilledDaemon(p, s) ==
    \/ /\ state = "WAIT_FOR_PID_FILE" /\ FORKS
       /\ \/ \E q \in Pids : FindsPid(s, q) /\ GotPid(q)
          \/ MayFindNone(s) /\ UNCHANGED <<mark, procs>>
       /\ UNCHANGED recent
    \/ /\ ~(state = "WAIT_FOR_PID_FILE" /\ FORKS)
       /\ procs' = Freed(p)
       /\ IF CheckRespawn
            THEN Mark("WAIT_RESP_TOUT") /\ recent' = TRUE
            ELSE /\ \E how \in {"segv", "exit0", "signal", "exit1"} : Mark(KilledState(how))
                 /\ UNCHANGED recent

\* initng_signal_handle_sigchild and initng_kill_handler_killed_by_pid.
Reap(p) ==
    /\ os[p] = "zombie"
    /\ os' = [os EXCEPT ![p] = "none"]
    /\ killed' = killed \ {p}
    /\ IF \E i \in 1..Len(procs) : procs[i] = p
         THEN HandleKilledDaemon(p, os')
         ELSE UNCHANGED <<mark, recent, procs>>
    /\ UNCHANGED <<pidfile, sys>>

-----------------------------------------------------------------------------
\* The daemon: it forks its copy, writes its pid file, ends.
Fork(p, q) ==
    /\ FORKS /\ os[p] = "main" /\ os[q] = "none"
    /\ os' = [os EXCEPT ![p] = "parent", ![q] = "copy"]
    /\ UNCHANGED <<mark, recent, procs, killed, pidfile, sys>>

WritePidFile(p) ==
    /\ PIDFILE /\ os[p] = (IF FORKS THEN "copy" ELSE "main")
    /\ pidfile' = p
    /\ UNCHANGED <<mark, recent, procs, os, killed, sys>>

Exit(p) ==
    /\ os[p] \in Running
    /\ os' = [os EXCEPT ![p] = "zombie"]
    /\ UNCHANGED <<mark, recent, procs, killed, pidfile, sys>>

\* RESPAWN_RATE seconds pass.
TimePasses ==
    /\ recent /\ recent' = FALSE
    /\ UNCHANGED <<mark, procs, system, sys>>

Next ==
    \/ Start \/ Stop \/ StopAll
    \/ Handle \/ WaitingForStartDep \/ WaitingForStopDep
    \/ RunAlarm
    \/ \E p \in Pids : Reap(p) \/ WritePidFile(p) \/ Exit(p)
    \/ \E p, q \in Pids : Fork(p, q)
    \/ TimePasses

Spec == Init /\ [][Next]_vars

\* The loop handles its lists, alarms ring, children are reaped and SIGKILL ends
\* a process.
Fairness ==
    /\ WF_vars(Handle) /\ WF_vars(TimeoutTerm) /\ WF_vars(TimeoutWaitRespTout)
    /\ \A p \in Pids : WF_vars(Reap(p)) /\ WF_vars(p \in killed /\ Exit(p))

FairSpec == Spec /\ Fairness

-----------------------------------------------------------------------------
\* Every variable keeps its type.
TypeOK ==
    /\ state \in DOMAIN Is
    /\ queued \in BOOLEAN /\ alarm \in BOOLEAN /\ recent \in BOOLEAN
    /\ procs \in Seq(Pids)
    /\ os \in [Pids -> ProcessStates]
    /\ killed \subseteq Pids
    /\ pidfile \in Pids \cup {NoPid}
    /\ sys \in {"up", "stopping"}

\* There is never a second daemon: of one that does not fork at most one process
\* runs that was not sent SIGKILL, however starts, stops, respawns, timeouts and
\* deaths fall together.
Alive(p) == os[p] \in Running /\ p \notin killed
NeverTwo == ~FORKS => \A p, q \in Pids : Alive(p) /\ Alive(q) => p = q

\* A daemon that does not fork is never forgotten: while it runs it is in the
\* process list, so that its death is noticed and a stop reaches it.
NeverForgotten == ~FORKS => \A p \in Pids : Alive(p) => \E i \in 1..Len(procs) : procs[i] = p

\* Without PIDOF a process list holds one process at most, and that of a daemon
\* that does not fork exists: no death goes unnoticed.
ListExists ==
    ~PIDOF => /\ Len(procs) <= 1
              /\ ~FORKS => \A i \in 1..Len(procs) : os[procs[i]] # "none"

\* What those rest on: a daemon that waits for its pid has one process at most, so
\* that the timeout does not free one it has not killed.
OneWhileWaiting == state = "WAIT_FOR_PID_FILE" => Len(procs) <= 1

\* The inductive invariant of the daemon's processes.
IInv == TypeOK /\ NeverTwo /\ NeverForgotten /\ ListExists /\ OneWhileWaiting

\* What the daemon shows to the rest of initng and to the system.
Promise == INSTANCE Supervisor WITH is <- Is[state], live <- {p \in Pids : Alive(p)}

\* A daemon that does not fork and is not looked for by name implements the
\* supervisor: it is launched only while starting and with nothing of it running,
\* and goes down by itself only when its process is gone, whichever of the twenty
\* states the requests, timeouts and deaths take it through.
Supervised == Promise!Spec

\* A stop that has begun to terminate the daemon ends, by SIGKILL if need be.
KillEnds == state \in {"TERM", "KILL"} ~> state \notin {"TERM", "KILL"}

\* A respawn happens or is given up on request.
RespawnEnds == state = "WAIT_RESP_TOUT" ~> state # "WAIT_RESP_TOUT"

-----------------------------------------------------------------------------
(* What descriptions say, and the code does not do.                          *)

\* "This daemon has been stopped.", DAEMON_STOPPED.
StoppedIsStopped == state = "STOPPED" => \A p \in Pids : ~Alive(p)

\* "This daemon has been respawned too many times, and will be disabled.",
\* DAEMON_RESPAWN_RATE_EXCEEDED: one that ends too soon after a respawn fails.
RateExceededDisables ==
    [][state = "RUNNING" /\ RESPAWN /\ recent /\ Len(procs') < Len(procs)
            => Is[state'] = "FAILED"]_vars
=============================================================================
