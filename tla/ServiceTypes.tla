---------------------------- MODULE ServiceTypes ----------------------------
(***************************************************************************)
(* The callbacks of the service types "service" (modules/service) and      *)
(* "runlevel" (modules/runlevel): what a state's init, interrupt and alarm *)
(* functions do, and the kill handlers of the start, stop and parse        *)
(* processes.  `found` says whether a launcher takes the process.          *)
(***************************************************************************)
EXTENDS Hooks

\* How a child ends, as the kill handlers tell it apart: exit status 0, another
\* status, SIGSEGV, another signal (WEXITSTATUS is 0 then).
Outcomes == {"exit0", "exit1", "segv", "signal"}

\* init_SERVICE_START_MARKED.
InitStartMarked(w, s) ==
    LET r == StartDeps(w, s)
    IN Mark(r.w, s, IF r.ok THEN "WAITING_FOR_START_DEP" ELSE "START_DEPS_FAILED")

\* init_SERVICE_STOP_MARKED.
InitStopMarked(w, s) == Mark(StopDeps(w, s), s, "WAITING_FOR_STOP_DEP")

\* init_SERVICE_START_DEPS_MET.
InitStartDepsMet(w, s, found) ==
    LET v == Mark(w, s, "START_RUN")
    IN IF CanLaunch(v, s, "start") /\ found THEN Launched(v, s, "start")
       ELSE Mark(v, s, "FAIL_START_NONEXIST")

\* init_SERVICE_STOP_DEPS_MET.
InitStopDepsMet(w, s, found) ==
    LET v == Mark(w, s, "STOP_RUN")
    IN IF CanLaunch(v, s, "stop") /\ found THEN Launched(v, s, "stop")
       ELSE Mark(v, s, "STOPPED")

\* init_SERVICE_START_RUN and init_SERVICE_STOP_RUN without NEVER_KILL.
InitRun(w, s) == [w EXCEPT !.alarm = @ \cup {s}]

\* handle_SERVICE_WAITING_FOR_START_DEP.
HandleWaitingForStartDep(w, s) ==
    LET r == StartDepMet(w, s)
    IN CASE r.res = "FALSE" -> r.w
         [] r.res = "FAIL" -> Mark(r.w, s, "START_DEPS_FAILED")
         [] r.res = "TRUE" ->
              Mark(r.w, s, IF r.w.sys \in {"STARTING", "UP"} THEN "START_DEPS_MET" ELSE "STOPPED")

\* handle_SERVICE_WAITING_FOR_STOP_DEP.
HandleWaitingForStopDep(w, s) ==
    LET r == StopDepMet(w, s)
    IN IF r.ok THEN Mark(r.w, s, "STOP_DEPS_MET") ELSE r.w

\* A wrong version: the state is not compared with START_RUN.
KilledStartAnyState(w, s, how) ==
    Mark(FreeProcess(w, s, "start"), s, IF how = "exit1" THEN "FAIL_START_RCODE" ELSE "DONE")

\* handle_killed_start.
KilledStart(w, s, how) ==
    LET v == FreeProcess(w, s, "start")
    IN IF w.st[s] # "START_RUN" THEN v
       ELSE Mark(v, s, CASE how = "segv" -> "FAIL_START_SIGNAL"
                         [] how = "exit1" -> "FAIL_START_RCODE"
                         [] OTHER -> "DONE")

\* A wrong version: an error status marks nothing.
KilledStopForgets(w, s, how) ==
    LET v == FreeProcess(w, s, "stop")
    IN IF w.st[s] # "STOP_RUN" \/ how = "exit1" THEN v ELSE Mark(v, s, "STOPPED")

\* handle_killed_stop.
KilledStop(w, s, how) ==
    LET v == FreeProcess(w, s, "stop")
    IN IF w.st[s] # "STOP_RUN" THEN v
       ELSE Mark(v, s, CASE how = "segv" -> "FAIL_STOP_SIGNAL"
                         [] how = "exit1" -> "FAIL_STOP_RCODE"
                         [] OTHER -> "STOPPED")

\* timeout_SERVICE_START_RUN: SIGKILL for the start process, which is reaped
\* later.  A listed process has not been reaped, so that it exists on the system.
TimeoutStartRun(w, s) ==
    IF "start" \in w.procs[s] THEN Mark(w, s, "START_FAILED_TIMEOUT") ELSE w

\* timeout_SERVICE_STOP_RUN.
TimeoutStopRun(w, s) ==
    IF "stop" \in w.procs[s] THEN Mark(w, s, "STOP_FAILED_TIMEOUT") ELSE w

-----------------------------------------------------------------------------
Needs(s) == {Deps[s][i].on : i \in {j \in DOMAIN Deps[s] : Deps[s][j].kind = "NEED"}}

\* runlevel_find_old: the first other runlevel of the active_db.
FindOld(w, s) ==
    LET old == {i \in DOMAIN w.db : w.db[i] # s /\ w.db[i] \in w.typed
                                    /\ Type[w.db[i]] = "runlevel"}
    IN IF old = {} THEN None ELSE w.db[CHOOSE i \in old : \A j \in old : i <= j]

\* runlevel_stop_unneeded.
StopUnneeded(w, old, new) ==
    LET stop(v, d) == IF d.kind = "NEED" /\ d.on \notin Needs(new) /\ InDb(v, d.on)
                        THEN StopService(v, d.on) ELSE v
    IN FoldLeft(stop, w, Deps[old])

\* init_RUNLEVEL_START_MARKED.
InitRunlevelStartMarked(w, s) ==
    LET v == StartDeps(w, s).w
        old == FindOld(v, s)
        u == IF old = None THEN v ELSE StopService(StopUnneeded(v, old, s), old)
    IN Mark(u, s, "RUNLEVEL_WAITING_FOR_START_DEP")

\* init_RUNLEVEL_STOP_MARKED.
InitRunlevelStopMarked(w, s) == Mark(StopDeps(w, s), s, "RUNLEVEL_WAITING_FOR_STOP_DEP")

\* handle_RUNLEVEL_WAITING_FOR_START_DEP.
HandleRunlevelWaitingForStartDep(w, s) ==
    LET r == StartDepMet(w, s)
    IN CASE r.res = "FALSE" -> r.w
         [] r.res = "FAIL" -> Mark(r.w, s, "RUNLEVEL_START_DEPS_FAILED")
         [] r.res = "TRUE" -> Mark(r.w, s, "RUNLEVEL_UP")

\* handle_RUNLEVEL_WAITING_FOR_STOP_DEP.
HandleRunlevelWaitingForStopDep(w, s) ==
    LET r == StopDepMet(w, s)
    IN IF r.ok THEN Mark(r.w, s, "RUNLEVEL_DOWN") ELSE r.w

-----------------------------------------------------------------------------
\* current_state->init of service s.
InitCallback(w, s, found) ==
    CASE w.st[s] = "START_MARKED" -> InitStartMarked(w, s)
      [] w.st[s] = "STOP_MARKED" -> InitStopMarked(w, s)
      [] w.st[s] = "START_DEPS_MET" -> InitStartDepsMet(w, s, found)
      [] w.st[s] = "STOP_DEPS_MET" -> InitStopDepsMet(w, s, found)
      [] w.st[s] \in {"START_RUN", "STOP_RUN"} -> InitRun(w, s)
      [] w.st[s] = "RUNLEVEL_START_MARKED" -> InitRunlevelStartMarked(w, s)
      [] w.st[s] = "RUNLEVEL_STOP_MARKED" -> InitRunlevelStopMarked(w, s)
      [] OTHER -> w

\* A wrong version: WAITING_FOR_STOP_DEP has no interrupt callback.
InterruptCallbackNoStop(w, s) ==
    CASE w.st[s] = "WAITING_FOR_START_DEP" -> HandleWaitingForStartDep(w, s)
      [] w.st[s] = "RUNLEVEL_WAITING_FOR_START_DEP" -> HandleRunlevelWaitingForStartDep(w, s)
      [] OTHER -> w

\* current_state->interrupt of service s.
InterruptCallback(w, s) ==
    CASE w.st[s] = "WAITING_FOR_START_DEP" -> HandleWaitingForStartDep(w, s)
      [] w.st[s] = "WAITING_FOR_STOP_DEP" -> HandleWaitingForStopDep(w, s)
      [] w.st[s] = "RUNLEVEL_WAITING_FOR_START_DEP" -> HandleRunlevelWaitingForStartDep(w, s)
      [] w.st[s] = "RUNLEVEL_WAITING_FOR_STOP_DEP" -> HandleRunlevelWaitingForStopDep(w, s)
      [] OTHER -> w

\* current_state->alarm of service s.
AlarmCallback(w, s) ==
    CASE w.st[s] = "START_RUN" -> TimeoutStartRun(w, s)
      [] w.st[s] = "STOP_RUN" -> TimeoutStopRun(w, s)
      [] OTHER -> w

\* bp_new_active: the script being parsed names the type of its service.
ParseNewActive(w, s) == [w EXCEPT !.typed = @ \cup {s}]

\* bp_done: it has given all data.
ParseDone(w, s) == StartService(Mark(w, s, "REDY_FOR_START"), s).w

\* service_file's handle_killed for the process that parses the script.
KilledParse(w, s, how) ==
    LET v == FreeProcess(w, s, "parse")
    IN IF how = "exit1" \/ s \notin w.typed
         THEN Mark(v, s, "PARSE_FAIL")
         ELSE StartService(v, s).w

\* process->pt->kill_handler.
KillHandler(w, s, pt, how) ==
    CASE pt = "start" -> KilledStart(w, s, how)
      [] pt = "stop" -> KilledStop(w, s, how)
      [] pt = "parse" -> KilledParse(w, s, how)
=============================================================================
