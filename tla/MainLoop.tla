------------------------------ MODULE MainLoop ------------------------------
(***************************************************************************)
(* The main loop of frontend/main.c over the world of ActiveDb.  One round *)
(* runs due alarms, reaps children, quits when no service is left, cleans  *)
(* old entries, handles the interrupt list (interrupt/*.c) and walks the   *)
(* interrupt callbacks; when nothing was handled it polls, and only there  *)
(* commands and messages of parsed scripts come in.  Children run beside   *)
(* it and may end at any time.                                             *)
(***************************************************************************)
EXTENDS ServiceTypes

CONSTANTS
    Boot,           \* g.runlevel
    StartTargets,   \* what clients ask to start,
    StopTargets,    \* to stop
    RestartTargets, \* to restart
    ZapTargets,     \* and to free
    CanHalt,        \* whether stop_all may be ordered
    Endings,        \* outcomes of children
    Founds,         \* whether launches may find nothing to run
    Timeouts,       \* whether alarms fire
    Scripts,        \* how scripts being parsed may end
    Linger,         \* whether they may stay when they are done
    Clean,          \* whether clean_down frees services
    Files,          \* files that may come to exist
    MaxCommands     \* bound: commands sent by clients

\* A script being parsed says that it is done and then exits with 0 (good) or
\* not (late), or exits with 0 (silent) or not (failing) without saying so.
ScriptEndings == {"good", "late", "silent", "failing"}

ASSUME CommandsAssumption ==
    /\ Boot \in Names
    /\ StartTargets \subseteq Names /\ StopTargets \subseteq Names /\ RestartTargets \subseteq Names /\ ZapTargets \subseteq Names
    /\ Endings \subseteq Outcomes /\ Scripts \subseteq ScriptEndings /\ Founds \subseteq BOOLEAN
    /\ MaxCommands \in Nat

VARIABLES
    world,      \* the program's memory
    at,         \* where the loop stands
    commands    \* commands so far

PTypes == {"parse", "start", "stop"}
Places == {"top", "signals", "interrupt", "pass", "walk", "poll", "out"}
vars == <<world, at, commands>>

\* initng_handler_start_new_service_named(g.runlevel) before the loop.
Init ==
    /\ world = StartNewServiceNamed(EmptyWorld, Boot).w
    /\ at = "top" /\ commands = 0

-----------------------------------------------------------------------------
\* A wrong version: a system that is going down is set up.
CheckSysStateUpAlways(w) ==
    IF \A s \in Range(w.db) : IsState(w, s) # "STARTING" THEN [w EXCEPT !.sys = "UP"] ELSE w

\* check_sys_state_up.
CheckSysStateUp(w) ==
    IF w.sys = "STARTING" /\ \A s \in Range(w.db) : IsState(w, s) # "STARTING"
      THEN [w EXCEPT !.sys = "UP"] ELSE w

\* A wrong version: a service that failed does not end the boot.
IsChangedUpOnly(w, s) ==
    CASE IsState(w, s) = "UP" -> CheckSysStateUp(w)
      [] IsState(w, s) = "DOWN" /\ s \in w.restarting -> RestartRestarting(w)
      [] OTHER -> w

\* The switch of handle() after EVENT_IS_CHANGE.
IsChanged(w, s) ==
    CASE IsState(w, s) \in {"FAILED", "UP"} -> CheckSysStateUp(w)
      [] IsState(w, s) = "DOWN" /\ s \in w.restarting -> RestartRestarting(w)
      [] OTHER -> w

\* handle().  The hooks of EVENT_STATE_CHANGE mark nothing; when one of
\* EVENT_IS_CHANGE did, the state marked becomes current at the unlock and will
\* be handled in its turn.
Handle(w, s, found) ==
    LET v == Unlock(Lock(w, s), s)
        e == Unlock(IsChangeEvent(Lock(v, s), s), s)
    IN IF v.rough[s] = IsState(v, s) THEN InitCallback(v, s, found)
       ELSE IF e.st[s] # v.st[s] THEN e
       ELSE InitCallback(IsChanged(e, s), s, found)

\* initng_handler_run_alarm for the alarms that are due.
RunAlarm ==
    /\ at = "top"
    /\ \E due \in SUBSET (IF Timeouts THEN world.alarm ELSE {}) :
         LET ring(w, s) == IF s \in due /\ s \in w.alarm
                             THEN AlarmCallback([w EXCEPT !.alarm = @ \ {s}], s) ELSE w
         IN world' = FoldLeft(ring, world, world.db)
    /\ at' = "signals"
    /\ UNCHANGED commands

ScriptEnding(w, s, how) ==
    IF w.st[s] = "PARSING_FOR_START"
      THEN IF how = "exit1" THEN "failing" ELSE "silent"
      ELSE IF how = "exit1" THEN "late" ELSE "good"

\* initng_signal_dispatch: waitpid() returns a child of s and the kill handler
\* runs.
Reap(s, pt) ==
    /\ at = "signals"
    /\ pt \in world.procs[s]
    /\ \E how \in Endings :
         /\ pt = "parse" => ScriptEnding(world, s, how) \in Scripts
         /\ world' = KillHandler(world, s, pt, how)
    /\ UNCHANGED <<at, commands>>

\* Unless scripts linger, one that said it is done is reaped in the next round.
AllReaped == Linger \/ \A s \in Names : "parse" \in world.procs[s] => world.st[s] = "PARSING_FOR_START"

\* initng_main_ready_to_quit and initng_main_when_out.
Quit ==
    /\ at = "signals" /\ AllReaped
    /\ \A s \in Range(world.db) : IsState(world, s) \in {"FAILED", "DOWN"}
    /\ world' = [world EXCEPT !.sys = "ASE"]
    /\ at' = "out"
    /\ UNCHANGED commands

\* initng_active_db_clean_down frees services that have been down for a minute.
\* Time passes in poll, so that any of those that were down there may be due.
CleanDown ==
    /\ at = "signals" /\ AllReaped
    /\ \E s \in Range(world.db) : IsState(world, s) \notin {"FAILED", "DOWN"}
    /\ \E due \in SUBSET world.old :
         world' = FoldLeft(LAMBDA w, s : IF s \in due THEN FreeActive(w, s) ELSE w, world, world.db)
    /\ at' = "interrupt"
    /\ UNCHANGED commands

\* One round of the loop of initng_interrupt().
HandleNext ==
    /\ at \in {"interrupt", "pass"} /\ world.queue # <<>>
    /\ \E found \in Founds :
         world' = Handle([world EXCEPT !.queue = Tail(@)], Head(world.queue), found)
    /\ at' = CASE world'.sys = "SEGFAULT" -> "out"
               [] world'.sys # "SEGFAULT" /\ Tail(world.queue) # <<>> -> "pass"
               [] world'.sys # "SEGFAULT" /\ Tail(world.queue) = <<>> -> "walk"
    /\ UNCHANGED commands

\* run_interrupt_handlers().
RunInterruptHandlers ==
    /\ at = "walk"
    /\ world' = FoldLeft(InterruptCallback, world, world.db)
    /\ at' = "top"
    /\ UNCHANGED commands

\* Nothing was handled: initng_io_module_poll sleeps until something comes in.
Poll ==
    /\ at = "interrupt" /\ world.queue = <<>>
    /\ at' = "poll"
    /\ UNCHANGED <<world, commands>>

PollDone ==
    /\ at = "poll"
    /\ world' = [world EXCEPT !.old = {s \in Range(world.db) :
                    Clean /\ IsState(world, s) = "DOWN" /\ ~Contains(world.queue, s)}]
    /\ at' = "top"
    /\ UNCHANGED commands

\* Messages of a script being parsed, read in poll: bp_new_active and bp_done.
ScriptNewActive(s) ==
    /\ at = "poll"
    /\ world.st[s] = "PARSING_FOR_START" /\ "parse" \in world.procs[s] /\ s \notin world.typed
    /\ world' = ParseNewActive(world, s)
    /\ UNCHANGED <<at, commands>>

ScriptDone(s) ==
    /\ at = "poll"
    /\ world.st[s] = "PARSING_FOR_START" /\ "parse" \in world.procs[s] /\ s \in world.typed
    /\ world' = ParseDone(world, s)
    /\ UNCHANGED <<at, commands>>

\* A file the modules look for is created while the loop polls.
FileAppears(f) ==
    /\ at = "poll" /\ f \notin world.files
    /\ world' = [world EXCEPT !.files = @ \cup {f}]
    /\ UNCHANGED <<at, commands>>

\* A client's command, read in poll.
Command(w) ==
    /\ at = "poll" /\ commands < MaxCommands
    /\ world' = w
    /\ commands' = commands + 1
    /\ UNCHANGED at

\* cmd_start of ngc4 and ngcs: only a service that is not in the active_db goes
\* through start_new_service_named.
StartCommand ==
    \E s \in StartTargets :
        Command(IF ~InDb(world, s) THEN StartNewServiceNamed(world, s).w
                ELSE IF IsState(world, s) # "UP" THEN StartService(world, s).w ELSE world)

\* cmd_stop, and cmd_restart, cmd_free_service ("zap") and cmd_initng_halt of stcmd.
StopCommand == \E s \in StopTargets : InDb(world, s) /\ Command(StopService(world, s))
RestartCommand == \E s \in RestartTargets : InDb(world, s) /\ Command(RestartService(world, s))
ZapCommand ==
    \E s \in ZapTargets :
        LET zap(w, x) == IF IsState(w, x) = "FAILED" THEN FreeActive(w, x) ELSE w
        IN Command(IF InDb(world, s) THEN FreeActive(world, s) ELSE FoldLeft(zap, world, world.db))
HaltCommand == CanHalt /\ Command(StopAll(world))

Loop == RunAlarm \/ CleanDown \/ Quit \/ HandleNext \/ RunInterruptHandlers \/ Poll \/ PollDone

Child(s) == ScriptNewActive(s) \/ ScriptDone(s) \/ \E pt \in PTypes : Reap(s, pt)

Next ==
    \/ Loop
    \/ \E s \in Names : Child(s)
    \/ \E f \in Files : FileAppears(f)
    \/ StartCommand
    \/ StopCommand
    \/ RestartCommand
    \/ ZapCommand
    \/ HaltCommand

Spec == Init /\ [][Next]_vars

\* The loop goes on until it is out: nothing in it blocks but the poll, which has
\* a timeout.
GoesOn == at # "out" /\ at' \in Places \ {at}
LoopRuns == WF_at(GoesOn)

\* Every script ends: what waits for it kills it when its alarm rings.
ScriptsEnd == \A s \in Names : []<>(world.procs[s] = {} \/ at = "out")

FairSpec == Spec /\ LoopRuns /\ ScriptsEnd

-----------------------------------------------------------------------------

\* The world keeps its shape: the active_db lists exactly the services that have
\* a state, locks are released between two steps of the loop, and only states
\* of a service's own type or of the core appear.
TypeOK ==
    /\ at \in Places
    /\ commands \in 0..MaxCommands
    /\ Range(world.db) = {s \in Names : InDb(world, s)}
    /\ Cardinality(Range(world.db)) = Len(world.db)
    /\ \A s \in Names :
         /\ world.st[s] \in {None} \cup DOMAIN StaticStates
                \cup DOMAIN (CASE Type[s] = "service" -> ServiceStates @@ ModuleStates
                              [] Type[s] = "runlevel" -> RunlevelStates @@ ModuleStates
                              [] Type[s] = "provided" -> ProvidedStates)
         /\ world.lock[s] = 0 /\ world.next[s] = None
         /\ world.procs[s] \subseteq PTypes

\* A start script is launched only when everything the service requires or needs
\* is up: the order "started as soon as their dependencies are met".
StartOrder ==
    [][\A s \in Names : "start" \in world'.procs[s] \ world.procs[s] =>
            \A d \in Hard(s) : IsState(world, d) = "UP"]_vars

\* A stop script is launched only when the services that depend on this one are
\* down or failed, or still wait to be started.
StopOrder ==
    [][\A s \in Names : "stop" \in world'.procs[s] \ world.procs[s] =>
            \A x \in Names \ {s} : (\E i \in DOMAIN Deps[x] : Deps[x][i].on = s) =>
                IsState(world', x) \in {"DOWN", "FAILED"} \/ world'.st[x] \in WaitingForStartDep]_vars

\* A failure sticks: "failed and must be reset before it can be started again".
FailureSticks ==
    [][\A s \in Names : IsState(world, s) = "FAILED" => IsState(world', s) = "FAILED"]_vars

\* A service whose state says that its script is running has that script among
\* its processes, so that a kill handler or the alarm will move it on.
RunHasProcess ==
    \A s \in Names :
        /\ world.st[s] = "START_RUN" => "start" \in world.procs[s]
        /\ world.st[s] = "STOP_RUN" => "stop" \in world.procs[s]

\* An ordered shutdown is not taken back: the system is never set up again, and no
\* start script is launched once it is going down.
NoStartWhileStopping ==
    [][/\ world.sys = "STOPPING" => world'.sys \in {"STOPPING", "ASE"}
       /\ \A s \in Names : "start" \in world'.procs[s] \ world.procs[s] =>
            world.sys \in {"STARTING", "UP"}]_vars

\* A provided service is up only while one of its providers is up, starts or
\* stops, or was just taken down and is still to be handled.  Stated for providers
\* that are not started again while they stop: add_virtual_service counts such a
\* provider twice, and the service stays up without it.
ProvidedHasProvider ==
    \A v \in Names : Type[v] = "provided" /\ IsState(world, v) = "UP" =>
        \E s \in Names : /\ v \in Range(Options[s].provide)
                         /\ IsState(world, s) \notin {"DOWN", "FAILED"} \/ Contains(world.queue, s)

\* Both services name the other one in their conflict entries.
Conflicting(s, c) == c \in Range(Options[s].conflict) /\ s \in Range(Options[c].conflict)

\* Of two services that name each other in their conflict entries at most one is
\* up or has its start script running.  Stated for services that are not started
\* again while they stop: start_SERVICE then goes from WAITING_FOR_STOP_DEP straight
\* to DONE, which check_conflict does not look at.
ConflictExcluded ==
    \A s, c \in Names : Conflicting(s, c) =>
        ~(world.st[s] \in {"START_RUN", "DONE"} /\ world.st[c] \in {"START_RUN", "DONE"})

\* Every service that begins to start comes up or fails.
StartsEnd ==
    \A s \in Names : IsState(world, s) = "STARTING" ~> IsState(world, s) # "STARTING"

\* A service does not stay stopping once nothing that depends on it is up or
\* starting: its waiting state, its stop script or its alarm moves it on.
StopsEnd ==
    \A s \in Names :
        LET stopping == /\ IsState(world, s) = "STOPPING"
                        /\ \A x \in Names : DependsOn(x, s) => IsState(world, x) \notin {"UP", "STARTING"}
        IN stopping ~> ~stopping

\* The boot ends: the system is set UP, or every service failed and the loop is
\* left.
BootEnds == <>(world.sys = "UP" \/ at = "out")

\* An ordered shutdown is carried out: the last service quits.
ShutdownEnds == world.sys = "STOPPING" ~> at = "out"

-----------------------------------------------------------------------------
(* What comments, descriptions and docs say, and the code does not do.       *)

\* "make sure initng will search files, in one second", modules/fstat: a service
\* waiting only for files that exist by now goes on.
FilesAreSearched ==
    \A s \in Names :
        LET waits == /\ world.st[s] = "WAITING_FOR_START_DEP" /\ Deps[s] = <<>>
                     /\ Options[s].wait_for_file \subseteq world.files
        IN waits ~> ~waits

\* "if this service is marked restarting, please restart it if its set to
\* STOPPED", interrupt/handle.c.
RestartsEnd ==
    \A s \in Names :
        s \in world.restarting /\ world.st[s] = "STOPPED" ~> ~(s \in world.restarting /\ InDb(world, s))
=============================================================================
