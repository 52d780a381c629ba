------------------------------- MODULE Hooks --------------------------------
(***************************************************************************)
(* What the loaded modules do to services when the core sends an event:    *)
(* also, conflict, critical, lockfile and provide are called for           *)
(* EVENT_IS_CHANGE while the service is locked, so that a state they mark  *)
(* becomes current when handle() unlocks it; fstat, interactive, last and  *)
(* synchron are asked by EVENT_START_DEP_MET before a service whose        *)
(* dependencies are up may go on.                                          *)
(***************************************************************************)
EXTENDS Handlers

CONSTANTS
    IsChangeHooks,      \* modules on EVENT_IS_CHANGE, in the order they were loaded
    StartDepMetHooks    \* modules on EVENT_START_DEP_MET

ASSUME HooksAssumption ==
    /\ IsChangeHooks \in Seq({"also", "conflict", "critical", "lockfile", "provide"})
    /\ StartDepMetHooks \in Seq({"fstat", "interactive", "last", "synchron"})

\* One name of ALSO_START; the loop ends at a service that cannot be found.
AlsoStart(acc, s, t) ==
    LET r == StartNewServiceNamed(acc.w, t)
    IN IF ~acc.ok THEN acc
       ELSE IF InDb(acc.w, t) THEN Ok(StartService(acc.w, t).w)
       ELSE IF r.ok THEN r ELSE Not(StopService(acc.w, s))

\* service_state of modules/also.
AlsoState(w, s) ==
    CASE IsState(w, s) = "STARTING" ->
           FoldLeft(LAMBDA acc, t : AlsoStart(acc, s, t), Ok(w), Options[s].also_start).w
      [] IsState(w, s) = "STOPPING" ->
           FoldLeft(LAMBDA v, t : IF InDb(v, t) THEN StopService(v, t) ELSE v, w, Options[s].also_stop)
      [] OTHER -> w

\* A wrong version: a service that is still starting is no conflict.
CheckConflictUpOnly(w, s) ==
    IF IsState(w, s) = "STARTING" /\ \E c \in Range(Options[s].conflict) : IsState(w, c) = "UP"
      THEN Mark(w, s, "FAILED_BY_CONFLICT") ELSE w

\* check_conflict.
CheckConflict(w, s) ==
    IF IsState(w, s) = "STARTING" /\ \E c \in Range(Options[s].conflict) : IsState(w, c) \in {"UP", "STARTING"}
      THEN Mark(w, s, "FAILED_BY_CONFLICT") ELSE w

\* check_critical: initng_main_su_login offers a sulogin and then, whatever came of
\* it, goes on into initng_main_segfault, which replaces the program or sleeps
\* for ever.
CheckCritical(w, s) ==
    IF IsState(w, s) = "FAILED" /\ Options[s].critical THEN [w EXCEPT !.sys = "SEGFAULT"] ELSE w

\* status_change of modules/lockfile; the lock file is named after the service.
LockfileChange(w, s) ==
    CASE Options[s].lockfile /\ IsState(w, s) = "UP" -> [w EXCEPT !.files = @ \cup {s}]
      [] Options[s].lockfile /\ IsState(w, s) = "DOWN" -> [w EXCEPT !.files = @ \ {s}]
      [] OTHER -> w

-----------------------------------------------------------------------------
\* add_virtual_service.  A new service is NEW when it is marked.
AddVirtualService(acc, v) ==
    LET w == acc.w
        new == [w EXCEPT !.db = Append(@, v), !.st[v] = "NEW", !.typed = @ \cup {v}]
        count(u, n) == [u EXCEPT !.pcount[v] = n]
    IN IF ~acc.ok THEN acc
       ELSE IF ~InDb(w, v) THEN Ok(count(Mark(new, v, "SOON_PROVIDED"), 1))
       ELSE IF Type[v] # "provided" THEN Not(w)
       ELSE Ok(count(IF IsState(w, v) \in {"UP", "STARTING"} THEN w ELSE Mark(w, v, "SOON_PROVIDED"),
                     w.pcount[v] + 1))

\* virtual_service_set_up.
VirtualServiceSetUp(acc, v) ==
    IF acc.ok /\ InDb(acc.w, v) /\ IsState(acc.w, v) = "STARTING"
      THEN Ok(Mark(acc.w, v, "PROVIDED")) ELSE Not(acc.w)

\* A wrong version: the provider that goes is counted.
RemoveVirtualServiceCounts(w, v) ==
    IF IsState(w, v) = "UP" /\ w.pcount[v] > 0 THEN w
    ELSE IF InDb(w, v) /\ Type[v] = "provided" THEN Mark(w, v, "NOT_PROVIDED") ELSE w

\* remove_virtual_service: the providers are counted only while it is up.
RemoveVirtualService(w, v) ==
    LET i == IF IsState(w, v) = "UP" THEN w.pcount[v] - 1 ELSE 0
        u == IF IsState(w, v) = "UP" THEN [w EXCEPT !.pcount[v] = i] ELSE w
    IN IF ~InDb(w, v) \/ Type[v] # "provided" THEN w
       ELSE IF i = 0 \/ w.sys = "STOPPING" THEN Mark(u, v, "NOT_PROVIDED") ELSE u

\* service_state of modules/provide.
ProvideState(w, s) ==
    CASE IsState(w, s) = "STARTING" ->
           IF w.sys = "STOPPING" THEN w ELSE FoldLeft(AddVirtualService, Ok(w), Options[s].provide).w
      [] IsState(w, s) = "UP" ->
           IF w.sys = "STOPPING" THEN w ELSE FoldLeft(VirtualServiceSetUp, Ok(w), Options[s].provide).w
      [] OTHER -> FoldLeft(RemoveVirtualService, w, Options[s].provide)

\* initng_event_send(EVENT_IS_CHANGE); none of these hooks ends the walk.
IsChangeEvent(w, s) ==
    LET hook(v, m) == CASE m = "also" -> AlsoState(v, s)
                        [] m = "conflict" -> CheckConflict(v, s)
                        [] m = "critical" -> CheckCritical(v, s)
                        [] m = "lockfile" -> LockfileChange(v, s)
                        [] m = "provide" -> ProvideState(v, s)
    IN FoldLeft(hook, w, IsChangeHooks)

-----------------------------------------------------------------------------
\* check_files_to_exist of modules/fstat.
CheckFiles(w, s) ==
    IF ~(Options[s].wait_for_file \subseteq w.files) THEN Not(w)
    ELSE IF Options[s].require_file \subseteq w.files THEN Ok(w)
    ELSE Not(Mark(w, s, "REQUIRE_FILE_FAILED"))

\* interactive_STARTING and interactive_STOP_MARKED: "a" unregisters them both.
Interactive(w, s) ==
    CASE ~w.asking \/ Options[s].answer = "y" -> Ok(w)
      [] w.asking /\ Options[s].answer = "a" -> Ok([w EXCEPT !.asking = FALSE])
      [] w.asking /\ Options[s].answer = "n" -> Not(Mark(w, s, "INTERACTIVELY_DISABLED"))

\* A wrong version: a service that waits for this one holds it back.
CheckLastDependents(w, s) ==
    IF /\ Options[s].last
       /\ \E c \in Range(w.db) \ {s} : ~Options[c].last /\ IsState(w, c) = "STARTING"
      THEN Not(w) ELSE Ok(w)

\* check_last.
CheckLast(w, s) ==
    IF /\ Options[s].last
       /\ \E c \in Range(w.db) \ {s} :
            /\ ~(c \in w.typed /\ Type[c] = "provided")
            /\ ~Options[c].last
            /\ ~DependsDeep(w, c, s)
            /\ IsState(w, c) = "STARTING"
      THEN Not(w) ELSE Ok(w)

\* check_syncronicly_service.  (Of --synchronously, check_syncronicly compares the
\* asking service's own state, which is never SERVICE_START_RUN here.)
CheckSyncronicly(w, s) ==
    IF \E c \in Range(w.db) \ {s} :
         /\ w.st[c] = "START_RUN"
         /\ Options[s].syncron # "" /\ Options[s].syncron = Options[c].syncron
      THEN Not(w) ELSE Ok(w)

\* initng_event_send(EVENT_START_DEP_MET): the first module that refuses ends it.
StartDepMetEvent(w, s) ==
    LET hook(acc, m) == CASE ~acc.ok -> acc
                          [] acc.ok /\ m = "fstat" -> CheckFiles(acc.w, s)
                          [] acc.ok /\ m = "interactive" -> Interactive(acc.w, s)
                          [] acc.ok /\ m = "last" -> CheckLast(acc.w, s)
                          [] acc.ok /\ m = "synchron" -> CheckSyncronicly(acc.w, s)
    IN FoldLeft(hook, Ok(w), StartDepMetHooks)

\* initng_depend_start_dep_met: what the loop has passed stays in the cache when a
\* module refuses.
StartDepMet(w, s) ==
    LET r == StartDepsChecked(w, s)
        e == StartDepMetEvent(r.w, s)
    IN IF r.res # "go" THEN r
       ELSE IF e.ok THEN [w |-> [e.w EXCEPT !.cache[s] = 0], res |-> "TRUE"]
       ELSE [w |-> e.w, res |-> "FALSE"]

\* initng_depend_stop_dep_met, where only modules/interactive is asked.
StopDepMet(w, s) ==
    LET r == StopDepsChecked(w, s)
        e == IF Contains(StartDepMetHooks, "interactive") THEN Interactive(r.w, s) ELSE r
    IN IF ~r.ok THEN r
       ELSE IF e.ok THEN Ok([e.w EXCEPT !.cache[s] = 0]) ELSE e
=============================================================================
