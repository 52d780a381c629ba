------------------------------ MODULE ActiveDb ------------------------------
(***************************************************************************)
(* The program's memory as a value: the active_db with its services and    *)
(* their states, the interrupt list, process lists, alarms and g.sys_state,*)
(* and the operations of common/state.c, active_db/*.c and process_db/*.c  *)
(* as operators from a world to a world.  The main loop is single threaded *)
(* and its signal handlers only take notes, so every callback is such an   *)
(* operator; MainLoop is the state machine that applies them.              *)
(***************************************************************************)
EXTENDS Naturals, FiniteSets, SequencesExt

CONSTANTS
    Names,      \* names of services
    Type,       \* service type of each: "service", "runlevel" or "provided"
    Deps,       \* REQUIRE, NEED and USE entries of each, in data order
    Available,  \* names a service file exists for
    Options     \* what else the modules know of each

DepKinds == {"REQUIRE", "NEED", "USE"}

\* The options of a service file that sets none: also, conflict, provide,
\* critical, last, syncron, lockfile, fstat's files, and what the user answers when
\* initng runs interactively.
NoOptions ==
    [also_start |-> <<>>, also_stop |-> <<>>, conflict |-> <<>>, provide |-> <<>>,
     critical |-> FALSE, last |-> FALSE, syncron |-> "", lockfile |-> FALSE,
     wait_for_file |-> {}, require_file |-> {}, answer |-> "y"]

ASSUME ServicesAssumption ==
    /\ Type \in [Names -> {"service", "runlevel", "provided"}]
    /\ Available \subseteq {s \in Names : Type[s] # "provided"}
    /\ \A s \in Names : Deps[s] \in Seq([kind : DepKinds, on : Names])
    /\ \A s \in Names : \A list \in {"also_start", "also_stop", "conflict", "provide"} :
         Options[s][list] \in Seq(Names)

\* The states of main/static/states.c and modules/service_file.
StaticStates ==
    [FREEING |-> "DOWN", REQ_NOT_FOUND |-> "FAILED",
     PARSING_FOR_START |-> "NEW", REDY_FOR_START |-> "DOWN", PARSE_FAIL |-> "FAILED"]

\* The states of modules/service.  FAIL_START_LAUNCH, UP_CHECK_FAILED,
\* STOP_DEPS_FAILED and FAIL_STOP_NONEXIST are never reached: launch does not
\* return FAIL, up_check does not either, and stop_deps returns TRUE.
ServiceStates ==
    [START_MARKED |-> "STARTING", WAITING_FOR_START_DEP |-> "STARTING",
     START_DEPS_MET |-> "STARTING", START_RUN |-> "STARTING",
     DONE |-> "UP",
     STOP_MARKED |-> "STOPPING", WAITING_FOR_STOP_DEP |-> "STOPPING",
     STOP_DEPS_MET |-> "STOPPING", STOP_RUN |-> "STOPPING",
     STOPPED |-> "DOWN",
     START_DEPS_FAILED |-> "FAILED", FAIL_START_NONEXIST |-> "FAILED",
     FAIL_START_RCODE |-> "FAILED", FAIL_START_SIGNAL |-> "FAILED",
     START_FAILED_TIMEOUT |-> "FAILED", FAIL_STOP_RCODE |-> "FAILED",
     FAIL_STOP_SIGNAL |-> "FAILED", STOP_FAILED_TIMEOUT |-> "FAILED"]

\* The states of modules/runlevel.
RunlevelStates ==
    [RUNLEVEL_START_MARKED |-> "STARTING", RUNLEVEL_WAITING_FOR_START_DEP |-> "STARTING",
     RUNLEVEL_UP |-> "UP", RUNLEVEL_STOP_MARKED |-> "STOPPING",
     RUNLEVEL_WAITING_FOR_STOP_DEP |-> "STOPPING", RUNLEVEL_DOWN |-> "DOWN",
     RUNLEVEL_START_DEPS_FAILED |-> "FAILED"]

\* The states of modules/provide.
ProvidedStates == [NEW |-> "DOWN", SOON_PROVIDED |-> "STARTING", PROVIDED |-> "UP", NOT_PROVIDED |-> "DOWN"]

\* The states modules/conflict, fstat and interactive give to services of any type.
ModuleStates ==
    [FAILED_BY_CONFLICT |-> "FAILED", REQUIRE_FILE_FAILED |-> "FAILED", INTERACTIVELY_DISABLED |-> "FAILED"]

AllStates == StaticStates @@ ServiceStates @@ RunlevelStates @@ ProvidedStates @@ ModuleStates
None == "none"

\* GET_STATE of service s; GET_STATE of a null pointer is IS_DOWN.
IsState(w, s) == IF w.st[s] = None THEN "DOWN" ELSE AllStates[w.st[s]]
InDb(w, s) == w.st[s] # None

\* Names waiting for their start dependencies: stop_dep_met looks for the text
\* WAITING_FOR_START_DEP in the state's name.
WaitingForStartDep == {"WAITING_FOR_START_DEP", "RUNLEVEL_WAITING_FOR_START_DEP"}

EmptyWorld ==
    [db |-> <<>>,                                   \* g.active_db.list, oldest first
     st |-> [s \in Names |-> None],                 \* current_state
     rough |-> [s \in Names |-> "NEW"],             \* last_rought_state
     next |-> [s \in Names |-> None],               \* next_state
     lock |-> [s \in Names |-> 0],                  \* state_lock
     queue |-> <<>>,                                \* g.active_db.interrupt
     cache |-> [s \in Names |-> 0],                 \* depend_cache
     alarm |-> {},                                  \* services with alarm # 0
     old |-> {},                                    \* down since an earlier poll (time_current_state)
     typed |-> {},                                  \* services whose type is set
     procs |-> [s \in Names |-> {}],                \* types of the P_ACTIVE processes
     restarting |-> {},                             \* services with the RESTARTING flag
     pcount |-> [s \in Names |-> 0],                \* PCOUNT of provided services
     files |-> {},                                  \* files the modules look for, and lock files
     asking |-> TRUE,                               \* the hooks of modules/interactive are registered
     sys |-> "STARTING"]                            \* g.sys_state

-----------------------------------------------------------------------------
\* The last part of initng_common_state_unlock.
SetState(w, s, st) ==
    [w EXCEPT !.rough[s] = IsState(w, s),
              !.st[s] = st,
              !.next[s] = None,
              !.alarm = @ \ {s}, !.old = @ \ {s},
              !.queue = IF Contains(@, s) THEN @ ELSE Append(@, s)]

\* initng_common_mark_service.
Mark(w, s, st) ==
    IF w.lock[s] > 0 /\ w.next[s] # None THEN w
    ELSE IF w.st[s] = st THEN [w EXCEPT !.next[s] = None]
    ELSE IF w.lock[s] > 0 THEN [w EXCEPT !.next[s] = st]
    ELSE SetState(w, s, st)

\* initng_common_state_lock.
Lock(w, s) == [w EXCEPT !.lock[s] = @ + 1]

\* initng_common_state_unlock.
Unlock(w, s) ==
    LET v == IF w.lock[s] > 0 THEN [w EXCEPT !.lock[s] = @ - 1] ELSE w
    IN IF v.lock[s] = 0 /\ v.next[s] # None THEN SetState(v, s, v.next[s]) ELSE v

\* initng_active_db_new and _register by service_file's parse_new_service_file,
\* which also forks the script to be parsed.
NewActive(w, s) ==
    [w EXCEPT !.db = Append(@, s),
              !.st[s] = "PARSING_FOR_START",
              !.procs[s] = {"parse"}]

\* initng_active_db_free: processes, data and both list entries go with it.
FreeActive(w, s) ==
    [w EXCEPT !.db = SelectSeq(@, LAMBDA x : x # s),
              !.queue = SelectSeq(@, LAMBDA x : x # s),
              !.st[s] = None, !.rough[s] = "NEW", !.next[s] = None,
              !.cache[s] = 0, !.alarm = @ \ {s}, !.old = @ \ {s}, !.procs[s] = {},
              !.restarting = @ \ {s}, !.typed = @ \ {s}, !.pcount[s] = 0]

\* initng_process_db_free.
FreeProcess(w, s, pt) == [w EXCEPT !.procs[s] = @ \ {pt}]

\* initng_execute_launch when a launcher takes the process: TRUE only if there
\* is no active process of that type yet.
CanLaunch(w, s, pt) == pt \notin w.procs[s]
Launched(w, s, pt) == [w EXCEPT !.procs[s] = @ \cup {pt}]
=============================================================================
