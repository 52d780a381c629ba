------------------------------ MODULE Handlers ------------------------------
(***************************************************************************)
(* handler/*.c and depend/*.c: starting and stopping services along their  *)
(* dependencies.  start_service, start_deps and start_new_service_named    *)
(* call each other; they end because REQUIRE and NEED are acyclic here (a  *)
(* cycle of services that are down makes them recurse without end).        *)
(***************************************************************************)
EXTENDS ActiveDb

\* Edges start_deps follows; TLC evaluates it before any recursion.
Hard(s) == {Deps[s][i].on : i \in {j \in DOMAIN Deps[s] : Deps[s][j].kind # "USE"}}

ASSUME AcyclicAssumption ==
    \A f \in [1..(Cardinality(Names) + 1) -> Names] :
        \E i \in 1..Cardinality(Names) : f[i + 1] \notin Hard(f[i])

Ok(w) == [w |-> w, ok |-> TRUE]
Not(w) == [w |-> w, ok |-> FALSE]

\* type->start: start_SERVICE, start_RUNLEVEL and dont_try_to_stop_start, which
\* refuses.
TypeStart(w, s) ==
    IF Type[s] = "provided" THEN w
    ELSE IF Type[s] = "service"
      THEN Mark(w, s, IF w.st[s] = "WAITING_FOR_STOP_DEP" THEN "DONE" ELSE "START_MARKED")
      ELSE Mark(w, s, IF w.st[s] = "RUNLEVEL_WAITING_FOR_STOP_DEP" THEN "RUNLEVEL_UP"
                                                          ELSE "RUNLEVEL_START_MARKED")

\* type->stop: stop_SERVICE, stop_RUNLEVEL and dont_try_to_stop_start.
TypeStop(w, s) ==
    IF Type[s] = "provided" THEN w
    ELSE IF Type[s] = "service"
      THEN Mark(w, s, IF w.st[s] = "WAITING_FOR_START_DEP" THEN "STOPPED" ELSE "STOP_MARKED")
      ELSE Mark(w, s, IF w.st[s] = "RUNLEVEL_WAITING_FOR_START_DEP" THEN "RUNLEVEL_DOWN"
                                                          ELSE "RUNLEVEL_STOP_MARKED")

-----------------------------------------------------------------------------
RECURSIVE StartService(_, _)

\* initng_handler_start_new_service_named; a missing service is looked up by the
\* hook of EVENT_NEW_ACTIVE, which starts to parse its file.
StartNewServiceNamed(w, s) ==
    IF InDb(w, s)
      THEN Ok(IF IsState(w, s) = "DOWN" THEN StartService(w, s).w ELSE w)
      ELSE IF s \in Available THEN Ok(NewActive(w, s)) ELSE Not(w)

\* One round of the loop of initng_depend_start_deps.
StartDep(acc, s, d) ==
    LET w == acc.w
        r == StartNewServiceNamed(w, d.on)
    IN IF ~acc.ok \/ d.kind = "USE" THEN acc
       ELSE IF r.ok \/ d.kind = "NEED" THEN Ok(r.w)
       ELSE Not(Mark(w, s, "REQ_NOT_FOUND"))

\* initng_depend_start_deps.
StartDeps(w, s) == FoldLeft(LAMBDA acc, d : StartDep(acc, s, d), Ok(w), Deps[s])

\* initng_handler_start_service.
StartService(w, s) ==
    LET is == IsState(w, s)
        r == StartDeps(w, s)
    IN IF w.sys \notin {"STARTING", "UP"} \/ s \in w.restarting \/ is = "FAILED" THEN Not(w)
       ELSE IF is \in {"STARTING", "WAITING", "UP", "NEW"} THEN Ok(w)
       ELSE IF ~r.ok THEN r
       ELSE [w |-> TypeStart(r.w, s), ok |-> Type[s] # "provided"]

\* A wrong version: a service that is starting is not stopped.
StopServiceUpOnly(w, s) == IF IsState(w, s) = "UP" THEN TypeStop(w, s) ELSE w

\* initng_handler_stop_service.
StopService(w, s) ==
    IF IsState(w, s) \in {"UP", "STARTING"} THEN TypeStop(w, s) ELSE w

\* initng_handler_stop_all.
StopAll(w) == FoldLeft(StopService, [w EXCEPT !.sys = "STOPPING"], w.db)

-----------------------------------------------------------------------------
\* dep_on and initng_depend (no module hooks EVENT_DEP_ON).
DependsOn(s, c) == s # c /\ \E i \in DOMAIN Deps[s] : Deps[s][i].on = c

\* initng_depend_deep over the registered services; its limit of
\* ten calls is not reached by the few services of an instance.
RECURSIVE DependsDeep(_, _, _)
DependsDeep(w, s, c) ==
    \/ DependsOn(s, c)
    \/ \E m \in Range(w.db) : DependsOn(s, m) /\ DependsDeep(w, m, c)

\* initng_depend_stop_deps.
StopDeps(w, s) ==
    LET stop(v, x) == IF x # s /\ DependsDeep(w, x, s) THEN StopService(v, x) ELSE v
    IN FoldLeft(stop, w, w.db)

\* A wrong version: only a failed dependency is looked for.
StartDepCheckNoWait(acc, s, i) ==
    IF acc.res = "go" /\ IsState(acc.w, Deps[s][i].on) = "FAILED" THEN [acc EXCEPT !.res = "FAIL"] ELSE acc

\* One round of the loop of initng_depend_start_dep_met; `go` until it returns.
StartDepCheck(acc, s, i) ==
    LET w == acc.w
        d == Deps[s][i]
        is == IsState(w, d.on)
        ret(v, res) == [w |-> v, res |-> res]
    IN IF acc.res # "go" \/ w.cache[s] >= i THEN acc
       ELSE IF ~InDb(w, d.on)
         THEN CASE d.kind = "USE" -> acc
                [] d.kind = "REQUIRE" -> ret(Mark(w, s, "REQ_NOT_FOUND"), "FAIL")
                [] d.kind = "NEED" -> ret(w, "FALSE")
       ELSE CASE is = "UP" -> ret([w EXCEPT !.cache[s] = i], "go")
              [] is = "FAILED" -> ret(w, "FAIL")
              [] is = "DOWN" -> ret(StartService(w, d.on).w, "FALSE")
              [] OTHER -> ret(w, "FALSE")

\* The loop of initng_depend_start_dep_met.
StartDepsChecked(w, s) ==
    FoldLeft(LAMBDA acc, i : StartDepCheck(acc, s, i), [w |-> w, res |-> "go"],
             [i \in DOMAIN Deps[s] |-> i])

\* A wrong version: a dependent that is stopping counts as down.
DownForStopping(w, s, x) ==
    x = s \/ ~DependsOn(x, s) \/ IsState(w, x) \in {"DOWN", "FAILED", "STOPPING"}

\* A service stop_dep_met does not wait for.
DownFor(w, s, x) ==
    \/ x = s
    \/ ~DependsOn(x, s)
    \/ IsState(w, x) \in {"DOWN", "FAILED"}
    \/ w.st[x] \in WaitingForStartDep

\* The loop of initng_depend_stop_dep_met: the cache counts the services already
\* passed.
StopDepsChecked(w, s) ==
    LET blocking == {i \in DOMAIN w.db : i > w.cache[s] /\ ~DownFor(w, s, w.db[i])}
    IN IF blocking = {}
         THEN Ok([w EXCEPT !.cache[s] = IF Len(w.db) > @ THEN Len(w.db) ELSE @])
         ELSE Not([w EXCEPT !.cache[s] = (CHOOSE i \in blocking : \A j \in blocking : i <= j) - 1])

-----------------------------------------------------------------------------
\* initng_depend_restart_deps and initng_handler_restart_service, which stops
\* every running service that depends on the restarted one along with it.
RECURSIVE RestartService(_, _)
RestartDeps(w, s) ==
    LET restart(v, x) == IF x # s /\ DependsDeep(w, x, s) THEN RestartService(v, x) ELSE v
    IN FoldLeft(restart, w, w.db)
RestartService(w, s) ==
    IF IsState(w, s) # "UP" THEN w
    ELSE LET v == RestartDeps(w, s)
         IN StopService([v EXCEPT !.restarting = @ \cup {s}], s)

\* initng_handler_restart_restarting.
RestartRestarting(w) ==
    LET start(v, x) ==
            IF IsState(v, x) = "DOWN" /\ x \in v.restarting
              THEN StartService([v EXCEPT !.restarting = @ \ {x}], x).w ELSE v
    IN IF \E x \in w.restarting : IsState(w, x) = "STOPPING" THEN w
       ELSE FoldLeft(start, w, w.db)
=============================================================================
