------------------------------- MODULE MCCore -------------------------------
(***************************************************************************)
(* Parts of the core, each by itself in one run: the lists and the alarms  *)
(* (the modules extended here), and by INSTANCE the module database, a     *)
(* reload of initng, the signal slots, the poll over the descriptors and   *)
(* the parsing of service files.  The components share no state; part says *)
(* which of them the behaviour belongs to.                                 *)
(***************************************************************************)
EXTENDS List, Alarms, Sequences, Functions, TLC

CONSTANT NONE

Few(S, n) == {s \in UNION {[1..k -> S] : k \in 0..n} : IsInjective(s)}

\* Any two modules in any order, and the ones that need others or may refuse.
Mods == INSTANCE Registry
ModuleBoots == Few(Mods!AllModules, 2) \cup Few({"stcmd", "ngc4", "history", "fmon"}, 4)

ReloadTypeOf == [s \in {"net"} |-> "service"]

PollKind == <<"initctl", "ngcs", "conn", "nge", "fmon", "ngc4", "buffered", "pipe">>

OptionKind == [env |-> "STRING", need |-> "STRINGS", forks |-> "SET", nice |-> "INT"]

Ask(q, s, t, ty, vn, v) ==
    [request |-> q, service |-> s, type |-> t, vartype |-> ty, varname |-> vn, value |-> v]

BpRequests ==
    {Ask("NEW_ACTIVE", s, "service", NONE, NONE, NONE) : s \in {"a", "b"}}
    \cup {Ask("DONE", s, NONE, NONE, NONE, NONE) : s \in {"a", "b"}}
    \cup {Ask("SET_VARIABLE", "a", NONE, "env", "A", 1),
          Ask("SET_VARIABLE", "a", NONE, "need", NONE, <<1, 2>>),
          Ask("SET_VARIABLE", "a", NONE, "forks", NONE, NONE),
          Ask("GET_VARIABLE", "a", NONE, "env", "A", NONE),
          Ask("ABORT", "a", NONE, NONE, NONE, NONE)}

Idle == ListInit /\ Init

VARIABLES
    part,       \* the component that runs
    x1, x2, x3, x4, x5, x6, x7, x8, x9, x10, x11, x12, x13   \* its variables

M == INSTANCE ModuleDb WITH
    Boots <- ModuleBoots, Loadable <- {"history", "interactive", "reload"}, MAX_LOADS <- 1,
    MAX_HUPS <- 1, at <- x1, db <- x2, flags <- x3, to_unload <- x4, regs <- x5, args <- x6,
    loads <- x7, hups <- x8

R == INSTANCE Reload WITH
    Walk <- <<"net">>, Types <- {"service", "daemon"}, TypeOf <- ReloadTypeOf, LongNames <- {},
    Pids <- {"p1", "p2"}, MAX_PROCESSES <- 2, MAX_PIPES <- 2, MAX_ENTRYS <- 1, MAX_RELOADS <- 2,
    phase <- x1, db <- x2, file <- x3, known <- x4, failed <- x5, sys <- x6, signals <- x7,
    children <- x8, zombies <- x9, before <- x10, reloads <- x11

G == INSTANCE Signals WITH
    Signals <- {"SIGCHLD", "SIGALRM"}, SIGNAL_STACK <- 3, signals_got <- x1, handlers <- x2,
    at <- x3, sig <- x4, raised <- x5, nested <- x6, full <- x7

P == INSTANCE Poll WITH
    Modules <- <<"initctl", "ngcs", "conn1", "nge", "fmon", "ngc4">>,
    Pipes <- <<"out1", "out2">>, Kind <- PollKind, FDS <- 3..6, MAX_OPENS <- 2, fd <- x1,
    open <- x2, readset <- x3, added <- x4, at <- x5, ready <- x6, strays <- x7, reused <- x8,
    opens <- x9

F == INSTANCE ServiceFile WITH
    Types <- {"env", "need", "forks", "nice"}, Kind <- OptionKind, Variable <- {"env"},
    Services <- {"a", "b"}, Files <- {"a"}, ServiceTypes <- {"service"}, Requests <- BpRequests,
    MAX_REQUESTS <- 3, MAX_CHANGES <- 1, db <- x1, option_db <- x2, script <- x3, code <- x4,
    cmds <- x5, reqs <- x6, reps <- x7, sent <- x8, mixed <- x9, wrong <- x10, unheard <- x11,
    crashed <- x12, changes <- x13

\* The variables behind the first n, which a component with n of them leaves alone.
rest11 == <<x12, x13>>
rest9 == <<x10, x11, rest11>>
rest8 == <<x9, rest9>>
rest7 == <<x8, rest8>>
rest0 == <<x1, x2, x3, x4, x5, x6, x7, rest7>>
Free11 == x12 = NONE /\ x13 = NONE
Free9 == x10 = NONE /\ x11 = NONE /\ Free11
Free8 == x9 = NONE /\ Free9
Free7 == x8 = NONE /\ Free8
Free0 == x1 = NONE /\ x2 = NONE /\ x3 = NONE /\ x4 = NONE /\ x5 = NONE /\ x6 = NONE /\
         x7 = NONE /\ Free7

CoreInit ==
    \/ part = "lists" /\ ListInit /\ Init /\ Free0
    \/ part = "alarms" /\ Init /\ ListInit /\ Free0
    \/ part = "modules" /\ M!Init /\ Idle /\ Free8
    \/ part = "reload" /\ R!Init /\ Idle /\ Free11
    \/ part = "signals" /\ G!Init /\ Idle /\ Free7
    \/ part = "poll" /\ P!Init /\ Idle /\ Free9
    \/ part = "service_file" /\ F!Init /\ Idle

CoreNext ==
    \/ part = "lists" /\ ListNext /\ UNCHANGED <<part, vars, rest0>>
    \/ part = "alarms" /\ Next /\ UNCHANGED <<part, heap, rest0>>
    \/ part = "modules" /\ M!Next /\ UNCHANGED <<part, heap, vars, rest8>>
    \/ part = "reload" /\ R!Next /\ UNCHANGED <<part, heap, vars, rest11>>
    \/ part = "signals" /\ G!Next /\ UNCHANGED <<part, heap, vars, rest7>>
    \/ part = "poll" /\ P!Next /\ UNCHANGED <<part, heap, vars, rest9>>
    \/ part = "service_file" /\ F!Next /\ UNCHANGED <<part, heap, vars>>

CoreSpec == CoreInit /\ [][CoreNext]_<<part, heap, vars, rest0>>

-----------------------------------------------------------------------------
\* Modules: every registration left in the core belongs to a loaded module, but for
\* the leftovers ModuleDb names.
NoOtherDangling == part = "modules" => M!NoOtherDangling


\* Signals: one that was delivered is handled after its delivery.
SignalKept == part = "signals" => G!SignalKept


\* Service files: a command is given the reply to its own request.
OwnReply == part = "service_file" => F!OwnReply

\* Options: a walk with get_next visits every value of a service, an option of one
\* value has one, and no value outlives the registration of its type.
OptionsSound == part = "service_file" => F!WalkComplete /\ F!OneValue /\ F!TypesRegistered
=============================================================================
