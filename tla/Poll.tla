-------------------------------- MODULE Poll --------------------------------
(***************************************************************************)
(* One call of initng_io_module_poll after another: the descriptors of the *)
(* modules (by the IOW_ACTION_CHECK of their EVENT_IO_WATCHER hooks) and   *)
(* of the processes' pipes are collected, select() reports some, and their *)
(* owners are called, modules first, counting down what select() returned. *)
(* A call may close its descriptor and open descriptors for others (accept *)
(* a client, fork a process), which take the lowest free number.           *)
(***************************************************************************)
EXTENDS Integers, Sequences, FiniteSets, FiniteSetsExt

CONSTANTS
    Modules,    \* sequence of the modules' descriptors, in the order of their hooks
    Pipes,      \* sequence of the processes' pipes, in the order of the walk
    Kind,       \* whose descriptor each of them is
    FDS,        \* descriptor numbers
    MAX_OPENS   \* bound: descriptors opened

Owners == Modules \o Pipes
CLOSED == 0 - 1

\* What a handler may do to descriptors while it is called for its own: close it, and
\* open one for a client's connection, for the pipe of a process it starts, or one
\* that is not polled.
Effect(c, o) == [closes |-> c, opens |-> o]
Idle == Effect(FALSE, "none")
Closes == Effect(TRUE, "none")
Forks == Effect(FALSE, "pipe")

\* accepted_client of ngcs: a connection is added, or accept() fails and the socket is closed.
ngcs_fdh_handler == {Effect(FALSE, "conn"), Closes}
\* A connection of ngcs: requests are read, a service may be started, the client may be gone.
ngcs_conn_fdw_handler == {Idle, Forks, Closes}
\* accepted_client of ngc4 serves its client and closes the connection before it returns.
ngc4_fdh_handler == {Idle, Forks, Closes}
\* event_acceptor of nge: a listener is only ever written to.
nge_io_event_acceptor_handler == {Idle, Effect(FALSE, "unpolled")}
\* parse_control_input: runlevels are started and services stopped.
initctl_pipe_io_handler == {Idle, Forks}
\* filemon_event: the events are read; nothing, or a reload.
fmon_fdh_handler == {Idle}
\* read_input of a BUFFERED_OUT_PIPE closes it at end of file.
process_read_input == {Idle, Closes}
\* initng_io_pipe hands the other pipes to a module, which reads and replies.
io_pipe == {Idle}

Effects(i) ==
    CASE Kind[i] = "ngcs" -> ngcs_fdh_handler
      [] Kind[i] = "conn" -> ngcs_conn_fdw_handler
      [] Kind[i] = "ngc4" -> ngc4_fdh_handler
      [] Kind[i] = "nge" -> nge_io_event_acceptor_handler
      [] Kind[i] = "initctl" -> initctl_pipe_io_handler
      [] Kind[i] = "fmon" -> fmon_fdh_handler
      [] Kind[i] = "buffered" -> process_read_input
      [] Kind[i] = "pipe" -> io_pipe

VARIABLES
    fd,         \* the descriptor of every owner
    open,       \* descriptors open in the process
    readset,    \* what select() left in the set
    added,      \* retval / data.added
    at,         \* 0 outside, otherwise the owner the scan has come to
    ready,      \* owners select() found ready, not called since
    strays,     \* owners called for a descriptor select() never saw
    reused,     \* a number closed during this scan was given out again
    opens

vars == <<fd, open, readset, added, at, ready, strays, reused, opens>>

\* Some owners have a descriptor, numbered in the order they were opened.
Init ==
    /\ \E S \in SUBSET DOMAIN Owners :
         LET opened(i) == Cardinality({k \in S : k < i})
             number(k) == CHOOSE n \in FDS : Cardinality({m \in FDS : m < n}) = k
         IN /\ Cardinality(S) <= Cardinality(FDS)
            /\ fd = [i \in DOMAIN Owners |-> IF i \in S THEN number(opened(i)) ELSE CLOSED]
    /\ open = {fd[i] : i \in DOMAIN Owners} \ {CLOSED}
    /\ readset = {} /\ added = 0 /\ at = 0
    /\ ready = {} /\ strays = {} /\ reused = FALSE /\ opens = 0

\* Steps 1 and 2: every open descriptor is in the set, and select() reports some.
\* (A descriptor that is no longer open is set to -1 and left out.)
Select(R) ==
    /\ at = 0
    /\ R # {} /\ R \subseteq open \cap {fd[i] : i \in DOMAIN Owners}
    /\ fd' = [i \in DOMAIN Owners |-> IF fd[i] \in open THEN fd[i] ELSE CLOSED]
    /\ readset' = R
    /\ added' = Cardinality(R)
    /\ ready' = {i \in DOMAIN Owners : fd[i] \in R}
    /\ at' = 1
    /\ strays' = {} /\ reused' = FALSE
    /\ UNCHANGED <<open, opens>>

\* Owners that have no descriptor and may be given one that was opened so.
Takers(own, o) ==
    {j \in DOMAIN Owners :
        /\ own[j] = CLOSED
        /\ Kind[j] \in IF o = "conn" THEN {"conn"} ELSE {"buffered", "pipe"}}

\* The effect e of a call of i; what is opened takes the lowest free number.
Does(i, e) ==
    LET still == IF e.closes THEN open \ {fd[i]} ELSE open
        own == IF e.closes THEN [fd EXCEPT ![i] = CLOSED] ELSE fd
        n == Min(FDS \ still)
    IN IF e.opens = "none"
         THEN open' = still /\ fd' = own /\ UNCHANGED <<reused, opens>>
         ELSE /\ opens < MAX_OPENS /\ FDS \ still # {}
              /\ open' = still \cup {n}
              /\ IF e.opens = "unpolled" THEN fd' = own
                 ELSE \E j \in Takers(own, e.opens) : fd' = [own EXCEPT ![j] = n]
              /\ reused' = (reused \/ n \in readset)
              /\ opens' = opens + 1


\* What is left to find after the call of i.
Counted(i) == added - 1

\* Step 3: IOW_ACTION_CALL for a module, read_input or initng_io_pipe for a pipe.
Call ==
    /\ at \in DOMAIN Owners
    /\ added > 0 /\ fd[at] \in readset
    /\ \E e \in Effects(at) : Does(at, e)
    /\ added' = Counted(at)
    /\ strays' = IF at \in ready THEN strays ELSE strays \cup {at}
    /\ ready' = ready \ {at}
    /\ at' = IF at >= Len(Modules) /\ added' <= 0 THEN 0 ELSE at + 1
    /\ UNCHANGED readset

\* An owner whose descriptor is closed or not reported; the modules' event goes
\* through all hooks, and then nothing left means to return.
Pass ==
    /\ at \in DOMAIN Owners
    /\ added <= 0 \/ fd[at] \notin readset
    /\ at' = IF at = Len(Modules) /\ added <= 0 THEN 0 ELSE at + 1
    /\ UNCHANGED <<fd, open, readset, added, ready, strays, reused, opens>>

\* The end of the scan; "There is a missed pipe or fd" when added is not 0.
Return ==
    /\ at = Len(Owners) + 1
    /\ at' = 0
    /\ UNCHANGED <<fd, open, readset, added, ready, strays, reused, opens>>

Next ==
    \/ \E R \in SUBSET FDS : Select(R)
    \/ Call \/ Pass \/ Return

Spec == Init /\ [][Next]_vars

-----------------------------------------------------------------------------
=============================================================================
