-------------------------------- MODULE Nge --------------------------------
(***************************************************************************)
(* The nge module: it forwards the events of initng to every program that  *)
(* connected to its socket.  listeners[] is a table of descriptors; a new  *)
(* listener is told the present state of everything and then every event.  *)
(* The event hooks are registered when the first listener comes and        *)
(* unregistered when the listening socket is closed to be opened again.    *)
(*                                                                         *)
(* The descriptors are blocking: send() waits for a listener that does not *)
(* read, in the middle of send_to_all, while the other programs go on.     *)
(* An event is its number; what a listener was sent last is sent[c].       *)
(***************************************************************************)
EXTENDS Naturals, Listener

CONSTANTS
    Programs,       \* programs that connect
    MAX_LISTENERS,  \* slots of listeners[] (20)
    UNREAD,         \* messages the socket of a listener takes
    MAX_EVENTS,     \* bound: events of initng
    MAX_HUPS,       \* bound: SIGHUPs
    NONE

Slots == 1..MAX_LISTENERS

VARIABLES
    sock,           \* io_event_acceptor.fds and sock_stat
    is_active,      \* the event hooks are registered
    listeners,      \* the program behind the descriptor of every slot
    clock,          \* events so far
    at,             \* slot send_to_all stands on, 0 when it is not running
    prog,           \* where every program stands
    sent,           \* the last event a listener was sent
    unread,         \* messages it has not read
    reopened,       \* the listening socket was reopened since it connected
    hups

vars == <<sock, is_active, listeners, clock, at, prog, sent, unread, reopened, hups>>

TypeOK ==
    /\ sock \in Sockets /\ is_active \in BOOLEAN
    /\ listeners \in [Slots -> Programs \cup {NONE}]
    /\ clock \in Nat /\ at \in 0..MAX_LISTENERS /\ hups \in Nat
    /\ prog \in [Programs -> {"off", "waiting", "up"}]
    /\ sent \in [Programs -> Nat] /\ unread \in [Programs -> Nat] /\ reopened \in [Programs -> BOOLEAN]

\* open_initiator_socket; the hooks are gone with the old one (CloseInitiatorSocket).
open_initiator_socket(s, out) == OpenSocket(s, out)

\* module_init: no listeners, no hooks, and the first socket.
Init ==
    /\ listeners = [i \in Slots |-> NONE]
    /\ sock \in {open_initiator_socket(Closed, out) : out \in Outcomes}
    /\ is_active = FALSE /\ clock = 0 /\ at = 0 /\ hups = 0
    /\ prog = [c \in Programs |-> "off"] /\ sent = [c \in Programs |-> 0]
    /\ unread = [c \in Programs |-> 0] /\ reopened = [c \in Programs |-> FALSE]

-----------------------------------------------------------------------------
\* One of astatus_change, system_state_change, system_pipe_watchers, print_error
\* and handle_killed is called, if registered, and starts send_to_all.
Event ==
    /\ at = 0 /\ clock < MAX_EVENTS
    /\ clock' = clock + 1
    /\ at' = IF is_active THEN 1 ELSE 0
    /\ UNCHANGED <<sock, is_active, listeners, prog, sent, unread, reopened, hups>>

\* The next slot, or the end of the loop.
After(i) == IF i = MAX_LISTENERS THEN 0 ELSE i + 1

\* A wrong version: the walk over the table stops at the first free slot.
SkipFreeEnds ==
    /\ at > 0 /\ listeners[at] = NONE
    /\ at' = 0
    /\ UNCHANGED <<sock, is_active, listeners, clock, prog, sent, unread, reopened, hups>>

\* send_to_all at a slot that is not set.
SkipFree ==
    /\ at > 0 /\ listeners[at] = NONE
    /\ at' = After(at)
    /\ UNCHANGED <<sock, is_active, listeners, clock, prog, sent, unread, reopened, hups>>

\* send_to_all at a listener that has room for the message.
SendOne ==
    /\ at > 0 /\ listeners[at] # NONE
    /\ LET c == listeners[at]
       IN /\ prog[c] = "up" /\ unread[c] < UNREAD
          /\ sent' = [sent EXCEPT ![c] = clock] /\ unread' = [unread EXCEPT ![c] = @ + 1]
    /\ at' = After(at)
    /\ UNCHANGED <<sock, is_active, listeners, clock, prog, reopened, hups>>

\* send_to_all at a listener that is gone: its slot is freed.
SendFails ==
    /\ at > 0 /\ listeners[at] # NONE
    /\ prog[listeners[at]] = "off"
    /\ listeners' = [listeners EXCEPT ![at] = NONE]
    /\ at' = After(at)
    /\ UNCHANGED <<sock, is_active, clock, prog, sent, unread, reopened, hups>>

\* Slots event_acceptor may take.
FreeSlots == {i \in Slots : listeners[i] = NONE}

\* event_acceptor: the first free slot, the hooks if they are not registered,
\* accept(), and the present state.  With no free slot it returns and leaves the
\* program waiting; a failing accept() leaves the hooks registered.
EventAcceptor(c, accepted) ==
    /\ at = 0 /\ sock.fd /\ prog[c] = "waiting" /\ FreeSlots # {}
    /\ is_active' = TRUE
    /\ IF accepted
         THEN LET i == CHOOSE j \in FreeSlots : \A k \in FreeSlots : j <= k
              IN /\ listeners' = [listeners EXCEPT ![i] = c]
                 /\ prog' = [prog EXCEPT ![c] = "up"] /\ sent' = [sent EXCEPT ![c] = clock]
                 /\ unread' = [unread EXCEPT ![c] = 1] /\ reopened' = [reopened EXCEPT ![c] = FALSE]
         ELSE /\ prog' = [prog EXCEPT ![c] = "off"]
              /\ UNCHANGED <<listeners, sent, unread, reopened>>
    /\ UNCHANGED <<sock, clock, at, hups>>

\* close_initiator_socket of an open socket unregisters the hooks; whoever
\* waits behind it is refused, whoever listens stays in the table.
CloseInitiatorSocket ==
    /\ is_active' = FALSE
    /\ reopened' = [c \in Programs |-> TRUE]

\* The ping of check_socket: send_to_all in one go, to those that have room
\* (a gone listener is found here as well); it waits while one has not.
Pinged ==
    [i \in Slots |-> IF listeners[i] # NONE /\ prog[listeners[i]] = "off" THEN NONE ELSE listeners[i]]

HasRoom == \A i \in Slots : listeners[i] # NONE /\ prog[listeners[i]] = "up" => unread[listeners[i]] < UNREAD

\* check_socket on SIGHUP: ping, then reopen a socket that is closed, or whose
\* file is gone or replaced (open_initiator_socket).
CheckSocketHup(out) ==
    /\ at = 0 /\ hups < MAX_HUPS /\ HasRoom
    /\ hups' = hups + 1
    /\ listeners' = Pinged
    /\ unread' = [c \in Programs |-> IF \E i \in Slots : Pinged[i] = c THEN unread[c] + 1 ELSE unread[c]]
    /\ sock' = IF Reachable(sock) THEN sock ELSE open_initiator_socket(sock, out)
    /\ IF sock.fd /\ ~Reachable(sock) THEN CloseInitiatorSocket
                                      ELSE UNCHANGED <<is_active, reopened>>
    /\ prog' = [c \in Programs |-> IF prog[c] = "waiting" /\ ~Reachable(sock) THEN "off" ELSE prog[c]]
    /\ UNCHANGED <<clock, at, sent>>

-----------------------------------------------------------------------------
\* The outside world: programs connect, read and leave; the file is lost.
Connect(c) ==
    /\ Reachable(sock) /\ prog[c] = "off" /\ \A i \in Slots : listeners[i] # c
    /\ prog' = [prog EXCEPT ![c] = "waiting"]
    /\ UNCHANGED <<sock, is_active, listeners, clock, at, sent, unread, reopened, hups>>

ReadOne(c) ==
    /\ prog[c] = "up" /\ unread[c] > 0
    /\ unread' = [unread EXCEPT ![c] = @ - 1]
    /\ UNCHANGED <<sock, is_active, listeners, clock, at, prog, sent, reopened, hups>>

Leave(c) ==
    /\ prog[c] = "up"
    /\ prog' = [prog EXCEPT ![c] = "off"]
    /\ UNCHANGED <<sock, is_active, listeners, clock, at, sent, unread, reopened, hups>>

LoseFile ==
    /\ sock.file = "ours"
    /\ \E f \in {"none", "other"} : sock' = [sock EXCEPT !.file = f]
    /\ UNCHANGED <<is_active, listeners, clock, at, prog, sent, unread, reopened, hups>>

Next ==
    \/ Event \/ SkipFree \/ SendOne \/ SendFails
    \/ \E out \in Outcomes : CheckSocketHup(out)
    \/ LoseFile
    \/ \E c \in Programs : Connect(c) \/ ReadOne(c) \/ Leave(c)
                           \/ \E accepted \in BOOLEAN : EventAcceptor(c, accepted)

Spec == Init /\ [][Next]_vars

-----------------------------------------------------------------------------
\* Slots the running send_to_all has already passed.
Passed(i) == at = 0 \/ i < at

\* No listener misses an event in silence: whoever is in the table and connected
\* since the socket was last reopened has been sent every event so far, up to the
\* one being sent, whoever else came, left or stopped reading meanwhile.  (A
\* reopening unregisters the hooks, and the listeners from before it hear nothing
\* until another program connects: close_initiator_socket, event_acceptor.)
NothingMissed ==
    \A i \in Slots : LET c == listeners[i] IN
        c # NONE /\ prog[c] = "up" /\ ~reopened[c] =>
            /\ is_active
            /\ sent[c] = IF Passed(i) THEN clock ELSE clock - 1

\* A program is in one slot only: no event is sent to it twice.
OneSlot ==
    \A i, j \in Slots : listeners[i] # NONE /\ listeners[i] = listeners[j] => i = j

\* A program that waits to be accepted is in no slot yet.
WaitsOutside ==
    \A c \in Programs : prog[c] = "waiting" => \A i \in Slots : listeners[i] # c

\* What NothingMissed rests on.
IInv == TypeOK /\ NothingMissed /\ OneSlot /\ WaitsOutside
=============================================================================
