----------------------------- MODULE MCServers ------------------------------
(***************************************************************************)
(* The servers of initng and their clients, each by itself in one run: the *)
(* listings of ngc4 (the module extended here), and by INSTANCE the        *)
(* requests of ngc4, the nge server and its client's reader, the ngcs      *)
(* server, and the packing of ngcs structures.  The components share no    *)
(* state; part says which of them the behaviour belongs to.                *)
(***************************************************************************)
EXTENDS Ngc4Rows, Integers, Sequences, TLC

CONSTANTS
    Clients,    \* programs that connect to ngcs and ngc4
    Listeners,  \* programs that connect to nge
    SELF, NONE

ClientSymmetry == Permutations(Clients)

NgcsRequests ==
    [cmd : {"start", "command"}, svc : {"s"}, ok : BOOLEAN]
    \cup [cmd : {"bad", "hot_reload", "stop", "watch", "watchall", "swatch", "ewatch", "zap", "unknown"}, svc : {"s"}, ok : {TRUE}]

NgeTags ==
    LET header == <<"<", "?", "/", ">">>
        connect == <<"<", "c", "/", ">">>
        event == <<"<", "e", "/", ">">>
        ping == <<"<", "p", "/", ">">>
        output == <<"<", "e", ">", "t", "<", "/", "e", ">">>
        disconnect == <<"<", "/", "d", ">">>
    IN <<header, connect, output, event, ping, output, disconnect>>

Request(t, opt, body, null) ==
    [p_ver |-> TRUE, c |-> "s", type |-> t, opt |-> opt, body |-> body, null |-> null]
PingRequest == [Request("NONE", "NO_OPT", FALSE, FALSE) EXCEPT !.c = "X"]

Ngc4Requests ==
    {PingRequest, [PingRequest EXCEPT !.p_ver = FALSE],
     Request("NONE", "NO_OPT", FALSE, FALSE),
     [Request("INT_COMMAND", "NO_OPT", FALSE, FALSE) EXCEPT !.c = "c"],
     Request("INT_COMMAND", "NO_OPT", TRUE, FALSE),
     Request("PAYLOAD_COMMAND", "REQUIRES_OPT", FALSE, FALSE),
     Request("PAYLOAD_COMMAND", "USES_OPT", TRUE, FALSE),
     Request("STRING_COMMAND", "USES_OPT", FALSE, TRUE),
     Request("COMMAND_FAIL", "USES_OPT", FALSE, TRUE)}

\* Of every type: NULL 0, INT 1, STRING 2, LONG 4.
PackItems ==
    {[type |-> 0, v |-> <<>>], [type |-> 1, v |-> <<7>>], [type |-> 2, v |-> <<>>],
     [type |-> 2, v |-> <<2, 1>>], [type |-> 4, v |-> <<3, 1>>]}

\* What the listings look like while another component runs.
Idle == Init /\ cmd = "states" /\ left = 0

VARIABLES
    part,       \* the component that runs
    x1, x2, x3, x4, x5, x6, x7, x8, x9, x10, x11, x12, x13, x14   \* its variables

S == INSTANCE Ngcs WITH
    Svc <- {"s"}, CAP <- 2, Requests <- NgcsRequests, REQS <- 2, EVENTS <- 3, w <- x1,
    sock <- x2, cli <- x3, events <- x4, reqs <- x5, alive <- x6

E == INSTANCE Nge WITH
    Programs <- Listeners, MAX_LISTENERS <- 2, UNREAD <- 1, MAX_EVENTS <- 2, MAX_HUPS <- 1,
    sock <- x1, is_active <- x2, listeners <- x3, clock <- x4, at <- x5, prog <- x6, sent <- x7,
    unread <- x8, reopened <- x9, hups <- x10

C == INSTANCE NgeClient WITH
    Tags <- NgeTags, RECV <- 6, stream <- x1, buffer <- x2, cut <- x3, events <- x4, torn <- x5,
    stuck <- x6, type <- x7

G == INSTANCE Ngc4 WITH
    Progs <- Clients, Requests <- Ngc4Requests, BACKLOG <- 2, MAX_HUPS <- 1, sock <- x1,
    backlog <- x2, at <- x3, cur <- x4, ping <- x5, req <- x6, wrote <- x7, open <- x8,
    closed <- x9, out <- x10, data <- x11, res <- x12, ran <- x13, hups <- x14

P == INSTANCE NgcsPack WITH
    Items <- PackItems, MAX_ITEMS <- 3, MAX_INT <- 31, Broken <- {0 - 1, 0, 1, 3, 31},
    items <- x1, at <- x2, n <- x3, size <- x4, buf <- x5, wire <- x6, d <- x7, l <- x8,
    room <- x9, res <- x10, ret <- x11

\* The variables behind the first n, which a component with n of them leaves alone.
rest11 == <<x12, x13, x14>>
rest10 == <<x11, rest11>>
rest7 == <<x8, x9, x10, rest10>>
rest6 == <<x7, rest7>>
rest0 == <<x1, x2, x3, x4, x5, x6, rest6>>
Free11 == x12 = NONE /\ x13 = NONE /\ x14 = NONE
Free10 == x11 = NONE /\ Free11
Free7 == x8 = NONE /\ x9 = NONE /\ x10 = NONE /\ Free10
Free6 == x7 = NONE /\ Free7
Free0 == x1 = NONE /\ x2 = NONE /\ x3 = NONE /\ x4 = NONE /\ x5 = NONE /\ x6 = NONE /\ Free6

ServersInit ==
    \/ part = "rows" /\ Init /\ Free0
    \/ part = "ngcs" /\ S!Init /\ Idle /\ Free6
    \/ part = "nge" /\ E!Init /\ Idle /\ Free10
    \/ part = "nge_client" /\ C!Init /\ Idle /\ Free7
    \/ part = "ngc4" /\ G!Init /\ Idle
    \/ part = "pack" /\ P!Init /\ Idle /\ Free11

ServersNext ==
    \/ part = "rows" /\ Next /\ UNCHANGED <<part, rest0>>
    \/ part = "ngcs" /\ S!Next /\ UNCHANGED <<part, vars, rest6>>
    \/ part = "nge" /\ E!Next /\ UNCHANGED <<part, vars, rest10>>
    \/ part = "nge_client" /\ C!Next /\ UNCHANGED <<part, vars, rest7>>
    \/ part = "ngc4" /\ G!Next /\ UNCHANGED <<part, vars>>
    \/ part = "pack" /\ P!Next /\ UNCHANGED <<part, vars, rest11>>

ServersSpec == ServersInit /\ [][ServersNext]_<<part, vars, rest0>>

-----------------------------------------------------------------------------
\* ngcs: a client is told of a channel before anything is sent on it.
AnnouncedFirst == part = "ngcs" => S!AnnouncedFirst

\* ngcs: every request is answered once.
OneAnswer == part = "ngcs" => S!OneAnswer


\* nge: no listener misses an event in silence, or is sent one twice.
NothingMissed == part = "nge" => E!NothingMissed /\ E!OneSlot


\* ngc4: what a client is told of its command is what was done, and nobody is
\* answered who has not asked.
TruthfulReply == part = "ngc4" => G!TruthfulReply /\ G!AnsweredAsked

=============================================================================
