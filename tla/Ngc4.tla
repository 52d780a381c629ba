-------------------------------- MODULE Ngc4 --------------------------------
(***************************************************************************)
(* The ngc4 module and its client library: one command per connection.     *)
(* initng accepts a connection, reads the header, reads the body, runs the *)
(* command, sends the result and the payload and closes, all in one call   *)
(* from the main loop, on blocking descriptors.  After opening its socket  *)
(* it sends a ping to itself and serves it with the same accepted_client.  *)
(*                                                                         *)
(* A request is a record of what handle_client looks at.                   *)
(***************************************************************************)
EXTENDS Naturals, Sequences, Listener

CONSTANTS
    Progs,          \* programs that use libngcclient
    SELF,           \* initng as its own client (sendping)
    Requests,       \* what they may ask
    BACKLOG,        \* connections that may wait (listen(fds, 5))
    MAX_HUPS,       \* bound: SIGHUPs
    NONE

Conns == Progs \cup {SELF}

\* [p_ver, c, type, opt, body, null]: the protocol matches; the ping, the reload
\* command or another; com_type ("NONE" for an unknown command); opt_type; an option
\* is sent along; a string command returns NULL.
Ping == [p_ver |-> TRUE, c |-> "X", type |-> "NONE", opt |-> "NO_OPT", body |-> FALSE, null |-> FALSE]

Statuses == {"S_TRUE", "S_COMMAND_NOT_FOUND", "S_REQUIRES_OPT", "S_NOT_REQUIRES_OPT", "S_INVALID_TYPE"}

VARIABLES
    sock,           \* fdh.fds and sock_stat
    backlog,        \* connections not yet accepted
    at,             \* where initng stands
    cur,            \* the connection it serves
    ping,           \* the call is the one sendping makes
    req,            \* the request of every connection
    wrote,          \* how much of it was sent: "nothing", "header", "all"
    open,           \* the client has not closed
    closed,         \* initng has closed
    out,            \* the result initng sent
    data,           \* the payload was sent
    res,            \* what ngcclient_send_command returned
    ran,            \* times the command of a connection was run
    hups

conns == <<req, wrote, open, closed, out, data, res, ran>>
vars == <<sock, backlog, at, cur, ping, req, wrote, open, closed, out, data, res, ran, hups>>

\* open_socket up to its sendping, which is a call of its own below.
open_socket(s, o) == OpenSocket(s, o)

\* module_init.
Init ==
    /\ sock \in {open_socket(Closed, o) : o \in Outcomes}
    /\ backlog = <<>> /\ cur = NONE /\ ping = FALSE /\ hups = 0
    /\ at = IF sock.fd THEN "listening" ELSE "idle"
    /\ req = [c \in Conns |-> Ping] /\ wrote = [c \in Conns |-> "nothing"]
    /\ open = [c \in Conns |-> FALSE] /\ closed = [c \in Conns |-> FALSE]
    /\ out = [c \in Conns |-> NONE] /\ data = [c \in Conns |-> FALSE]
    /\ res = [c \in Conns |-> NONE] /\ ran = [c \in Conns |-> 0]

-----------------------------------------------------------------------------
\* A connection is made: connect() of the library, or of sendping.
Connected(c, r, w) ==
    /\ backlog' = Append(backlog, c)
    /\ req' = [req EXCEPT ![c] = r] /\ wrote' = [wrote EXCEPT ![c] = w]
    /\ open' = [open EXCEPT ![c] = TRUE] /\ closed' = [closed EXCEPT ![c] = FALSE]
    /\ out' = [out EXCEPT ![c] = NONE] /\ data' = [data EXCEPT ![c] = FALSE]
    /\ res' = [res EXCEPT ![c] = NONE] /\ ran' = [ran EXCEPT ![c] = 0]

\* Closing the listening socket resets whoever waits behind it.
Reset == [c \in Conns |-> closed[c] \/ \E i \in 1..Len(backlog) : backlog[i] = c]

\* closesock: the connections that were not accepted are reset with it.
Closesock ==
    /\ sock' = CloseSock(sock)
    /\ closed' = Reset /\ backlog' = <<>>

\* sendping: initng connects to its own socket and writes the header.
SendpingConnect ==
    /\ at = "listening"
    /\ Reachable(sock) /\ Len(backlog) < BACKLOG
    /\ Connected(SELF, Ping, "all")
    /\ at' = "accept" /\ ping' = TRUE
    /\ UNCHANGED <<sock, cur, hups>>

\* sendping: connect() failed, the file is not ours any more.
SendpingFails ==
    /\ at = "listening" /\ ~Reachable(sock)
    /\ Closesock
    /\ at' = "idle"
    /\ UNCHANGED <<cur, ping, req, wrote, open, out, data, res, ran, hups>>

\* fdh_handler sees the socket readable, or sendping calls: accepted_client takes
\* the connection that has waited longest.
AcceptedClient ==
    /\ at \in {"idle", "accept"} /\ backlog # <<>>
    /\ cur' = Head(backlog) /\ backlog' = Tail(backlog)
    /\ at' = "header"
    /\ UNCHANGED <<sock, ping, conns, hups>>

\* accept() fails: the listening socket is closed.
AcceptFails ==
    /\ at = "idle" /\ backlog # <<>>
    /\ Closesock
    /\ UNCHANGED <<at, cur, ping, req, wrote, open, out, data, res, ran, hups>>

\* handle_client returns and accepted_client closes the connection.
Done ==
    /\ closed' = [closed EXCEPT ![cur] = TRUE]
    /\ at' = IF ping THEN "pong" ELSE "idle"
    /\ cur' = NONE

\* recv() of the header: it waits for it.  A client that closed first, and one of
\* another protocol version (after the reload command, which is not found or
\* fails when initng is still here), get no reply.
ReadHeader ==
    /\ at = "header"
    /\ wrote[cur] # "nothing" \/ ~open[cur]
    /\ IF wrote[cur] = "nothing" \/ ~req[cur].p_ver THEN Done
       ELSE /\ at' = IF req[cur].body THEN "body" ELSE "command"
            /\ UNCHANGED <<cur, closed>>
    /\ UNCHANGED <<sock, backlog, ping, req, wrote, open, out, data, res, ran, hups>>

\* recv() of the body.
ReadBody ==
    /\ at = "body"
    /\ wrote[cur] = "all" \/ ~open[cur]
    /\ IF wrote[cur] # "all" THEN Done ELSE at' = "command" /\ UNCHANGED <<cur, closed>>
    /\ UNCHANGED <<sock, backlog, ping, req, wrote, open, out, data, res, ran, hups>>

\* What is wrong with a request, or that nothing is.
Status(r) ==
    CASE r.c = "X" -> "S_TRUE"
      [] r.type = "NONE" -> "S_COMMAND_NOT_FOUND"
      [] r.opt = "REQUIRES_OPT" /\ ~r.body -> "S_REQUIRES_OPT"
      [] r.opt = "NO_OPT" /\ r.body -> "S_NOT_REQUIRES_OPT"
      [] r.type = "COMMAND_FAIL" -> "S_INVALID_TYPE"
      [] OTHER -> "S_TRUE"

Send(c, s) == out' = IF open[c] THEN [out EXCEPT ![c] = s] ELSE out

\* A wrong version: the command is run before its option is looked at.
HandleClientRunsFirst ==
    /\ at = "command"
    /\ LET r == req[cur] IN
       /\ ran' = [ran EXCEPT ![cur] = IF r.c = "X" \/ r.type \in {"NONE", "COMMAND_FAIL"} THEN @ ELSE @ + 1]
       /\ Send(cur, Status(r)) /\ Done
    /\ UNCHANGED <<sock, backlog, ping, req, wrote, open, data, res, hups>>

\* handle_client from the ping check on: a bad request and the ping are answered
\* at once, a command is run and answered by its type; a NULL string is not.
HandleClient ==
    /\ at = "command"
    /\ LET r == req[cur]
           runs == Status(r) = "S_TRUE" /\ r.c # "X"
       IN /\ ran' = [ran EXCEPT ![cur] = IF runs THEN @ + 1 ELSE @]
          /\ IF runs /\ r.type = "STRING_COMMAND" /\ r.null
               THEN UNCHANGED out /\ Done
             ELSE /\ Send(cur, Status(r))
                  /\ IF runs /\ open[cur] THEN at' = "payload" /\ UNCHANGED <<cur, closed>>
                                          ELSE Done
    /\ UNCHANGED <<sock, backlog, ping, req, wrote, open, data, res, hups>>

\* The second send(), of the int, the string or the rows.
SendPayload ==
    /\ at = "payload"
    /\ data' = [data EXCEPT ![cur] = open[cur]]
    /\ Done
    /\ UNCHANGED <<sock, backlog, ping, req, wrote, open, out, res, ran, hups>>

\* sendping reads the pong: the answer, or the end of a connection that was
\* closed without one.  Until then it waits.
ReadPong ==
    /\ at = "pong" /\ (out[SELF] # NONE \/ closed[SELF])
    /\ at' = "idle" /\ ping' = FALSE
    /\ open' = [open EXCEPT ![SELF] = FALSE]
    /\ IF out[SELF] = "S_TRUE" THEN UNCHANGED <<sock, closed, backlog>> ELSE Closesock
    /\ UNCHANGED <<cur, req, wrote, out, data, res, ran, hups>>

\* check_socket on SIGHUP: a socket that is closed, gone or replaced is opened
\* again, and a ping sent.
CheckSocketHup(o) ==
    /\ at = "idle" /\ hups < MAX_HUPS
    /\ hups' = hups + 1
    /\ sock' = IF Reachable(sock) THEN sock ELSE open_socket(sock, o)
    /\ IF Reachable(sock) THEN UNCHANGED <<closed, backlog, at>>
       ELSE /\ closed' = Reset /\ backlog' = <<>>
            /\ at' = IF sock'.fd THEN "listening" ELSE "idle"
    /\ UNCHANGED <<cur, ping, req, wrote, open, out, data, res, ran>>

-----------------------------------------------------------------------------
\* ngcclient_send_command: connect, send the header, send the body.
Connect(c, r) ==
    /\ ~open[c] /\ res[c] = NONE /\ cur # c
    /\ Reachable(sock) /\ Len(backlog) < BACKLOG
    /\ Connected(c, r, "nothing")
    /\ UNCHANGED <<sock, at, cur, ping, hups>>

SendRequest(c) ==
    /\ open[c] /\ wrote[c] # "all" /\ c # SELF
    /\ wrote' = [wrote EXCEPT ![c] = IF @ = "nothing" /\ req[c].body THEN "header" ELSE "all"]
    /\ UNCHANGED <<sock, backlog, at, cur, ping, req, open, closed, out, data, res, ran, hups>>

\* The rest of ngcclient_send_command: the reply to the reload command is made
\* up; otherwise the result, and the payload of a good one, or an error.
FetchResult(c) ==
    /\ open[c] /\ c # SELF
    /\ \/ wrote[c] = "all" /\ req[c].c = "c" /\ res' = [res EXCEPT ![c] = "fabricated"]
       \/ req[c].c # "c" /\ out[c] # NONE /\ (closed[c] \/ data[c])
          /\ res' = [res EXCEPT ![c] = out[c]]
       \/ req[c].c # "c" /\ out[c] = NONE /\ closed[c] /\ res' = [res EXCEPT ![c] = "no result"]
    /\ open' = [open EXCEPT ![c] = FALSE]
    /\ UNCHANGED <<sock, backlog, at, cur, ping, req, wrote, closed, out, data, ran, hups>>

\* A client is killed, at any point.
Killed(c) ==
    /\ open[c] /\ c # SELF
    /\ open' = [open EXCEPT ![c] = FALSE] /\ res' = [res EXCEPT ![c] = "killed"]
    /\ UNCHANGED <<sock, backlog, at, cur, ping, req, wrote, closed, out, data, ran, hups>>

LoseFile ==
    /\ sock.file = "ours"
    /\ \E f \in {"none", "other"} : sock' = [sock EXCEPT !.file = f]
    /\ UNCHANGED <<backlog, at, cur, ping, conns, hups>>

Serve ==
    \/ SendpingConnect \/ SendpingFails \/ AcceptedClient \/ ReadHeader \/ ReadBody
    \/ HandleClient \/ SendPayload \/ ReadPong

Client(c) ==
    \/ \E r \in Requests : Connect(c, r)
    \/ SendRequest(c) \/ FetchResult(c) \/ Killed(c)

Next ==
    \/ Serve \/ AcceptFails \/ LoseFile
    \/ \E o \in Outcomes : CheckSocketHup(o)
    \/ \E c \in Progs : Client(c)

Spec == Init /\ [][Next]_vars

-----------------------------------------------------------------------------
\* What a client is told is what was done: a command whose result is S_TRUE was
\* run once, one that was refused was not run at all, and no request is ever run
\* twice, however the connections queue up, are reset by a reopened socket, or
\* die half way through their request.  (The reply to the reload command is made
\* up by the library.)
TruthfulReply ==
    \A c \in Progs :
        /\ ran[c] <= 1
        /\ res[c] = "S_TRUE" /\ req[c].c # "X" => ran[c] = 1
        /\ res[c] \in Statuses \ {"S_TRUE"} => ran[c] = 0

\* A reply belongs to the connection it is sent on: nobody is answered without
\* having sent a whole request of this protocol version.
AnsweredAsked ==
    \A c \in Conns : out[c] # NONE =>
        /\ wrote[c] = "all" /\ req[c].p_ver /\ out[c] = Status(req[c])
=============================================================================
