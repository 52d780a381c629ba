-------------------------------- MODULE Ngcs --------------------------------
(***************************************************************************)
(* The ngcs module: a control server that multiplexes channels over UNIX   *)
(* sockets.  Channel 0 of a connection carries requests and their answers; *)
(* start, stop and watch requests open further channels, on which the      *)
(* server sends service states and output.                                 *)
(*                                                                         *)
(* The server runs inside the main loop of initng: a handler runs to its   *)
(* end before the next descriptor is looked at.  The clients, which read,  *)
(* write and disappear at any time, are external; they speak the protocol  *)
(* of ngcs_common.h.  A message is one unit: a short send() keeps whole    *)
(* messages in wrbuf, and a message cut off by its sender makes            *)
(* ngcs_recvall fail.  malloc does not fail.                               *)
(*                                                                         *)
(* Every server channel is registered with ngcs_chan_del as onclose, so    *)
(* ngcs_chan_close (on a closed connection), ngcs_chan_closed and          *)
(* ngcs_chan_del all end in the same place: onfree, list_del and free.     *)
(* Messages initng logs inside a handler are taken to come right after it. *)
(***************************************************************************)
EXTENDS Integers, Sequences, FiniteSets, FiniteSetsExt, SequencesExt, Listener

CONSTANTS
    Clients,
    Svc,        \* services that exist or can be loaded
    CAP,        \* messages a socket buffer takes
    Requests,   \* the requests the clients make
    REQS,       \* bound: requests of all clients
    EVENTS      \* bound: connections, events of initng and losses of the socket file

VARIABLES
    w,          \* the server: w.conn, w.watches, w.gens, and the sockets' contents
    sock,       \* fdh and sock_stat
    cli,        \* the clients
    events,     \* connections, events and losses so far
    reqs,       \* requests so far
    alive       \* initng has not crashed

vars == <<w, sock, cli, events, reqs, alive>>

Msg(ch, t, n) == [ch |-> ch, t |-> t, n |-> n]
NoConn == [is |-> "none", chans |-> [k \in {} |-> ""], next |-> 1, out |-> <<>>, pollwrite |-> FALSE]

-----------------------------------------------------------------------------
\* Channels and connections (ngcs_common.c)

\* ngcs_conn_from_fd and the channel 0 that accepted_client registers.
ConnFromFd == [is |-> "open", chans |-> [k \in {0} |-> "cmd"], next |-> 1, out |-> <<>>, pollwrite |-> FALSE]


\* ngcs_free_watch, the onfree of a watch channel: its userdata is its watch.
FreeWatch(v, c, k) ==
    [v EXCEPT !.watches = SelectSeq(@, LAMBDA x : ~(x.c = c /\ x.ch = k))]

\* ngcs_free_genwatch, the onfree of a swatch or ewatch channel: nobody sets
\* the userdata of these channels, so it returns at once.
FreeGenwatch(v, c, k) == v

OnFree(v, c, k) ==
    CASE v.conn[c].chans[k] = "watch" -> FreeWatch(v, c, k)
      [] v.conn[c].chans[k] = "gen"   -> FreeGenwatch(v, c, k)
      [] OTHER                        -> v

\* ngcs_chan_del of a closed channel, and everything that ends there.
ChanDel(v, c, k) ==
    LET f == OnFree(v, c, k)
    IN [f EXCEPT !.conn[c].chans = [j \in DOMAIN @ \ {k} |-> @[j]]]

\* ngcs_conn_close: the descriptor is closed, every channel is closed and so
\* freed, and handle_close moves the connection to the dead ones.
ConnClose(v, c) ==
    IF v.conn[c].is # "open" THEN v
    ELSE LET f == FoldSet(LAMBDA k, x : ChanDel(x, c, k), v, DOMAIN v.conn[c].chans)
         IN [f EXCEPT !.conn[c].is = "dead", !.conn[c].pollwrite = FALSE]

\* ngcs_conn_write_ready: send() what fits; a peer that is gone closes the
\* connection.  pollmode_hook remembers whether something is left.
WriteReady(v, c) ==
    LET o == v.conn[c].out
        n == Min({Len(o), CAP - Len(v.toCli[c])})
    IN IF v.conn[c].is # "open" \/ o = <<>> THEN v
       ELSE IF v.gone[c] THEN ConnClose(v, c)
       ELSE [v EXCEPT !.toCli[c] = @ \o SubSeq(o, 1, n),
                      !.conn[c].out = SubSeq(o, n + 1, Len(o)),
                      !.conn[c].pollwrite = n < Len(o)]

\* ngcs_conn_send (and ngcs_chan_send): append to wrbuf and try to write.  It
\* fails exactly when the connection is closed afterwards.
Send(v, c, m) ==
    IF v.conn[c].is # "open" THEN v
    ELSE WriteReady([v EXCEPT !.conn[c].out = Append(@, m)], c)

\* ngcs_chan_reg with the next free id (ngcs_open_channel).
OpenChannel(v, c, kind) ==
    LET k == v.conn[c].next
    IN [v EXCEPT !.conn[c].chans = (k :> kind) @@ @, !.conn[c].next = k + 1]

\* clean_dead_conns: ngcs_conn_free of every dead connection.
CleanDeadConns(v) ==
    [v EXCEPT !.conn = [c \in Clients |-> IF @[c].is = "dead" THEN NoConn ELSE @[c]]]

-----------------------------------------------------------------------------
\* Commands (initng_ngcs_cmds.c)

\* ngcs_send_response is called once by every handler below.
Response(v, c, t, n) == Send(v, c, Msg(0, t, n))

\* ngcs_add_watch
AddWatch(v, c, name, flags) ==
    LET o == OpenChannel(v, c, "watch")
    IN [o EXCEPT !.watches = <<[c |-> c, ch |-> v.conn[c].next, name |-> name, flags |-> flags]>> \o @]

\* ngcs_watch_initial: the present state of the watched services, one message
\* each, and then NULL; it gives up when the connection has been closed.
WatchInitial(v, c, k, name, flags) ==
    LET told == IF "current" \in flags
                  THEN Cardinality({s \in v.db : name = "*" \/ name = s}) ELSE 0
        f == FoldSet(LAMBDA i, x : Send(x, c, Msg(k, "status", 0)), v, 1..told)
    IN Send(f, c, Msg(k, "now", 0))

\* A wrong version: the state is sent before the client knows the channel.
WatchedLate(v, c, name, flags) ==
    LET k == v.conn[c].next
    IN Response(WatchInitial(AddWatch(v, c, name, flags), c, k, name, flags), c, "int", k)

\* The common end of start, stop and watch: announce the channel, then use it.
Watched(v, c, name, flags) ==
    LET k == v.conn[c].next
    IN WatchInitial(Response(AddWatch(v, c, name, flags), c, "int", k), c, k, name, flags)

\* ngcs_cmd_start of a known service, of one that start_new_service_named
\* loads, and of one it does not find.
CmdStart(v, c, s, found) ==
    IF s \in v.db THEN Watched(v, c, s, {"status", "output", "current"})
    ELSE IF found THEN Watched([v EXCEPT !.db = @ \cup {s}], c, s, {"status", "output"})
    ELSE Response(v, c, "str", 0)

CmdStop(v, c, s) ==
    IF s \in v.db THEN Watched(v, c, s, {"status", "output", "current"})
    ELSE Response(v, c, "str", 0)

CmdWatch(v, c, name, flags) == Watched(v, c, name, flags)

\* ngcs_cmd_swatch and ngcs_cmd_ewatch: kind is the list the watch goes to.
CmdSwatch(v, c) ==
    LET k == v.conn[c].next
        o == OpenChannel(v, c, "gen")
    IN Response([o EXCEPT !.gens = @ \cup {[kind |-> "swatch", c |-> c, ch |-> k]}], c, "int", k)

CmdEwatch(v, c) ==
    LET k == v.conn[c].next
        o == OpenChannel(v, c, "gen")
    IN Response([o EXCEPT !.gens = @ \cup {[kind |-> "ewatch", c |-> c, ch |-> k]}], c, "int", k)

CmdZap(v, c, s) ==
    IF s \in v.db THEN Response([v EXCEPT !.db = @ \ {s}], c, "int", 0)
    ELSE Response(v, c, "str", 0)

\* ngcs_cmd_hot_reload when no module dumps the state, when the dump fails and
\* when execve comes back.
CmdHotReload(v, c, dumped) ==
    IF dumped THEN Response(v, c, "int", 1) ELSE Response(v, c, "err", 0)

\* ngcs_cmd_compat runs a command of the command database; found is FALSE when
\* the name is not one.  It answers with what the command returned, with an
\* error for the wrong number or type of arguments, or not at all.
CmdCompat(v, c, found, ok) ==
    IF found THEN Response(v, c, IF ok THEN "int" ELSE "err", 0) ELSE v

\* A wrong version: the default answer is sent whether or not the handler answered.
HandleChan0Twice(v, c, r) ==
    Send(CASE r.cmd = "start" -> CmdStart(v, c, r.svc, r.ok)
           [] r.cmd = "stop"  -> CmdStop(v, c, r.svc)
           [] OTHER           -> v, c, Msg(0, "null", 0))

\* handle_chan0: the named commands first, then ngcs_compat_cmds, the only one
\* without a name, and an error when that one did not answer.
HandleChan0(v, c, r) ==
    CASE r.cmd = "bad"        -> Response(v, c, "err", 0)
      [] r.cmd = "start"      -> CmdStart(v, c, r.svc, r.ok)
      [] r.cmd = "stop"       -> CmdStop(v, c, r.svc)
      [] r.cmd = "watch"      -> CmdWatch(v, c, r.svc, {"status"})
      [] r.cmd = "watchall"   -> CmdWatch(v, c, "*", {"output", "current"})
      [] r.cmd = "swatch"     -> CmdSwatch(v, c)
      [] r.cmd = "ewatch"     -> CmdEwatch(v, c)
      [] r.cmd = "zap"        -> CmdZap(v, c, r.svc)
      [] r.cmd = "hot_reload" -> CmdHotReload(v, c, r.ok)
      [] r.cmd = "command"    -> CmdCompat(v, c, TRUE, r.ok)
      [] r.cmd = "unknown"    -> Response(CmdCompat(v, c, FALSE, FALSE), c, "err", 0)

\* ngcs_conn_dispatch_one: a message for channel k.  Watch channels have no
\* gotdata; data for a channel that is not there is answered by closing it.
DispatchOne(v, c, m) ==
    IF m.ch \in DOMAIN v.conn[c].chans
      THEN IF m.t = "close" THEN ChanDel(v, c, m.ch)
           ELSE IF m.ch = 0 THEN HandleChan0(v, c, m.n) ELSE v
      ELSE IF m.t = "close" THEN v ELSE Send(v, c, Msg(m.ch, "close", 0))

\* ngcs_conn_data_ready and the clean_dead_conns of data_ready.  End of file and
\* a message that was cut off close the connection.
Received(v, c) ==
    LET q == v.toSrv[c]
    IN IF q = <<>> \/ Head(q).t = "cut"
         THEN ConnClose(v, c)
         ELSE DispatchOne([v EXCEPT !.toSrv[c] = Tail(q)], c, Head(q))

-----------------------------------------------------------------------------
\* Events of initng (the hooks of register_ngcs_cmds)

\* service_status_watch: every watch of the service, oldest first.
StatusWatch(v, s) ==
    FoldLeft(LAMBDA x, y : IF "status" \in y.flags /\ y.name \in {"*", s}
                             THEN Send(x, y.c, Msg(y.ch, "status", 0)) ELSE x,
             v, Reverse(v.watches))

\* service_output_watch gives up at the first watch that cannot be sent to.
OutputWatch(v, s) ==
    FoldLeft(LAMBDA x, y : IF x.stop \/ "output" \notin y.flags \/ y.name \notin {"*", s} THEN x
                           ELSE LET z == Send(x.v, y.c, Msg(y.ch, "output", 0))
                                IN [v |-> z, stop |-> z.conn[y.c].is # "open"],
             [v |-> v, stop |-> FALSE], Reverse(v.watches)).v

\* system_state_watch and error_watch send to every swatch and ewatch.
GenWatch(v, kind) ==
    FoldSet(LAMBDA g, x : IF g.ch \in DOMAIN x.conn[g.c].chans
                            THEN Send(x, g.c, Msg(g.ch, kind, 0)) ELSE x,
            v, {g \in v.gens : g.kind = kind})

\* A walk that closed a connection freed watches it may still have to visit, and
\* a swatch whose channel is gone leads to freed memory: initng may crash.
Stray(v, z, kind) ==
    \/ \E c \in Clients : v.conn[c].is = "open" /\ z.conn[c].is # "open"
    \/ \E g \in v.gens : g.kind = kind /\ g.ch \notin DOMAIN v.conn[g.c].chans

Event(kind, z) ==
    /\ alive /\ events < EVENTS
    /\ events' = events + 1 /\ w' = z /\ reqs' = reqs
    /\ alive' \in IF Stray(w, z, kind) THEN BOOLEAN ELSE {TRUE}
    /\ UNCHANGED <<sock, cli>>

ServiceStatus(s) == s \in w.db /\ Event("status", StatusWatch(w, s))
ServiceOutput(s) == s \in w.db /\ Event("output", OutputWatch(w, s))
SystemChange == Event("swatch", GenWatch(w, "swatch"))
ErrorMessage == Event("ewatch", GenWatch(w, "ewatch"))

-----------------------------------------------------------------------------
\* Descriptors

\* accepted_client: it first frees the dead connections.  accept() may fail for
\* now, or for good, which closes the listening socket.
AcceptedClient(c, out) ==
    /\ alive /\ sock.fd /\ cli[c].is = "waiting"
    /\ \/ out = "ok" /\ w' = [CleanDeadConns(w) EXCEPT !.conn[c] = ConnFromFd, !.gone[c] = FALSE,
                                                       !.toCli[c] = <<>>, !.toSrv[c] = <<>>]
                     /\ cli' = [cli EXCEPT ![c].is = "up"] /\ sock' = sock
       \/ out = "again" /\ w' = CleanDeadConns(w) /\ UNCHANGED <<cli, sock>>
       \/ out = "error" /\ w' = CleanDeadConns(w) /\ sock' = CloseSock(sock)
                        /\ cli' = [d \in Clients |-> IF cli[d].is = "waiting" THEN [cli[d] EXCEPT !.is = "off"]
                                                     ELSE cli[d]]
    /\ UNCHANGED <<events, reqs, alive>>

\* data_ready, called by conn_fdw_handler for a readable connection.  A
\* connection that was closed on the way has been freed by clean_dead_conns
\* when the walk of conn_fdw_handler goes on from it.
DataReady(c) ==
    /\ alive /\ w.conn[c].is = "open"
    /\ w.toSrv[c] # <<>> \/ w.gone[c]
    /\ LET z == Received(w, c)
       IN /\ w' = CleanDeadConns(z)
          /\ alive' \in IF z.conn[c].is = "open" THEN {TRUE} ELSE BOOLEAN
    /\ UNCHANGED <<sock, cli, events, reqs>>

\* service_status: a service is up, so the socket is looked after.
ServiceUp(out) ==
    /\ alive /\ events < EVENTS /\ events' = events + 1
    /\ sock' = CheckSocket(sock, out)
    /\ cli' = [d \in Clients |-> IF cli[d].is = "waiting" /\ sock' # sock
                                 THEN [cli[d] EXCEPT !.is = "off"] ELSE cli[d]]
    /\ UNCHANGED <<w, reqs, alive>>

-----------------------------------------------------------------------------
\* The outside world

\* Somebody removes or replaces the socket file.
FileLost(f) ==
    /\ sock.file = "ours" /\ events < EVENTS /\ events' = events + 1
    /\ sock' = [sock EXCEPT !.file = f]
    /\ UNCHANGED <<w, cli, reqs, alive>>

Connect(c) ==
    /\ alive /\ Reachable(sock) /\ cli[c].is = "off" /\ w.conn[c].is \in {"none", "dead"}
    /\ cli' = [cli EXCEPT ![c] = [is |-> "waiting", asked |-> 0, answered |-> 0, known |-> {}]]
    /\ events < EVENTS /\ events' = events + 1
    /\ UNCHANGED <<w, sock, reqs, alive>>

Request(c, r) ==
    /\ cli[c].is = "up" /\ reqs < REQS /\ reqs' = reqs + 1
    /\ cli' = [cli EXCEPT ![c].asked = @ + 1]
    /\ w' = [w EXCEPT !.toSrv[c] = Append(@, Msg(0, "req", r))]
    /\ UNCHANGED <<sock, events, alive>>

\* The client closes a channel it knows, or sends half a message.
CloseChannel(c, k) ==
    /\ cli[c].is = "up" /\ k \in cli[c].known /\ Len(w.toSrv[c]) < CAP
    /\ cli' = [cli EXCEPT ![c].known = @ \ {k}]
    /\ w' = [w EXCEPT !.toSrv[c] = Append(@, Msg(k, "close", 0))]
    /\ UNCHANGED <<sock, events, reqs, alive>>

\* The client reads a message.
ClientRead(c) ==
    /\ cli[c].is = "up" /\ w.toCli[c] # <<>>
    /\ LET m == Head(w.toCli[c])
       IN cli' = [cli EXCEPT ![c].answered = IF m.ch = 0 THEN @ + 1 ELSE @,
                             ![c].known = IF m.ch = 0 /\ m.t = "int" /\ m.n > 0 THEN @ \cup {m.n} ELSE @]
    /\ w' = [w EXCEPT !.toCli[c] = Tail(@)]
    /\ UNCHANGED <<sock, events, reqs, alive>>

\* The client goes away, perhaps in the middle of a message.
ClientGone(c, cut) ==
    /\ cli[c].is = "up"
    /\ cli' = [cli EXCEPT ![c].is = "off", ![c].known = {}]
    /\ w' = [w EXCEPT !.gone[c] = TRUE, !.toCli[c] = <<>>,
                      !.toSrv[c] = IF cut THEN Append(@, Msg(0, "cut", 0)) ELSE @]
    /\ UNCHANGED <<sock, events, reqs, alive>>

-----------------------------------------------------------------------------
\* module_init: empty lists and the first socket.
Init ==
    /\ w = [conn |-> [c \in Clients |-> NoConn], watches |-> <<>>, gens |-> {}, db |-> {},
            toCli |-> [c \in Clients |-> <<>>], toSrv |-> [c \in Clients |-> <<>>],
            gone |-> [c \in Clients |-> FALSE]]
    /\ sock \in {OpenSocket(Closed, out) : out \in Outcomes}
    /\ cli = [c \in Clients |-> [is |-> "off", asked |-> 0, answered |-> 0, known |-> {}]]
    /\ events = 0 /\ reqs = 0 /\ alive = TRUE

Next ==
    \/ \E s \in Svc : ServiceStatus(s) \/ ServiceOutput(s)
    \/ SystemChange \/ ErrorMessage
    \/ \E out \in Outcomes : ServiceUp(out)
    \/ \E f \in {"none", "other"} : FileLost(f)
    \/ \E c \in Clients :
          \/ \E out \in {"ok", "again", "error"} : AcceptedClient(c, out)
          \/ DataReady(c)
          \/ Connect(c)
          \/ \E r \in Requests : Request(c, r)
          \/ \E k \in cli[c].known : CloseChannel(c, k)
          \/ ClientRead(c)
          \/ \E cut \in BOOLEAN : ClientGone(c, cut)

Spec == Init /\ [][Next]_vars

-----------------------------------------------------------------------------
\* What the server still has to deliver to a client.
Stream(c) == w.toCli[c] \o w.conn[c].out

\* A client is never sent something on a channel it has not been told of: the
\* answer that carries the id comes first (ngcs_cmd_start, ngcs_cmd_stop and
\* ngcs_cmd_watch answer before ngcs_watch_initial).  A client that does not know
\* the channel would close it and lose the watch (ngcs_conn_dispatch_one).
AnnouncedFirst ==
    \A c \in Clients : cli[c].is = "up" =>
        \A i \in DOMAIN Stream(c) : LET m == Stream(c)[i] IN
            m.ch > 0 => \/ m.ch \notin DOMAIN w.conn[c].chans
                        \/ m.ch \in cli[c].known
                        \/ \E j \in 1..(i - 1) : Stream(c)[j] = Msg(0, "int", m.ch)
                        \/ \E j \in DOMAIN w.toSrv[c] : w.toSrv[c][j] = Msg(m.ch, "close", 0)

\* Requests and answers stay in step: every request is answered exactly once, so
\* that the client may match answers to requests by their order (chan0_gotdata).
OneAnswer ==
    \A c \in Clients : cli[c].is = "up" /\ w.conn[c].is = "open" /\ alive =>
        cli[c].asked = cli[c].answered
                         + Len(SelectSeq(Stream(c), LAMBDA m : m.ch = 0))
                         + Len(SelectSeq(w.toSrv[c], LAMBDA m : m.t = "req"))


=============================================================================
