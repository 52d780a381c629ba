----------------------------- MODULE NgcsClient -----------------------------
(***************************************************************************)
(* The client library of ngcs (ngcs_client.c): requests wait in            *)
(* pending_reqs for their answers, which the server sends in the order of  *)
(* the requests; an answered request moves to resps, from where its        *)
(* handler is called.  Both queues are rings of list.h, filled with the    *)
(* *_tail operations.  The handler is handle_svc_event_req: an answer that *)
(* is a channel number opens a channel for the events of a service.        *)
(*                                                                         *)
(* The server is external: it answers every request once and in order,     *)
(* sends events on the channels it opened, and may close the connection.   *)
(***************************************************************************)
EXTENDS List, Sequences, SequencesExt

CONSTANTS
    pending, resps,     \* the two list heads of ngcs_cli_conn
    CALLS,              \* bound: handler calls
    MSGS                \* bound: messages under way

VARIABLES
    conn,       \* cconn->conn: the connection is open
    chan0,      \* cconn->chan0
    resp,       \* req->resp of every request
    hook,       \* where the event hook of every request stands
    server,     \* requests the server has not answered, in order
    inbox,      \* messages from the server
    called      \* requests whose handler ngcs_client_dispatch called

cvars == <<heap, conn, chan0, resp, hook, server, inbox, called>>

\* The entries a safe walk visits: through next until the head, or a NULL.
RECURSIVE Walk(_, _, _)
Walk(h, n, head) ==
    IF n = head \/ n = NULL THEN <<>> ELSE <<n>> \o Walk(h, h.next[n], head)

In(h, head) == Walk(h, h.next[head], head)

\* ngcs_client_connect: an open connection with channel 0 and two empty lists.
ClientInit ==
    /\ ListInit
    /\ conn = TRUE /\ chan0 = TRUE
    /\ resp = [r \in Entries |-> "none"] /\ hook = [r \in Entries |-> "new"]
    /\ server = <<>> /\ inbox = <<>> /\ called = <<>>

\* ngcs_svc_event_cmd and ngcs_cmd_async: the request goes out and then to the
\* tail of pending_reqs.  Without channel 0 nothing is sent and the hook freed.
CmdAsync(r) ==
    /\ hook[r] = "new"
    /\ IF chan0
         THEN /\ heap' = AddTail(heap, r, pending)
              /\ server' = IF conn THEN Append(server, r) ELSE server
              /\ hook' = [hook EXCEPT ![r] = "asked"]
         ELSE /\ hook' = [hook EXCEPT ![r] = "ended"] /\ UNCHANGED <<heap, server>>
    /\ UNCHANGED <<conn, chan0, resp, inbox, called>>

\* ngcs_client_dispatch: the handler of every request in resps, which is then
\* unlinked and freed.  handle_svc_event_req opens the channel (BEGIN), or ends
\* the hook (END) when the answer is no channel.
Dispatch(v) ==
    LET todo == In(v.heap, resps)
    IN [v EXCEPT !.heap = FoldLeft(Del, @, todo),
                 !.called = @ \o todo,
                 !.hook = [r \in Entries |-> IF r \notin ToSet(todo) THEN @[r]
                                             ELSE IF v.resp[r] = "int" THEN "open" ELSE "ended"]]

\* chan0_gotdata: the first pending request gets the answer; an answer nobody
\* waits for closes channel 0.
Chan0Gotdata(v, t) ==
    LET r == v.heap.next[pending]
    IN IF IsEmpty(v.heap, pending) THEN [v EXCEPT !.chan0 = FALSE]
       ELSE [v EXCEPT !.resp[r] = t, !.heap = MoveTail(@, r, resps)]

\* svc_status_gotdata for an event and, through ngcs_chan_closed, svc_status_end
\* for a closed channel.  A channel that is not there is closed in answer.
SvcStatus(v, r, t) ==
    IF t = "close" /\ v.hook[r] \in {"open", "closing"} THEN [v EXCEPT !.hook[r] = "ended"] ELSE v

\* ngcs_conn_close: chan0_close cancels the pending requests, the channels end.
Lost(v) ==
    [v EXCEPT !.conn = FALSE, !.chan0 = FALSE,
              !.resp = [r \in Entries |-> IF r \in ToSet(In(v.heap, pending)) THEN "null" ELSE @[r]],
              !.heap = FoldLeft(LAMBDA h, r : MoveTail(h, r, resps), @, In(@, pending)),
              !.hook = [r \in Entries |-> IF @[r] \in {"open", "closing"} THEN "ended" ELSE @[r]]]

\* ngcs_client_data_ready: dispatch, one message, dispatch.
DataReady ==
    /\ conn /\ inbox # <<>> /\ Len(called) < CALLS
    /\ LET m == Head(inbox)
           v == Dispatch([heap |-> heap, conn |-> conn, chan0 |-> chan0, resp |-> resp,
                          hook |-> hook, called |-> called])
           z == Dispatch(CASE m.t = "eof" -> Lost(v)
                           [] m.t # "eof" /\ m.ch = pending -> IF v.chan0 THEN Chan0Gotdata(v, m.t) ELSE v
                           [] OTHER -> SvcStatus(v, m.ch, m.t))
       IN /\ heap' = z.heap /\ conn' = z.conn /\ chan0' = z.chan0 /\ resp' = z.resp
          /\ hook' = z.hook /\ called' = z.called
    /\ inbox' = Tail(inbox)
    /\ UNCHANGED server

\* ngcs_client_free_svc_watch of a hook that has its channel: ngcs_chan_del
\* closes the channel and, as the other end still has to agree, keeps it.
FreeSvcWatch(r) ==
    /\ hook[r] = "open"
    /\ hook' = [hook EXCEPT ![r] = "closing"]
    /\ UNCHANGED <<heap, conn, chan0, resp, server, inbox, called>>

\* The server: answers in order, events, and the end of the connection.
ServerSends ==
    /\ conn /\ Len(inbox) < MSGS
    /\ \/ /\ server # <<>> /\ server' = Tail(server)
          /\ \E t \in {"int", "str"} : inbox' = Append(inbox, [ch |-> pending, t |-> t])
       \/ /\ \E r \in Entries, t \in {"status", "close"} :
                hook[r] \in {"open", "closing"} /\ inbox' = Append(inbox, [ch |-> r, t |-> t])
          /\ UNCHANGED server
       \/ inbox' = Append(inbox, [ch |-> pending, t |-> "eof"]) /\ UNCHANGED server
    /\ UNCHANGED <<heap, conn, chan0, resp, hook, called>>

ClientNext ==
    \/ \E r \in Entries : CmdAsync(r) \/ FreeSvcWatch(r)
    \/ DataReady
    \/ ServerSends

ClientSpec == ClientInit /\ [][ClientNext]_cvars

-----------------------------------------------------------------------------
\* list.h:62-70 offers initng_list_add_tail as "useful for implementing queues":
\* an answered request leaves the queue, so ngcs_client_dispatch calls no handler
\* twice and uses no request that it freed.
HandledOnce ==
    \A i, j \in DOMAIN called : called[i] = called[j] => i = j
=============================================================================
