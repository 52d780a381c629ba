----------------------------- MODULE ServiceFile -----------------------------
(***************************************************************************)
(* The service_file module while scripts are being parsed: initng runs a   *)
(* service's file with "internal_setup" and a socket pair at descriptor 3; *)
(* the commands of the script (iregister, iset, iexec, iget, idone,        *)
(* iabort; bp_send of bp.c) write one request each to it and read one      *)
(* reply.  All commands of a script share the descriptor.  initng answers  *)
(* from the main loop, one request per call of bp_handle_client, and a     *)
(* request may name any service.  GLOBAL_SOCKET is not defined by any      *)
(* build file.                                                             *)
(*                                                                         *)
(* A service is [st, type, data]; what follows REDY_FOR_START is "STARTED" *)
(* (MainLoop models it).                                                   *)
(***************************************************************************)
EXTENDS Data

CONSTANTS
    Services,
    Files,          \* services create_new_active finds a file for
    ServiceTypes,   \* what initng_service_type_get_by_name knows
    Requests,       \* what a command may ask
    MAX_REQUESTS,   \* bound: requests of one script
    MAX_CHANGES     \* bound: option types unregistered or registered

VARIABLES
    db,         \* the services
    option_db,  \* registered option types
    script,     \* the parse process of a service: "none", "runs", "exited", "reaped"
    code,       \* what it exits with
    cmds,       \* its commands that wait for a reply: id -> request, background
    reqs, reps, \* what is on its socket, in both directions
    sent,       \* requests it has sent
    mixed,      \* two commands were in flight, or one was killed before its reply
    wrong,      \* a command was given the reply to another one
    unheard,    \* a command the script waited for lost its connection
    crashed,    \* initng followed a NULL pointer
    changes

vars == <<db, option_db, script, code, cmds, reqs, reps, sent, mixed, wrong, unheard, crashed, changes>>
Parsing == {"PARSING", "PARSING_FOR_START"}

Unset == [st |-> "none", type |-> "unset", data |-> <<>>]

Init ==
    /\ db = [s \in Services |-> Unset]
    /\ option_db = Types
    /\ script = [s \in Services |-> "none"] /\ code = [s \in Services |-> 0]
    /\ cmds = [s \in Services |-> {}]
    /\ reqs = [s \in Services |-> <<>>] /\ reps = [s \in Services |-> <<>>]
    /\ sent = [s \in Services |-> 0]
    /\ mixed = [s \in Services |-> FALSE] /\ wrong = FALSE /\ unheard = FALSE
    /\ crashed = FALSE /\ changes = 0

-----------------------------------------------------------------------------
\* The request handlers return the services and the reply.
Fails == [db |-> db, ok |-> FALSE, value |-> NONE, crash |-> FALSE]
Succeeds(w) == [db |-> w, ok |-> TRUE, value |-> NONE, crash |-> FALSE]
Answers(v) == [db |-> db, ok |-> TRUE, value |-> v, crash |-> FALSE]
Crashes == [db |-> db, ok |-> FALSE, value |-> NONE, crash |-> TRUE]

\* bp_new_active: the service being parsed for a start gets its type; another name
\* is registered as PARSING.
BpNewActive(r) ==
    LET s == r.service IN
    IF r.type \notin ServiceTypes \/ db[s].st \notin {"none", "PARSING_FOR_START"} THEN Fails
    ELSE Succeeds([db EXCEPT ![s].type = r.type, ![s].st = IF @ = "none" THEN "PARSING" ELSE @])

\* The switch of bp_set_variable; a value is a sequence of words, and STRINGS takes
\* them one by one.
Stored(r, d) ==
    LET t == r.vartype IN
    CASE Kind[t] = "STRING" -> SetStringVar(t, r.varname, d, r.value)
      [] Kind[t] = "INT" -> SetIntVar(t, r.varname, d, r.value)
      [] Kind[t] = "SET" -> SetVar(t, r.varname, d)
      [] Kind[t] = "STRINGS" -> FoldLeft(LAMBDA e, w : SetAnotherStringVar(t, r.varname, e, w), d, r.value)

\* bp_set_variable: a setter that refuses is not noticed.
BpSetVariable(r) ==
    IF \/ db[r.service].st \notin Parsing
       \/ r.vartype \notin option_db
       \/ r.value = NONE /\ Kind[r.vartype] # "SET"
      THEN Fails
      ELSE Succeeds([db EXCEPT ![r.service].data = Stored(r, @)])

\* bp_get_variable: a string that is not set is copied from NULL, and the loop over
\* strings goes on until one is NULL.
BpGetVariable(r) ==
    LET d == db[r.service].data IN
    IF db[r.service].st = "none" \/ r.vartype \notin option_db THEN Fails
    ELSE CASE Kind[r.vartype] = "STRING" ->
                 IF IsVar(r.vartype, r.varname, d) THEN Answers(GetStringVar(r.vartype, r.varname, d)) ELSE Crashes
           [] Kind[r.vartype] = "STRINGS" -> Crashes
           [] Kind[r.vartype] = "SET" -> IF IsVar(r.vartype, r.varname, d) THEN Answers(NONE) ELSE Fails
           [] Kind[r.vartype] = "INT" -> Answers(GetIntVar(r.vartype, r.varname, d))

\* bp_done: a service without a type stays as it is; a start may be refused, and the
\* service is then REDY_FOR_START.
BpDone(r, starts) ==
    LET s == r.service IN
    CASE db[s].type = "unset" \/ db[s].st \notin Parsing -> Fails
      [] db[s].st = "PARSING" -> Succeeds([db EXCEPT ![s].st = "NOT_RUNNING"])
      [] OTHER -> [Succeeds([db EXCEPT ![s].st = IF starts THEN "STARTED" ELSE "REDY_FOR_START"])
                     EXCEPT !.ok = starts]

\* bp_abort changes nothing.
BpAbort(r) == IF db[r.service].st \in Parsing THEN Succeeds(db) ELSE Fails

Handled(r, starts) ==
    CASE r.request = "NEW_ACTIVE" -> BpNewActive(r)
      [] r.request = "SET_VARIABLE" -> BpSetVariable(r)
      [] r.request = "GET_VARIABLE" -> BpGetVariable(r)
      [] r.request = "DONE" -> BpDone(r, starts)
      [] r.request = "ABORT" -> BpAbort(r)

-----------------------------------------------------------------------------
\* create_new_active and parse_new_service_file: the service, its parse process and
\* the socket pair.  (No second file is tried for a name that is in the database.)
CreateNewActive(s) ==
    /\ ~crashed /\ s \in Files /\ db[s].st = "none" /\ script[s] = "none"
    /\ db' = [db EXCEPT ![s].st = "PARSING_FOR_START"]
    /\ script' = [script EXCEPT ![s] = "runs"]
    /\ UNCHANGED <<option_db, code, cmds, reqs, reps, sent, mixed, wrong, unheard, crashed, changes>>

\* A wrong version: a request that fails is answered, and answered again at the end.
BpHandleClientTwice(s, starts) ==
    /\ ~crashed /\ script[s] \in {"runs", "exited"} /\ Len(reqs[s]) > 0
    /\ LET q == Head(reqs[s])
           h == Handled(q.req, starts)
       IN /\ db' = h.db /\ crashed' = h.crash
          /\ reps' = [reps EXCEPT ![s] = @ \o IF h.ok THEN <<q.id>> ELSE <<q.id, q.id>>]
    /\ reqs' = [reqs EXCEPT ![s] = Tail(@)]
    /\ UNCHANGED <<option_db, script, code, cmds, sent, mixed, wrong, unheard, changes>>

\* get_pipe and bp_handle_client: one request, one reply.
BpHandleClient(s, starts) ==
    /\ ~crashed /\ script[s] \in {"runs", "exited"} /\ Len(reqs[s]) > 0
    /\ LET q == Head(reqs[s])
           h == Handled(q.req, starts)
       IN /\ db' = h.db /\ crashed' = h.crash
          /\ reps' = IF h.crash THEN reps ELSE [reps EXCEPT ![s] = Append(@, q.id)]
    /\ reqs' = [reqs EXCEPT ![s] = Tail(@)]
    /\ UNCHANGED <<option_db, script, code, cmds, sent, mixed, wrong, unheard, changes>>

\* initng_kill_handler_killed_by_pid closes the socket, and handle_killed: a
\* failure, or a start that is for naught unless bp_done came before it.
HandleKilled(s, starts) ==
    /\ ~crashed /\ script[s] = "exited"
    /\ script' = [script EXCEPT ![s] = "reaped"]
    /\ db' = IF code[s] # 0 \/ db[s].type = "unset" THEN [db EXCEPT ![s].st = "PARSE_FAIL"]
             ELSE IF db[s].st = "REDY_FOR_START" /\ starts THEN [db EXCEPT ![s].st = "STARTED"] ELSE db
    /\ reqs' = [reqs EXCEPT ![s] = <<>>]
    /\ UNCHANGED <<option_db, code, cmds, reps, sent, mixed, wrong, unheard, crashed, changes>>

\* initng_service_data_type_unregister, by a module that is unloaded: the values of
\* the type are taken from every service.
Unregister(t) ==
    /\ ~crashed /\ changes < MAX_CHANGES /\ t \in option_db
    /\ option_db' = option_db \ {t}
    /\ db' = [s \in Services |-> [db[s] EXCEPT !.data = RemoveVar(t, NONE, @)]]
    /\ changes' = changes + 1
    /\ UNCHANGED <<script, code, cmds, reqs, reps, sent, mixed, wrong, unheard, crashed>>

\* initng_service_data_type_register, by a module that is loaded.
Register(t) ==
    /\ ~crashed /\ changes < MAX_CHANGES /\ t \notin option_db
    /\ option_db' = option_db \cup {t}
    /\ changes' = changes + 1
    /\ UNCHANGED <<db, script, code, cmds, reqs, reps, sent, mixed, wrong, unheard, crashed>>

-----------------------------------------------------------------------------
\* bp_send up to the recv(): a command of the script of s, which the script waits
\* for unless it runs in the background.
BpSend(s, r, bg) ==
    /\ sent[s] < MAX_REQUESTS
    /\ script[s] = "runs" \/ (script[s] = "exited" /\ bg)
    /\ \A c \in cmds[s] : c.bg
    /\ LET c == [id |-> sent[s] + 1, bg |-> bg] IN
       /\ reqs' = [reqs EXCEPT ![s] = Append(@, [id |-> c.id, req |-> r])]
       /\ mixed' = [mixed EXCEPT ![s] = @ \/ cmds[s] # {}]
       /\ cmds' = [cmds EXCEPT ![s] = @ \cup {c}]
       /\ sent' = [sent EXCEPT ![s] = c.id]
    /\ UNCHANGED <<db, option_db, script, code, reps, wrong, unheard, crashed, changes>>

\* The rest of bp_send: the next reply on the socket, whosever it is.
BpReply(s, c) ==
    /\ c \in cmds[s] /\ reps[s] # <<>>
    /\ reps' = [reps EXCEPT ![s] = Tail(@)]
    /\ wrong' = (wrong \/ (Head(reps[s]) # c.id /\ ~mixed[s]))
    /\ cmds' = [cmds EXCEPT ![s] = @ \ {c}]
    /\ UNCHANGED <<db, option_db, script, code, reqs, sent, mixed, unheard, crashed, changes>>

\* initng has closed its end: "Did not get any reply".
BpNoReply(s, c) ==
    /\ c \in cmds[s] /\ script[s] = "reaped" /\ reps[s] = <<>>
    /\ unheard' = (unheard \/ (~c.bg /\ ~mixed[s]))
    /\ cmds' = [cmds EXCEPT ![s] = @ \ {c}]
    /\ UNCHANGED <<db, option_db, script, code, reqs, reps, sent, mixed, wrong, crashed, changes>>

\* A command is killed before it has read its reply.
BpKilled(s, c) ==
    /\ c \in cmds[s]
    /\ cmds' = [cmds EXCEPT ![s] = @ \ {c}]
    /\ mixed' = [mixed EXCEPT ![s] = TRUE]
    /\ UNCHANGED <<db, option_db, script, code, reqs, reps, sent, wrong, unheard, crashed, changes>>

\* The script ends, when none of its commands holds it up.
ScriptExits(s, n) ==
    /\ script[s] = "runs" /\ \A c \in cmds[s] : c.bg
    /\ script' = [script EXCEPT ![s] = "exited"]
    /\ code' = [code EXCEPT ![s] = n]
    /\ UNCHANGED <<db, option_db, cmds, reqs, reps, sent, mixed, wrong, unheard, crashed, changes>>

Next ==
    \/ \E s \in Services : \/ CreateNewActive(s)
                           \/ \E b \in BOOLEAN : BpHandleClient(s, b) \/ HandleKilled(s, b)
                           \/ \E n \in 0..1 : ScriptExits(s, n)
                           \/ \E r \in Requests, bg \in BOOLEAN : BpSend(s, r, bg)
                           \/ \E c \in cmds[s] : BpReply(s, c) \/ BpNoReply(s, c) \/ BpKilled(s, c)
    \/ \E t \in Types : Unregister(t) \/ Register(t)

Spec == Init /\ [][Next]_vars

-----------------------------------------------------------------------------
\* As long as the commands of a script run one after the other, every one of them
\* is given the reply to its own request, and is given one.  (A command in the
\* background, or one killed before its reply, shifts the replies of the others.)
OwnReply == ~wrong /\ ~unheard

\* A walk with initng_data_get_next_var from NULL to NULL visits every entry that
\* matches exactly once, the oldest first.
WalkComplete ==
    \A s \in Services, t \in Types : \A vn \in {NONE} \cup {db[s].data[i].vn : i \in DOMAIN db[s].data} :
        LET d == db[s].data
            hits == SelectSeq(d, LAMBDA e : Matches(e, t, vn))
        IN \A k \in 0..Len(hits) :
               GetNextVar(t, vn, d, IF k = 0 THEN NONE ELSE hits[k].id)
                   = IF k = Len(hits) THEN NONE ELSE hits[k + 1].id

\* An option that holds one value holds one for every name it was set with,
\* whichever scripts set it and however often ("this has to be only one of").
OneValue ==
    \A s \in Services : \A i, j \in DOMAIN db[s].data :
        LET d == db[s].data IN
        /\ d[i].type = d[j].type /\ d[i].vn = d[j].vn /\ Kind[d[i].type] # "STRINGS" => i = j
        /\ d[i].id = d[j].id => i = j

\* No service keeps a value of an option type whose module is gone: freeing it
\* later would look at the type.
TypesRegistered ==
    \A s \in Services : \A i \in DOMAIN db[s].data : db[s].data[i].type \in option_db
=============================================================================
