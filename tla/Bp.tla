--------------------------------- MODULE Bp ---------------------------------
(***************************************************************************)
(* bp.c, installed as iregister, iset, iexec, iget, idone and iabort: from *)
(* the words of a line of a service file to the requests sent to initng    *)
(* (ServiceFile models the other end, which here answers TRUE).            *)
(*                                                                         *)
(* A word is a string; "=" is one that starts with that character, and a   *)
(* word of Paths one that starts with "/".                                 *)
(***************************************************************************)
EXTENDS Naturals, Sequences, SequencesExt

CONSTANTS SFILE, NULL, Paths

\* The lines the comments of bp.c and the example service file give, one for every
\* usage.
Usages ==
    {[cmd |-> "iregister", words |-> <<"service">>],
     [cmd |-> "iexec", words |-> <<"start">>],
     [cmd |-> "iexec", words |-> <<"start", "=", "dodo">>],
     [cmd |-> "iget", words |-> <<"test">>],
     [cmd |-> "iget", words |-> <<"exec", "test">>],
     [cmd |-> "iset", words |-> <<"forks">>],
     [cmd |-> "iset", words |-> <<"start", "forks">>],
     [cmd |-> "iset", words |-> <<"test", "=", "Coool">>],
     [cmd |-> "iset", words |-> <<"exec", "test", "=", "Coool">>],
     [cmd |-> "idone", words |-> <<>>],
     [cmd |-> "iabort", words |-> <<>>]}

VARIABLES
    call,       \* the line
    sent,       \* requests sent
    ends        \* "", or how the command ends: "TRUE", "FALSE", "SEGFAULT"

vars == <<call, sent, ends>>

Init == call \in Usages /\ sent = <<>> /\ ends = ""

-----------------------------------------------------------------------------
\* main: new_argv[0] is SFILE, and the loop that copies the words starts at
\* new_argv[new_argc] with new_argc = 0.
NewArgv(words) == IF words = <<>> THEN <<SFILE>> ELSE words
NewArgc(words) == Len(words)

\* argv[i], and NULL behind the last word.
Argv(words, i) == IF i < Len(NewArgv(words)) THEN NewArgv(words)[i + 1] ELSE NULL

Request(q, vartype, varname, value) ==
    [request |-> q, vartype |-> vartype, varname |-> varname, value |-> value]

\* strncpy and strncat from a NULL pointer do not return.
Sends(uses, s) ==
    IF NULL \in uses THEN [sent |-> <<>>, ends |-> "SEGFAULT"] ELSE [sent |-> s, ends |-> "TRUE"]
Refuses == [sent |-> <<>>, ends |-> "FALSE"]

bp_trivial(cmd) ==
    Sends({}, <<Request(IF cmd = "idone" THEN "DONE" ELSE "ABORT", "", "", "")>>)

\* bp_new_active: vartype stands for the type, value for from_file.
bp_new_active(words) ==
    IF NewArgc(words) # 1 THEN Refuses
    ELSE LET t == Argv(words, 1) IN Sends({t}, <<Request("NEW_ACTIVE", t, "", Argv(words, 0))>>)

bp_get_variable(words) ==
    CASE NewArgc(words) = 1 ->
             LET t == Argv(words, 1) IN Sends({t}, <<Request("GET_VARIABLE", t, "", "")>>)
      [] NewArgc(words) = 2 ->
             LET n == Argv(words, 1) t == Argv(words, 2) IN Sends({n, t}, <<Request("GET_VARIABLE", t, n, "")>>)
      [] OTHER -> Refuses

\* bp_set_variable: a request for every value behind the "=".
bp_set_variable(words) ==
    LET argc == NewArgc(words)
        t == Argv(words, 1)
        values(first, vn) ==
            [i \in 1..Len(NewArgv(words)) - first |-> Request("SET_VARIABLE", t, vn, Argv(words, first + i - 1))]
    IN CASE argc < 1 -> Refuses
         [] argc = 1 -> Sends({t}, <<Request("SET_VARIABLE", t, "", "")>>)
         [] argc = 2 -> Sends({t, Argv(words, 2)}, <<Request("SET_VARIABLE", t, Argv(words, 2), "")>>)
         [] argc >= 3 /\ Argv(words, 2) = "=" -> Sends({t}, values(3, ""))
         [] argc >= 4 /\ Argv(words, 2) # "=" /\ Argv(words, 3) = "=" -> Sends({t}, values(4, Argv(words, 2)))
         [] OTHER -> Refuses

\* bp_add_exec: the value is the file and "internal_" and the last word, or that word
\* alone if it is a path.
bp_add_exec(words) ==
    LET argc == NewArgc(words)
        last == IF argc = 1 THEN Argv(words, 1) ELSE Argv(words, 3)
        value == IF argc = 3 /\ last \in Paths THEN last ELSE <<Argv(words, 0), last>>
    IN IF argc # 1 /\ (argc # 3 \/ Argv(words, 2) # "=") THEN Refuses
       ELSE Sends({last, Argv(words, 1)}, <<Request("SET_VARIABLE", "exec", Argv(words, 1), value)>>)

\* call_command and bp_send, initng answering TRUE.
Called(c) ==
    CASE c.cmd = "iregister" -> bp_new_active(c.words)
      [] c.cmd = "iexec" -> bp_add_exec(c.words)
      [] c.cmd = "iget" -> bp_get_variable(c.words)
      [] c.cmd = "iset" -> bp_set_variable(c.words)
      [] OTHER -> bp_trivial(c.cmd)

Main ==
    /\ ends = ""
    /\ sent' = Called(call).sent /\ ends' = Called(call).ends
    /\ UNCHANGED call

Next == Main
Spec == Init /\ [][Next]_vars

-----------------------------------------------------------------------------
\* What a line asks for by the comments of bp.c ("first is the full path to service
\* file"; "iexec start  will run /etc/initng/service internal_start"; "iset exec test
\* = "Coool"", vartype before varname) is what is sent to initng.
UsageKept ==
    ends # "" => LET w == call.words IN
        /\ ends = "TRUE"
        /\ sent = <<CASE call.cmd = "iregister" -> Request("NEW_ACTIVE", w[1], "", SFILE)
                      [] call.cmd = "iexec" -> Request("SET_VARIABLE", "exec", w[1], <<SFILE, w[Len(w)]>>)
                      [] call.cmd = "iget" -> Request("GET_VARIABLE", w[1], IF Len(w) = 2 THEN w[2] ELSE "", "")
                      [] call.cmd = "iset" ->
                             IF Len(w) <= 2 THEN Request("SET_VARIABLE", w[1], IF Len(w) = 2 THEN w[2] ELSE "", "")
                             ELSE Request("SET_VARIABLE", w[1], IF Len(w) = 4 THEN w[2] ELSE "", w[Len(w)])
                      [] call.cmd = "idone" -> Request("DONE", "", "", "")
                      [] OTHER -> Request("ABORT", "", "", "")>>
=============================================================================
