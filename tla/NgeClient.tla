----------------------------- MODULE NgeClient -----------------------------
(***************************************************************************)
(* libngeclient: the stream of tags an nge server sends, cut up again by   *)
(* the receiver.  recv() returns whatever part of the stream has arrived,  *)
(* in pieces of at most RECV characters; get_next_event looks for the end  *)
(* of the first tag in the read buffer and hands it to handle_tag.         *)
(*                                                                         *)
(* Of the text only what the framing looks at is kept: "<", "/", ">", the  *)
(* newline between tags, and one letter for the word a tag starts with.    *)
(* Written and read options are checked apart from it, on one tag of every *)
(* event type, as sequences of words (Encode, GetOption).                  *)
(***************************************************************************)
EXTENDS Naturals, Sequences, SequencesExt

CONSTANTS
    Tags,           \* the tags the server sends, in order
    RECV            \* characters one recv() returns at most (100)

\* The messages of initng_nge.c: the header, the connect tag, an event without
\* content, the ping event, an event with content, and the farewell of
\* close_all_listeners.
HeaderTag == <<"<", "?", "/", ">">>
ConnectTag == <<"<", "c", "/", ">">>
EventTag == <<"<", "e", "/", ">">>
PingTag == <<"<", "p", "/", ">">>
OutputTag == <<"<", "e", ">", "t", "<", "/", "e", ">">>
DisconnectTag == <<"<", "/", "d", ">">>

EventTypes == {"service_state_change", "system_state_change", "service_output", "process_killed", "err_msg",
               "initial_service_state", "initial_system_state", "initial_state_finished", "ping"}

VARIABLES
    stream,         \* sent and not yet received
    buffer,         \* read_buffer
    cut,            \* the tags cut from the buffer
    events,         \* what get_next_event returned
    torn,           \* a closing tag was cut before all of it had arrived
    stuck,          \* the buffer does not start with a tag
    type            \* the type of the events in the stream

vars == <<stream, buffer, cut, events, torn, stuck, type>>

\* Every message is followed by a newline.
Init ==
    /\ stream = FoldLeft(LAMBDA s, t : s \o t \o <<"\n">>, <<>>, Tags)
    /\ buffer = <<>> /\ cut = <<>> /\ events = <<>> /\ torn = FALSE /\ stuck = FALSE
    /\ type \in EventTypes

\* recv() in read_and_fill_buffer.
ReadAndFillBuffer(n) ==
    /\ n <= Len(stream)
    /\ buffer' = buffer \o SubSeq(stream, 1, n)
    /\ stream' = SubSeq(stream, n + 1, Len(stream))
    /\ UNCHANGED <<cut, events, torn, stuck, type>>

\* The character at i, or NUL behind the last one.
At(b, i) == IF i <= Len(b) THEN b[i] ELSE "NUL"

\* Positions where the scan sees a "/>" or a "</", and the first of them.
Ends(b) == {i \in 1..Len(b) : \/ At(b, i) = "/" /\ At(b, i + 1) = ">"
                              \/ At(b, i) = "<" /\ At(b, i + 1) = "/"}

First(S) == CHOOSE i \in S : \A j \in S : i <= j


\* The length of the first tag: up to a "/>", or from a "</" to the next ">" or
\* the end of the buffer; 0 when no end is found.
TagChars(b) ==
    IF Ends(b) = {} THEN 0
    ELSE LET i == First(Ends(b))
             S == {j \in i + 2..Len(b) : b[j] = ">"}
         IN IF b[i] = "/" THEN i + 1
            ELSE IF S = {} THEN Len(b) ELSE First(S)

\* The words of an event type or an option name.
Name(n) ==
    CASE n = "service_state_change" -> <<"service", "_", "state", "_", "change">>
      [] n = "system_state_change" -> <<"system", "_", "state", "_", "change">>
      [] n = "initial_service_state" -> <<"initial", "_", "service", "_", "state">>
      [] n = "initial_system_state" -> <<"initial", "_", "system", "_", "state">>
      [] n = "service_output" -> <<"service", "_", "output">>
      [] n = "process_killed" -> <<"process", "_", "killed">>
      [] n = "system_state" -> <<"system", "_", "state">>
      [] n = "service_type" -> <<"service", "_", "type">>
      [] OTHER -> <<n>>

\* The options initng_nge.c writes into the tags, in their order: astatus_change,
\* what a new listener is told, handle_killed and the three others.
ServiceOptions == <<"service", "is", "state", "percent_started", "percent_stopped", "service_type", "hidden">>
InitialOptions == <<"service", "is", "state", "service_type", "hidden">>
KilledOptions == <<"service", "is", "state", "process", "exit_status", "term_sig">>
SystemOptions == <<"system_state", "runlevel">>
OutputOptions == <<"service", "process">>
ErrorOptions == <<"mt", "file", "func", "line">>

Options(t) ==
    CASE t = "service_state_change" -> ServiceOptions
      [] t = "initial_service_state" -> InitialOptions
      [] t = "process_killed" -> KilledOptions
      [] t \in {"system_state_change", "initial_system_state"} -> SystemOptions
      [] t = "service_output" -> OutputOptions
      [] t = "err_msg" -> ErrorOptions
      [] OTHER -> <<>>

\* The text of an event tag: the type and the options, each name="value" and a
\* space.  The value of option o is the one word <<o>> of its own.
Written(name, value) == Name(name) \o <<"=", "\"">> \o value \o <<"\"", " ">>
Encode(t) ==
    FoldLeft(LAMBDA s, o : s \o Written(o, <<<<o>>>>), Written("type", Name(t)), Options(t))

\* strstr(tag, name) hits, also inside a longer name or a value.
Hits(tag, n) == {i \in 1..(Len(tag) - Len(n) + 1) : SubSeq(tag, i, i + Len(n) - 1) = n}

\* The words from i to the next quote.
Value(tag, i) == SubSeq(tag, i, First({j \in i..Len(tag) : tag[j] = "\""}) - 1)

\* get_option: the value behind the first hit that a ="... follows.
GetOption(tag, name) ==
    LET n == Name(name)
        good == {i \in Hits(tag, n) : At(tag, i + Len(n)) = "=" /\ At(tag, i + Len(n) + 1) = "\""}
    IN IF good = {} THEN <<>> ELSE Value(tag, First(good) + Len(n) + 2)

\* The options each of the handlers of handle_event asks for.
Asked(n) ==
    CASE n = "service_state_change" ->
             <<"service", "is", "state", "percent_started", "percent_stopped", "service_type", "hidden">>
      [] n = "initial_service_state" -> <<"service", "is", "state", "service_type", "hidden">>
      [] n \in {"system_state_change", "initial_system_state"} -> <<"system_state", "runlevel">>
      [] n = "process_killed" -> <<"service", "is", "state", "process", "exit_status", "term_sig">>
      [] n = "service_output" -> <<"service", "process">>
      [] n = "err_msg" -> <<"mt", "file", "func", "line">>
      [] OTHER -> <<>>

\* handle_event: the handler whose name is the type of the tag reads its options; an
\* unknown type is passed over.
HandleEvent(tag) ==
    LET named == {n \in EventTypes : GetOption(tag, "type") = Name(n)}
        o == IF named = {} THEN <<>> ELSE Asked(CHOOSE n \in named : TRUE)
    IN [i \in 1..Len(o) |-> GetOption(tag, o[i])]

\* handle_tag: what becomes of a tag by the word after its "<".  PING is 0, which
\* get_next_event takes for no event.
HandleTag(tag) ==
    CASE tag[2] = "?" -> "NONE"
      [] tag[2] = "p" -> "NONE"
      [] tag[2] = "e" -> "EVENT"
      [] tag[2] = "c" -> "CONNECT"
      [] tag[2] = "d" /\ tag[3] = ">" -> "DISCONNECT"
      [] OTHER -> "NONE"

\* get_next_event, skipping newlines.
SkipNewline ==
    /\ buffer # <<>> /\ Head(buffer) = "\n"
    /\ buffer' = Tail(buffer)
    /\ UNCHANGED <<stream, cut, events, torn, stuck, type>>

\* get_next_event, one tag: cut_buffert, handle_tag, and the event if there is one.
NextTag ==
    /\ buffer # <<>> /\ Head(buffer) = "<" /\ TagChars(buffer) > 0
    /\ LET n == TagChars(buffer)
           tag == SubSeq(buffer, 1, n)
       IN /\ cut' = Append(cut, tag)
          /\ buffer' = SubSeq(buffer, n + 1, Len(buffer))
          /\ torn' = (torn \/ tag[n] # ">")
          /\ events' = IF HandleTag(tag) = "NONE" THEN events ELSE Append(events, HandleTag(tag))
    /\ UNCHANGED <<stream, stuck, type>>

\* get_next_event: "Expected an < char", now and at every later call.
NoTag ==
    /\ buffer # <<>> /\ Head(buffer) \notin {"<", "\n"} /\ ~stuck
    /\ stuck' = TRUE
    /\ UNCHANGED <<stream, buffer, cut, events, torn, type>>

Next ==
    \/ \E n \in 1..RECV : ReadAndFillBuffer(n)
    \/ SkipNewline \/ NextTag \/ NoTag

Spec == Init /\ [][Next]_vars

-----------------------------------------------------------------------------
\* However the stream is cut into pieces, get_next_event cuts out the tags that
\* were sent: a tag of which only a segment is there waits for the rest.
TagsWhole == IsPrefix(cut, Tags)

\* The same, as long as no piece ended inside a closing tag: the only place
\* where the receiver takes a segment for the whole.
TagsWholeUnlessTorn == torn \/ (TagsWhole /\ ~stuck)

\* What the handlers of libngeclient read out of a tag is what the senders of
\* initng_nge.c wrote into it: every option they ask for is there, and the search
\* for its name is not caught by a longer name, the event type or another value.
RoundTrip ==
    HandleEvent(Encode(type)) = [i \in 1..Len(Options(type)) |-> <<<<Options(type)[i]>>>>]
=============================================================================
