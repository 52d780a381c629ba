-------------------------------- MODULE Data --------------------------------
(***************************************************************************)
(* main/data: the option values of a service (and of g), a list of entries *)
(* [id, type, vn, value].  The list is given here from the oldest entry to *)
(* the newest, the way initng_data_get_next_var walks it (head.list.prev   *)
(* first; initng_list_add puts a new entry behind the head).  id is the    *)
(* address of an entry.                                                    *)
(*                                                                         *)
(* No data_head has data_request, res_request or res set, and no s_entry   *)
(* an alias; initng_data_copy_all has no caller.                           *)
(***************************************************************************)
EXTENDS Naturals, Sequences, SequencesExt, FiniteSets

CONSTANTS
    Types,      \* the s_entrys of option_db
    Kind,       \* Kind[t]: "STRING", "STRINGS", "SET" or "INT"
    Variable,   \* the types of the VARIABLE_ kinds (type->type >= 50)
    NONE        \* NULL

\* The condition of the walk: an entry without a name answers to every name,
\* and a caller without a name is given every entry.
Matches(e, type, vn) ==
    /\ e.type = type
    /\ e.vn = NONE \/ vn = NONE \/ e.vn = vn

\* Where the walk begins: behind the entry returned last; when that entry is not
\* in the list any more, behind all of it.
Behind(d, last) ==
    IF last = NONE THEN 0
    ELSE IF \E i \in DOMAIN d : d[i].id = last THEN CHOOSE i \in DOMAIN d : d[i].id = last
    ELSE Len(d)

\* A wrong version: the walk begins at the entry returned last.
GetNextVarSame(type, vn, d, last) ==
    LET hits == {i \in DOMAIN d : i >= Behind(d, last) /\ Matches(d[i], type, vn)}
    IN IF hits = {} THEN NONE ELSE d[CHOOSE i \in hits : \A j \in hits : i <= j].id

\* initng_data_get_next_var: the id of the next entry, or NONE.
GetNextVar(type, vn, d, last) ==
    LET hits == {i \in DOMAIN d : i > Behind(d, last) /\ Matches(d[i], type, vn)}
    IN IF hits = {} THEN NONE ELSE d[CHOOSE i \in hits : \A j \in hits : i <= j].id

\* t.s, t.i of an entry.
ValueOf(d, id) == d[CHOOSE i \in DOMAIN d : d[i].id = id].value

\* initng_data_is_var, initng_data_get_string_var (NULL when there is none) and
\* initng_data_get_int_var (0 when there is none).
IsVar(type, vn, d) == GetNextVar(type, vn, d, NONE) # NONE
GetStringVar(type, vn, d) == IF IsVar(type, vn, d) THEN ValueOf(d, GetNextVar(type, vn, d, NONE)) ELSE NONE
GetIntVar(type, vn, d) == IF IsVar(type, vn, d) THEN ValueOf(d, GetNextVar(type, vn, d, NONE)) ELSE 0

\* What the setters refuse: a variable type without a name, another kind.
Refused(kind, type, vn) == (type \in Variable /\ vn = NONE) \/ Kind[type] # kind

\* The address malloc gives a new entry.
NewId(d) == CHOOSE n \in 1..Len(d) + 1 : \A i \in DOMAIN d : d[i].id # n

Added(type, vn, d, value) == Append(d, [id |-> NewId(d), type |-> type, vn |-> vn, value |-> value])

\* The entry a get would find is overwritten, or there is a new one.
Overwritten(type, vn, d, value) ==
    IF IsVar(type, vn, d)
      THEN LET i == CHOOSE i \in DOMAIN d : d[i].id = GetNextVar(type, vn, d, NONE)
           IN [d EXCEPT ![i].value = value]
      ELSE Added(type, vn, d, value)

SetStringVar(type, vn, d, string) ==
    IF Refused("STRING", type, vn) THEN d ELSE Overwritten(type, vn, d, string)

SetIntVar(type, vn, d, value) ==
    IF Refused("INT", type, vn) THEN d ELSE Overwritten(type, vn, d, value)

SetAnotherStringVar(type, vn, d, string) ==
    IF Refused("STRINGS", type, vn) THEN d ELSE Added(type, vn, d, string)

SetVar(type, vn, d) ==
    IF Refused("SET", type, vn) \/ IsVar(type, vn, d) THEN d ELSE Added(type, vn, d, NONE)

\* initng_data_remove_var frees what it finds until it finds nothing.
RemoveVar(type, vn, d) == SelectSeq(d, LAMBDA e : ~Matches(e, type, vn))
=============================================================================
