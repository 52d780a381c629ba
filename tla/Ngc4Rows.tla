------------------------------ MODULE Ngc4Rows ------------------------------
(***************************************************************************)
(* The listings of ngc4: a command fills an array of rows, one per entry   *)
(* of a database that is to be shown, the array is sent as the payload,    *)
(* and the client prints rows until one is not of the listing's type.      *)
(* The array of most listings has a fixed size, whatever the database has. *)
(***************************************************************************)
EXTENDS Naturals

CONSTANTS
    LIMIT,          \* the static limit (100)
    LOCALS,          \* commands of ngc4 itself (8)
    ENTRIES         \* bound: entries of the database

ASSUME FewLocal == LIMIT \in Nat /\ LOCALS \in Nat /\ ENTRIES \in Nat /\ LOCALS <= LIMIT

\* The listing commands: help, help_all, options, states, services, all_services.
Listings == {"help", "help_all", "options", "states", "services", "all_services"}

VARIABLES
    cmd,            \* the listing
    locals,         \* entries of local_commands_db still to visit
    left,           \* entries of the database still to visit
    room,           \* rows that were allocated
    i,              \* rows written
    at,             \* "local", "db", "sent", "print" or "printed"
    got,            \* rows the client received
    printed         \* rows it printed

vars == <<cmd, locals, left, room, i, at, got, printed>>

HasLocal(c) == c \in {"help", "help_all"}

\* states counts first and allocates one more, the others allocate LIMIT + 1; options
\* and services of one name fill the one row they allocate.
Init ==
    /\ cmd \in Listings /\ left \in 0..ENTRIES
    /\ locals = IF HasLocal(cmd) THEN LOCALS ELSE 0
    /\ got = 0 /\ printed = 0
    /\ \/ room = (IF cmd = "states" THEN left + 1 ELSE LIMIT + 1)
          /\ i = 0 /\ at = (IF HasLocal(cmd) THEN "local" ELSE "db")
       \/ cmd \in {"options", "services"} /\ room = 1 /\ i = 1 /\ at = "sent"

\* The loop over local_commands_db of the two helps, which may look at the limit.
Local(shown, limited) ==
    /\ at = "local" /\ locals > 0
    /\ locals' = locals - 1
    /\ i' = IF shown THEN i + 1 ELSE i
    /\ at' = IF limited /\ shown /\ i' > LIMIT THEN "db" ELSE at
    /\ UNCHANGED <<cmd, left, room, got, printed>>

LocalsDone ==
    /\ at = "local" /\ locals = 0
    /\ at' = "db"
    /\ UNCHANGED <<cmd, locals, left, room, i, got, printed>>

\* A wrong version: the limit is looked at before the row is counted.
VisitLate(shown) ==
    /\ at = "db" /\ left > 0
    /\ left' = left - 1
    /\ i' = IF shown THEN i + 1 ELSE i
    /\ at' = IF shown /\ i > LIMIT THEN "sent" ELSE at
    /\ UNCHANGED <<cmd, locals, room, got, printed>>

\* The loop over the database: a shown entry takes a row, and the loop is left
\* when more than LIMIT are taken.
Visit(shown) ==
    /\ at = "db" /\ left > 0
    /\ left' = left - 1
    /\ i' = IF shown THEN i + 1 ELSE i
    /\ at' = IF shown /\ i' > LIMIT THEN "sent" ELSE at
    /\ UNCHANGED <<cmd, locals, room, got, printed>>

VisitsDone ==
    /\ at = "db" /\ left = 0
    /\ at' = "sent"
    /\ UNCHANGED <<cmd, locals, left, room, i, got, printed>>

\* The entries each listing passes over: commands that are not of its visibility,
\* internal options, services of a hidden type.  states checks its own count.
cmd_help == \E shown \in BOOLEAN : cmd = "help" /\ (Local(shown, TRUE) \/ Visit(shown))
cmd_help_all == \E shown \in BOOLEAN : cmd = "help_all" /\ (Local(shown, FALSE) \/ Visit(shown))
cmd_options == \E shown \in BOOLEAN : cmd = "options" /\ Visit(shown)
cmd_states == cmd = "states" /\ i < room /\ Visit(TRUE)
cmd_services == \E shown \in BOOLEAN : cmd = "services" /\ Visit(shown)
cmd_all_services == cmd = "all_services" /\ Visit(TRUE)

\* One recv() of the payload: what is there, at most all of it, into a buffer
\* that was cleared and has one byte more.
RecvPayload(n) ==
    /\ at = "sent"
    /\ got' = n /\ at' = "print"
    /\ UNCHANGED <<cmd, locals, left, room, i, printed>>

\* The printers go from row to row while dt is the listing's type: up to the first
\* row that was not received, whose dt is still 0.
Row ==
    /\ printed < got
    /\ printed' = printed + 1 /\ UNCHANGED at

LastRow ==
    /\ printed = got
    /\ at' = "printed" /\ UNCHANGED printed

Rows == at = "print" /\ (Row \/ LastRow) /\ UNCHANGED <<cmd, locals, left, room, i, got>>

ngc_hlp == HasLocal(cmd) /\ Rows
ngc_state_entry == cmd = "states" /\ Rows
ngc_active_db == cmd \in {"services", "all_services"} /\ Rows
ngc_option_db == cmd = "options" /\ Rows

Next ==
    \/ cmd_help \/ cmd_help_all \/ cmd_options \/ cmd_states \/ cmd_services \/ cmd_all_services
    \/ LocalsDone \/ VisitsDone
    \/ \E n \in 0..i : RecvPayload(n)
    \/ ngc_hlp \/ ngc_state_entry \/ ngc_active_db \/ ngc_option_db

Spec == Init /\ [][Next]_vars

-----------------------------------------------------------------------------
\* No listing writes behind the rows it allocated, with more entries than fit, at
\* the limit and with none; and what the client prints was written.
RowsInside == i <= room /\ printed <= got /\ got <= i

\* What it rests on: the local commands fit below the limit, so that the two helps
\* leave the first loop with a row to spare; the loop over the database is left with
\* the row that passes the limit; states has counted its entries.
Rooms ==
    /\ cmd \in Listings /\ locals \in Nat /\ left \in Nat /\ room \in Nat
    /\ i \in Nat /\ got \in Nat /\ printed \in Nat
    /\ at \in {"local", "db", "sent", "print", "printed"}
    /\ at = "local" => HasLocal(cmd) /\ i + locals <= LIMIT
    /\ at = "db" => i <= LIMIT
    /\ cmd = "states" /\ at = "db" => i + left + 1 <= room
    /\ cmd # "states" /\ at \in {"local", "db"} => room = LIMIT + 1
    /\ at \in {"local", "db", "sent"} => got = 0 /\ printed = 0

\* The inductive invariant of the listings.
IInv == RowsInside /\ Rooms
=============================================================================
