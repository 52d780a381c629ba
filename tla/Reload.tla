------------------------------- MODULE Reload -------------------------------
(***************************************************************************)
(* Hot reload (modules/reload and the start of frontend/main.c): the       *)
(* active_db is written to SAVE_FILE, initng executes itself with          *)
(* --hot_reload, reads the file back, and goes on with the children it     *)
(* still has.  The file is also written as a backup when the system gets   *)
(* up and read after a crash, when /sbin/initng-segfault (external) starts *)
(* initng --hot_reload.  Children die at any point of it.                  *)
(*                                                                         *)
(* A service is its type, its processes in the order while_processes walks *)
(* them (oldest first) and its option values in the order of the list      *)
(* (newest first).  A pipe is "open" or "unset" (the one                   *)
(* initng_process_db_new makes, before a fork opens it).                   *)
(***************************************************************************)
EXTENDS Naturals, Sequences, SequencesExt, FiniteSets

CONSTANTS
    Walk,           \* the services in the order while_active_db walks them, which a reload keeps
    Types,
    TypeOf,         \* the type of every service
    LongNames,      \* services whose name has MAX_SERVICE_NAME_STRING_LEN characters or more
    Pids,
    MAX_PROCESSES,  \* processes of one entry of the file (6)
    MAX_PIPES,      \* pipes of one process read back (6); the file has room for one more
    MAX_ENTRYS,     \* option values of one entry of the file (20)
    MAX_RELOADS     \* bound: times initng is executed again

VARIABLES
    phase,      \* "run", "exec", "read", "up", "enable"
    db,         \* the active_db
    file,       \* SAVE_FILE: its entries, or none
    known,      \* types the loaded modules have registered
    failed,     \* initng_module_callers_active_db_reload reported a failure (sulogin)
    sys,        \* g.sys_state
    signals,    \* SIGCHLD is handled and its slot is set: "off", "none", "SIGCHLD"
    children,   \* processes that were forked and are alive
    zombies,    \* children that died and were not waited for
    before,     \* the active_db when a reload wrote it, or none
    reloads

vars == <<phase, db, file, known, failed, sys, signals, children, zombies, before, reloads>>

\* What the active_db may hold.
Saveable == ToSet(Walk)
None == [s \in {} |-> {}]
Absent == <<>>

\* A system that has come up; save_backup wrote the file or could not.
Init ==
    /\ phase = "run"
    /\ \E n \in [Saveable -> MAX_ENTRYS - 1..MAX_ENTRYS] :
           db = [s \in Saveable |-> [type |-> TypeOf[s], procs |-> <<>>, data |-> [i \in 1..n[s] |-> i]]]
    /\ file = Absent
    /\ known = Types
    /\ failed = FALSE
    /\ sys = "UP"
    /\ signals = "none"
    /\ children = {} /\ zombies = {}
    /\ before = None
    /\ reloads = 0

-----------------------------------------------------------------------------
\* write_file.  An entry keeps the first MAX_PROCESSES processes with all their
\* pipes, and the first MAX_ENTRYS values.
Entry(s) ==
    [name |-> s, type |-> db[s].type,
     procs |-> SubSeq(db[s].procs, 1, Min({MAX_PROCESSES, Len(db[s].procs)})),
     data |-> SubSeq(db[s].data, 1, Min({MAX_ENTRYS, Len(db[s].data)}))]

\* The walk saves one after another; a name too long is left out and a full
\* entry of values counts as a failure, and both go on.
Saved(n) ==
    LET fit == SelectSeq(SubSeq(Walk, 1, n), LAMBDA s : s \in DOMAIN db /\ s \notin LongNames)
    IN [i \in DOMAIN fit |-> Entry(fit[i])]
AllSaved ==
    \A s \in DOMAIN db : s \notin LongNames /\ Len(db[s].data) < MAX_ENTRYS

\* fopen fails and the old file stays, or an fwrite fails and the rest of the
\* services is missing, or the walk goes through.
write_file(f, ok) ==
    \/ f = file /\ ok = FALSE
    \/ \E n \in 0..Len(Walk) - 1 : f = Saved(n) /\ ok = FALSE
    \/ f = Saved(Len(Walk)) /\ ok = AllSaved

Writes == {file} \cup {Saved(n) : n \in 0..Len(Walk)}

\* The pipes of a process read back: the one initng_process_db_new made, then the
\* saved ones.
RestoredPipes(pipes) ==
    <<"unset">> \o SubSeq(pipes, 1, Min({MAX_PIPES, Len(pipes)}))

\* A process of an unknown type is skipped; every value is put before the last.
Restored(entry) ==
    [type |-> entry.type,
     procs |-> LET mine == SelectSeq(entry.procs, LAMBDA p : p.pt \in known)
               IN [i \in DOMAIN mine |-> [mine[i] EXCEPT !.pipes = RestoredPipes(mine[i].pipes)]],
     data |-> Reverse(entry.data)]

-----------------------------------------------------------------------------
\* A service forks a process, with a pipe for its output and perhaps a second one.
Fork(s, p) ==
    /\ phase = "run" /\ s \in DOMAIN db
    /\ p \in Pids \ (children \cup zombies)
    /\ children' = children \cup {p}
    /\ \E pt \in known, n \in 1..2 :
           db' = [db EXCEPT ![s].procs =
                    Append(@, [pid |-> p, pt |-> pt, pipes |-> [i \in 1..n |-> "open"]])]
    /\ UNCHANGED <<phase, file, known, failed, sys, signals, zombies, before, reloads>>

\* A child dies.  Before initng_signal_enable its SIGCHLD is discarded.
Dies(p) ==
    /\ p \in children
    /\ children' = children \ {p}
    /\ zombies' = zombies \cup {p}
    /\ signals' = IF signals = "off" THEN "off" ELSE "SIGCHLD"
    /\ UNCHANGED <<phase, db, file, known, failed, sys, before, reloads>>

\* initng_signal_dispatch: handle_sigchild waits for all of them, and the handlers
\* of the process types take them out of the database.
Dispatch ==
    /\ phase = "run" /\ signals = "SIGCHLD"
    /\ signals' = "none"
    /\ zombies' = {}
    /\ db' = [s \in DOMAIN db |->
                [db[s] EXCEPT !.procs = SelectSeq(@, LAMBDA p : p.pid \notin zombies)]]
    /\ UNCHANGED <<phase, file, known, failed, sys, children, before, reloads>>

\* cmd_fast_reload and ngcs_cmd_hot_reload: dump, and only when dump_state did not
\* report FAILED, execute.
FastReload ==
    /\ phase = "run" /\ reloads < MAX_RELOADS
    /\ \E f \in Writes, ok \in BOOLEAN :
           /\ write_file(f, ok)
           /\ file' = f
           /\ phase' = IF ok THEN "exec" ELSE "run"
           /\ before' = IF ok THEN db ELSE None
    /\ UNCHANGED <<db, known, failed, sys, signals, children, zombies, reloads>>

\* execve() of /sbin/initng fails and initng goes on.
ExecFails ==
    /\ phase = "exec"
    /\ phase' = "run"
    /\ before' = None
    /\ UNCHANGED <<db, file, known, failed, sys, signals, children, zombies, reloads>>

\* The new image: memory and the signal slots are gone, SIGCHLD is back to its
\* default, and a module may have failed to load.
NewImage ==
    /\ phase' = "read"
    /\ db' = None
    /\ signals' = "off"
    /\ failed' = FALSE
    /\ known' \in SUBSET Types
    /\ reloads' = reloads + 1
    /\ UNCHANGED <<file, sys, children, zombies>>

Exec ==
    /\ phase = "exec"
    /\ NewImage
    /\ UNCHANGED before

\* SIGSEGV: initng_main_segfault executes /sbin/initng-segfault.
Segfault ==
    /\ phase = "run" /\ reloads < MAX_RELOADS
    /\ NewImage
    /\ before' = None


\* reload_state and read_file: an entry whose state or type no module knows is
\* dropped and reported; the file is removed.  Without a file nothing is done and
\* nothing reported.
ReadFile ==
    /\ phase = "read"
    /\ LET mine == {i \in DOMAIN file : file[i].type \in known}
       IN /\ db' = [s \in {file[i].name : i \in mine} |->
                       Restored(file[CHOOSE i \in mine : file[i].name = s])]
          /\ failed' = (mine # DOMAIN file)
    /\ file' = Absent
    /\ phase' = "up"
    /\ UNCHANGED <<known, sys, signals, children, zombies, before, reloads>>

\* initng_main_set_sys_state(STATE_UP), which makes save_backup write the file.
SystemUp ==
    /\ phase = "up"
    /\ sys' = "UP"
    /\ \E f \in Writes, ok \in BOOLEAN : write_file(f, ok) /\ file' = f
    /\ before' = None
    /\ phase' = "enable"
    /\ UNCHANGED <<db, known, failed, signals, children, zombies, reloads>>

\* initng_signal_enable, and the main loop.
SignalEnable ==
    /\ phase = "enable"
    /\ signals' = "none"
    /\ phase' = "run"
    /\ UNCHANGED <<db, file, known, failed, sys, children, zombies, before, reloads>>

\* STATE_STOPPING: save_backup removes the file.
Stopping ==
    /\ phase = "run" /\ sys = "UP"
    /\ sys' = "STOPPING"
    /\ file' = Absent
    /\ UNCHANGED <<phase, db, known, failed, signals, children, zombies, before, reloads>>

Next ==
    \/ \E s \in Saveable, p \in Pids : Fork(s, p)
    \/ \E p \in Pids : Dies(p)
    \/ Dispatch \/ FastReload \/ ExecFails \/ Exec \/ Segfault
    \/ ReadFile \/ SystemUp \/ SignalEnable \/ Stopping

Spec == Init /\ [][Next]_vars

-----------------------------------------------------------------------------
\* A hot reload that goes on loses no service in silence: what was running when
\* the command dumped the state is in the new database, with its type, unless the
\* new initng reported the failure and offered a login.
NothingSilentlyLost ==
    phase = "up" /\ before # None /\ ~failed =>
        /\ DOMAIN db = DOMAIN before
        /\ \A s \in DOMAIN db : db[s].type = before[s].type

\* A reloaded service still answers for its children: the oldest MAX_PROCESSES
\* of them, in the same order, as far as a loaded module knows their type.  Whoever
\* dies next is found by its pid.
ProcessesKept ==
    phase = "up" /\ before # None =>
        \A s \in DOMAIN db :
            LET kept == SelectSeq(SubSeq(before[s].procs, 1, Min({MAX_PROCESSES, Len(before[s].procs)})),
                                  LAMBDA p : p.pt \in known)
            IN /\ Len(db[s].procs) = Len(kept)
               /\ \A i \in DOMAIN kept : db[s].procs[i].pid = kept[i].pid /\ db[s].procs[i].pt = kept[i].pt

\* However often initng is reloaded, the pipes of a process fit into the entry of
\* the file, although write_file does not count them and every reload adds one:
\* what is read back is cut to MAX_PIPES, and the entry has room for one more.
PipesFit ==
    \A s \in DOMAIN db : \A i \in DOMAIN db[s].procs : Len(db[s].procs[i].pipes) <= MAX_PIPES + 1
=============================================================================
