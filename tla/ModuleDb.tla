------------------------------ MODULE ModuleDb ------------------------------
(***************************************************************************)
(* The database of loaded modules: initng_module_load_all at boot, the     *)
(* load command, initng_module_unload_marked from the main loop and        *)
(* initng_module_unload_all when initng ends, with what every module keeps *)
(* registered in the core in between (module Registry).                    *)
(*                                                                         *)
(* db is oldest first, the order in which while_module_db walks it.  A     *)
(* registration is a pair of the module and what it registered, in a bag,  *)
(* for a hook may be registered twice and is then taken back once.         *)
(***************************************************************************)
EXTENDS Naturals, Sequences, SequencesExt, Bags, Registry

CONSTANTS
    Boots,      \* what readdir() of the module directory may give, blacklisted ones left out
    Loadable,   \* modules the load command may be given
    MAX_LOADS,  \* bound: load commands
    MAX_HUPS    \* bound: times SIGHUP finds /dev/initctl replaced

VARIABLES
    at,         \* "load_all", "run", "unload_all", "gone"
    db,         \* g.module_db
    flags,      \* the flags of every module in it
    to_unload,  \* g.modules_to_unload
    regs,       \* the bag of registrations
    args,       \* words of the command line
    loads, hups

vars == <<at, db, flags, to_unload, regs, args, loads, hups>>

\* initng_module_open succeeded for every one of them.
Init ==
    /\ at = "load_all"
    /\ db \in Boots
    /\ flags = [m \in AllModules |-> {}]
    /\ to_unload = FALSE
    /\ regs = EmptyBag
    /\ args \in SUBSET {"synchronously", "interactive"}
    /\ loads = 0 /\ hups = 0

Held(m, what) == SetToBag({m} \X what)

module_is_loaded(m) == \E i \in DOMAIN db : db[i] = m
module_needs_are_loaded(m) == \A n \in Deps(m) : module_is_loaded(n)
module_is_needed(m) == \E i \in DOMAIN db : m \in Deps(db[i])

\* initng_module_close_and_free.
CloseAndFree(m) ==
    /\ db' = SelectSeq(db, LAMBDA e : e # m)
    /\ flags' = [flags EXCEPT ![m] = {}]

\* Only fmon refuses: no inotify, nothing registered yet.
InitFails(m) == m = "fmon"

-----------------------------------------------------------------------------
\* The walk of initng_module_load_all over what it opened.
Waiting == {i \in DOMAIN db : "INITIALIZED" \notin flags[db[i]]}
Walked == db[CHOOSE i \in Waiting : \A j \in Waiting : i <= j]

RefuseNeeds ==
    /\ at = "load_all" /\ Waiting # {}
    /\ ~module_needs_are_loaded(Walked)
    /\ CloseAndFree(Walked)
    /\ UNCHANGED <<at, to_unload, regs, args, loads, hups>>

InitRefused ==
    /\ at = "load_all" /\ Waiting # {}
    /\ module_needs_are_loaded(Walked)
    /\ InitFails(Walked)
    /\ CloseAndFree(Walked)
    /\ UNCHANGED <<at, to_unload, regs, args, loads, hups>>

\* interactive, when it is not wanted, asks for its own removal; it is in the
\* list and is found.
InitModule ==
    /\ at = "load_all" /\ Waiting # {}
    /\ module_needs_are_loaded(Walked)
    /\ LET self == Walked = "interactive" /\ "interactive" \notin args
       IN /\ flags' = [flags EXCEPT ![Walked] = {"INITIALIZED"} \cup (IF self THEN {"REMOVE"} ELSE {})]
          /\ to_unload' = (to_unload \/ self)
    /\ regs' = regs (+) Held(Walked, Registers(Walked, args))
    /\ UNCHANGED <<at, db, args, loads, hups>>

LoadAllDone ==
    /\ at = "load_all" /\ Waiting = {}
    /\ at' = "run"
    /\ UNCHANGED <<db, flags, to_unload, regs, args, loads, hups>>

-----------------------------------------------------------------------------
\* initng_module_load, given by cmd_load_module: refused when already loaded or
\* when a need is missing; entered in the list only after its module_init, so that
\* interactive does not find itself.
LoadModule(m) ==
    /\ at = "run" /\ loads < MAX_LOADS
    /\ loads' = loads + 1
    /\ IF module_is_loaded(m) \/ ~module_needs_are_loaded(m)
         THEN UNCHANGED <<db, flags, regs>>
         ELSE \/ /\ InitFails(m)
                 /\ UNCHANGED <<db, flags, regs>>
              \/ /\ db' = Append(db, m)
                 /\ flags' = [flags EXCEPT ![m] = {"INITIALIZED"}]
                 /\ regs' = regs (+) Held(m, Registers(m, args))
    /\ UNCHANGED <<at, to_unload, args, hups>>

\* unload: module_unload, then close_and_free.
Unload(m) ==
    /\ regs' = regs (-) Held(m, Unregisters(m, args))
    /\ CloseAndFree(m)

\* One entry of the walk of initng_module_unload_marked.
Marked == {i \in DOMAIN db : "REMOVE" \in flags[db[i]]}

UnloadMarked ==
    /\ at = "run" /\ to_unload
    /\ IF Marked = {}
         THEN to_unload' = FALSE /\ UNCHANGED <<db, flags, regs>>
         ELSE LET m == db[CHOOSE i \in Marked : \A j \in Marked : i <= j]
              IN /\ IF module_is_needed(m)
                      THEN flags' = [flags EXCEPT ![m] = @ \ {"REMOVE"}] /\ UNCHANGED <<db, regs>>
                      ELSE Unload(m)
                 /\ UNCHANGED to_unload
    /\ UNCHANGED <<at, args, loads, hups>>

\* SIGHUP and another file at /dev/initctl: initctl_control_open closes the old
\* descriptor, opens the new one and registers its hook again.
ControlReopen ==
    /\ at = "run" /\ hups < MAX_HUPS
    /\ module_is_loaded("initctl")
    /\ regs' = regs (+) Held("initctl", {"EVENT_IO_WATCHER"})
    /\ hups' = hups + 1
    /\ UNCHANGED <<at, db, flags, to_unload, args, loads>>

\* event_acceptor gets the first listener.
FirstListener ==
    /\ at = "run"
    /\ module_is_loaded("nge")
    /\ \A r \in nge_accepts : ~BagIn(<<"nge", r>>, regs)
    /\ regs' = regs (+) Held("nge", nge_accepts)
    /\ UNCHANGED <<at, db, flags, to_unload, args, loads, hups>>

\* initng_main_exit: initng_config_global_free unregisters the option types and the
\* commands of everybody (the hooks of the events stay), then unload_all.
MainExit ==
    /\ at = "run"
    /\ at' = "unload_all"
    /\ regs' = [r \in {q \in DOMAIN regs : q[2] \notin {"data", "commands"}} |-> regs[r]]
    /\ UNCHANGED <<db, flags, to_unload, args, loads, hups>>

\* hard: unload_all at once.
Hard ==
    /\ at = "run"
    /\ at' = "unload_all"
    /\ UNCHANGED <<db, flags, to_unload, regs, args, loads, hups>>

\* initng_module_unload_all, one entry at a time.
UnloadAll ==
    /\ at = "unload_all" /\ db # <<>>
    /\ Unload(Head(db))
    /\ UNCHANGED <<at, to_unload, args, loads, hups>>

Gone ==
    /\ at = "unload_all" /\ db = <<>>
    /\ at' = "gone"
    /\ UNCHANGED <<db, flags, to_unload, regs, args, loads, hups>>

Next ==
    \/ RefuseNeeds \/ InitRefused \/ InitModule \/ LoadAllDone
    \/ \E m \in Loadable : LoadModule(m)
    \/ UnloadMarked \/ ControlReopen \/ FirstListener
    \/ MainExit \/ Hard \/ UnloadAll \/ Gone

Spec == Init /\ [][Next]_vars

-----------------------------------------------------------------------------
\* Nothing registered points into a library that is closed: whatever was loaded,
\* refused and unloaded, in whatever order, every hook, option type, state,
\* command and type in the core's lists belongs to a module that is loaded.  Set
\* apart are the two hooks unregister_ngcs_cmds leaves behind, and the second hook
\* of a reopened /dev/initctl.
NoOtherDangling ==
    \A r \in BagToSet(regs) :
        \/ module_is_loaded(r[1]) /\ "INITIALIZED" \in flags[r[1]]
        \/ r \in {"ngcs"} \X (register_ngcs_cmds \ unregister_ngcs_cmds)
        \/ r = <<"initctl", "EVENT_IO_WATCHER">> /\ hups > 0
=============================================================================
