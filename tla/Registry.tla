------------------------------ MODULE Registry ------------------------------
(***************************************************************************)
(* What every module registers in its module_init and takes back in its    *)
(* module_unload: the events it hooks, and "data", "states", "commands",   *)
(* "ptype" and "type" for its option types, active states, commands,       *)
(* process types and service type, which it registers one by one.  Left    *)
(* behind, each of them points into code that is no longer mapped.         *)
(***************************************************************************)
also_init == {"data", "EVENT_IS_CHANGE"}
also_unload == {"data", "EVENT_IS_CHANGE"}
chdir_init == {"data", "EVENT_AFTER_FORK"}
chdir_unload == {"data", "EVENT_AFTER_FORK"}
chroot_init == {"data", "EVENT_AFTER_FORK"}
chroot_unload == {"data", "EVENT_AFTER_FORK"}
conflict_init == {"states", "data", "EVENT_IS_CHANGE"}
conflict_unload == {"states", "data", "EVENT_IS_CHANGE"}
cpout_init == {"EVENT_ERROR_MESSAGE", "EVENT_IS_CHANGE", "EVENT_SYSTEM_CHANGE", "EVENT_BUFFER_WATCHER"}

\* A wrong version: one of the four hooks is forgotten.
cpout_unload_forgets == {"EVENT_IS_CHANGE", "EVENT_SYSTEM_CHANGE", "EVENT_BUFFER_WATCHER"}

cpout_unload == {"EVENT_IS_CHANGE", "EVENT_SYSTEM_CHANGE", "EVENT_BUFFER_WATCHER", "EVENT_ERROR_MESSAGE"}
critical_init == {"data", "EVENT_IS_CHANGE"}
critical_unload == {"data", "EVENT_IS_CHANGE"}
ctrlaltdel_init == {"EVENT_SIGNAL"}
ctrlaltdel_unload == {"EVENT_SIGNAL"}
daemon_init == {"type", "ptype", "data", "states"}
daemon_unload == {"type", "ptype", "data", "states"}
daemon_clean_init == {"ptype", "EVENT_HANDLE_KILLED"}
daemon_clean_unload == {"ptype", "EVENT_HANDLE_KILLED"}
dbus_event_init == {"EVENT_SIGNAL", "EVENT_STATE_CHANGE", "EVENT_SYSTEM_CHANGE", "EVENT_PIPE_WATCHER",
                    "EVENT_ERROR_MESSAGE", "EVENT_IO_WATCHER"}
dbus_event_unload == {"EVENT_SIGNAL", "EVENT_STATE_CHANGE", "EVENT_SYSTEM_CHANGE", "EVENT_PIPE_WATCHER",
                      "EVENT_ERROR_MESSAGE", "EVENT_IO_WATCHER"}
debug_commands_init == {"commands"}
debug_commands_unload == {"commands"}
fmon_init == {"EVENT_IO_WATCHER"}
fmon_unload == {"EVENT_IO_WATCHER"}
fstat_init == {"data", "states", "EVENT_START_DEP_MET", "EVENT_UP_MET"}
fstat_unload == {"data", "states", "EVENT_START_DEP_MET", "EVENT_UP_MET"}
history_init == {"commands", "EVENT_STATE_CHANGE", "EVENT_COMPENSATE_TIME", "EVENT_BUFFER_WATCHER"}
history_unload == {"commands", "EVENT_STATE_CHANGE", "EVENT_COMPENSATE_TIME", "EVENT_BUFFER_WATCHER"}
idleprobe_init == {"data", "EVENT_START_DEP_MET"}
idleprobe_unload == {"data", "EVENT_START_DEP_MET"}

\* initctl_control_open adds the hook of the FIFO, the unload takes it back.
initctl_init == {"EVENT_IO_WATCHER", "EVENT_SIGNAL", "EVENT_SYSTEM_CHANGE"}
initctl_unload == {"EVENT_IO_WATCHER", "EVENT_SYSTEM_CHANGE", "EVENT_SIGNAL"}

\* With "interactive" on the command line.
interactive_init == {"EVENT_START_DEP_MET", "EVENT_STOP_DEP_MET"}
interactive_unload == {"EVENT_START_DEP_MET", "EVENT_STOP_DEP_MET"}
last_init == {"data", "EVENT_START_DEP_MET"}
last_unload == {"data", "EVENT_START_DEP_MET"}
limit_init == {"data", "EVENT_AFTER_FORK"}
limit_unload == {"data", "EVENT_AFTER_FORK"}
lockfile_init == {"data", "EVENT_IS_CHANGE"}
lockfile_unload == {"data", "EVENT_IS_CHANGE"}
logfile_init == {"data", "EVENT_BUFFER_WATCHER"}
logfile_unload == {"data", "EVENT_BUFFER_WATCHER"}
netdev_init == {"states", "type", "EVENT_MAIN", "EVENT_SYSTEM_CHANGE"}
netdev_unload == {"states", "EVENT_MAIN", "EVENT_SYSTEM_CHANGE", "type"}
ngc4_init == {"EVENT_IO_WATCHER", "EVENT_SIGNAL"}
ngc4_unload == {"EVENT_IO_WATCHER", "EVENT_SIGNAL"}

\* Two handlers watch descriptors; register_ngcs_cmds adds four more hooks, of
\* which unregister_ngcs_cmds takes two back.
ngcs_init == {"EVENT_IS_CHANGE", "EVENT_IO_WATCHER", "EVENT_IO_WATCHER conn"}
register_ngcs_cmds == {"EVENT_STATE_CHANGE", "EVENT_BUFFER_WATCHER", "EVENT_SYSTEM_CHANGE", "EVENT_ERROR_MESSAGE"}
ngcs_unload == {"EVENT_IO_WATCHER conn", "EVENT_IO_WATCHER", "EVENT_IS_CHANGE"}
unregister_ngcs_cmds == {"EVENT_STATE_CHANGE", "EVENT_BUFFER_WATCHER"}

\* open_initiator_socket adds the hook of the socket, event_acceptor five more
\* for the first listener; close_initiator_socket takes back what is there.
nge_init == {"EVENT_SIGNAL", "EVENT_IO_WATCHER"}
nge_accepts == {"EVENT_STATE_CHANGE", "EVENT_SYSTEM_CHANGE", "EVENT_BUFFER_WATCHER", "EVENT_ERROR_MESSAGE",
                "EVENT_HANDLE_KILLED"}
nge_unload == {"EVENT_IO_WATCHER", "EVENT_SIGNAL"} \cup nge_accepts
pause_init == {"data", "EVENT_AFTER_FORK"}
pause_unload == {"data", "EVENT_AFTER_FORK"}
provide_init == {"type", "data", "states", "EVENT_SYSTEM_CHANGE", "EVENT_IS_CHANGE"}
provide_unload == {"EVENT_SYSTEM_CHANGE", "EVENT_IS_CHANGE", "type", "data", "states"}
reload_init == {"EVENT_SYSTEM_CHANGE", "EVENT_DUMP_ACTIVE_DB", "EVENT_RELOAD_ACTIVE_DB", "commands"}
reload_unload == {"EVENT_SYSTEM_CHANGE", "EVENT_DUMP_ACTIVE_DB", "EVENT_RELOAD_ACTIVE_DB", "commands"}
renice_init == {"data", "EVENT_AFTER_FORK"}
renice_unload == {"data", "EVENT_AFTER_FORK"}
runlevel_init == {"type", "states"}
runlevel_unload == {"type", "states"}
service_init == {"type", "ptype", "data", "states"}
service_unload == {"type", "ptype", "data", "states"}
service_file_init == {"ptype", "EVENT_IO_WATCHER", "EVENT_SIGNAL", "EVENT_NEW_ACTIVE", "EVENT_PIPE_WATCHER", "states"}
service_file_unload == {"ptype", "EVENT_IO_WATCHER", "EVENT_SIGNAL", "EVENT_NEW_ACTIVE", "EVENT_PIPE_WATCHER", "states"}
simple_launcher_init == {"data", "EVENT_LAUNCH"}
simple_launcher_unload == {"data", "EVENT_LAUNCH"}
stcmd_init == {"commands"}
stcmd_unload == {"commands"}
stdout_init == {"data", "EVENT_AFTER_FORK"}
stdout_unload == {"data", "EVENT_AFTER_FORK"}
suid_init == {"data", "EVENT_AFTER_FORK"}
suid_unload == {"data", "EVENT_AFTER_FORK"}

\* With "synchronously" on the command line the other hook is used; the unload
\* then takes back both.
synchron_init(check) == {"data", IF check THEN "EVENT_START_DEP_MET check" ELSE "EVENT_START_DEP_MET"}
synchron_unload(check) == {"EVENT_START_DEP_MET", "data"} \cup (IF check THEN {"EVENT_START_DEP_MET check"} ELSE {})
syslog_init == {"EVENT_IS_CHANGE", "EVENT_SYSTEM_CHANGE", "EVENT_BUFFER_WATCHER", "EVENT_ERROR_MESSAGE"}
syslog_unload == {"EVENT_IS_CHANGE", "EVENT_SYSTEM_CHANGE", "EVENT_BUFFER_WATCHER", "EVENT_ERROR_MESSAGE"}
sysreq_init == {"EVENT_SIGNAL"}
sysreq_unload == {"EVENT_SIGNAL"}
task_init == {"type", "ptype", "data", "states"}
task_unload == {"type", "ptype", "data", "states"}
unneeded_init == {"commands"}
unneeded_unload == {"commands"}

-----------------------------------------------------------------------------
\* The registrations of a module whose module_init returned TRUE.  args is what
\* the command line says: "synchronously", "interactive".
Registers(m, args) ==
    CASE m = "also" -> also_init             [] m = "chdir" -> chdir_init
      [] m = "chroot" -> chroot_init         [] m = "conflict" -> conflict_init
      [] m = "cpout" -> cpout_init           [] m = "critical" -> critical_init
      [] m = "ctrlaltdel" -> ctrlaltdel_init [] m = "daemon" -> daemon_init
      [] m = "daemon_clean" -> daemon_clean_init
      [] m = "dbus_event" -> dbus_event_init [] m = "debug_commands" -> debug_commands_init
      [] m = "fmon" -> fmon_init             [] m = "fstat" -> fstat_init
      [] m = "history" -> history_init       [] m = "idleprobe" -> idleprobe_init
      [] m = "initctl" -> initctl_init       [] m = "last" -> last_init
      [] m = "interactive" -> (IF "interactive" \in args THEN interactive_init ELSE {})
      [] m = "limit" -> limit_init           [] m = "lockfile" -> lockfile_init
      [] m = "logfile" -> logfile_init       [] m = "netdev" -> netdev_init
      [] m = "ngc4" -> ngc4_init             [] m = "ngcs" -> ngcs_init \cup register_ngcs_cmds
      [] m = "nge" -> nge_init               [] m = "pause" -> pause_init
      [] m = "provide" -> provide_init       [] m = "reload" -> reload_init
      [] m = "renice" -> renice_init         [] m = "runlevel" -> runlevel_init
      [] m = "service" -> service_init       [] m = "service_file" -> service_file_init
      [] m = "simple_launcher" -> simple_launcher_init
      [] m = "stcmd" -> stcmd_init           [] m = "stdout" -> stdout_init
      [] m = "suid" -> suid_init             [] m = "synchron" -> synchron_init("synchronously" \in args)
      [] m = "syslog" -> syslog_init         [] m = "sysreq" -> sysreq_init
      [] m = "task" -> task_init             [] m = "unneeded" -> unneeded_init

\* What its module_unload takes back.
Unregisters(m, args) ==
    CASE m = "also" -> also_unload             [] m = "chdir" -> chdir_unload
      [] m = "chroot" -> chroot_unload         [] m = "conflict" -> conflict_unload
      [] m = "cpout" -> cpout_unload           [] m = "critical" -> critical_unload
      [] m = "ctrlaltdel" -> ctrlaltdel_unload [] m = "daemon" -> daemon_unload
      [] m = "daemon_clean" -> daemon_clean_unload
      [] m = "dbus_event" -> dbus_event_unload [] m = "debug_commands" -> debug_commands_unload
      [] m = "fmon" -> fmon_unload             [] m = "fstat" -> fstat_unload
      [] m = "history" -> history_unload       [] m = "idleprobe" -> idleprobe_unload
      [] m = "initctl" -> initctl_unload       [] m = "last" -> last_unload
      [] m = "interactive" -> (IF "interactive" \in args THEN interactive_unload ELSE {})
      [] m = "limit" -> limit_unload           [] m = "lockfile" -> lockfile_unload
      [] m = "logfile" -> logfile_unload       [] m = "netdev" -> netdev_unload
      [] m = "ngc4" -> ngc4_unload             [] m = "ngcs" -> ngcs_unload \cup unregister_ngcs_cmds
      [] m = "nge" -> nge_unload               [] m = "pause" -> pause_unload
      [] m = "provide" -> provide_unload       [] m = "reload" -> reload_unload
      [] m = "renice" -> renice_unload         [] m = "runlevel" -> runlevel_unload
      [] m = "service" -> service_unload       [] m = "service_file" -> service_file_unload
      [] m = "simple_launcher" -> simple_launcher_unload
      [] m = "stcmd" -> stcmd_unload           [] m = "stdout" -> stdout_unload
      [] m = "suid" -> suid_unload             [] m = "synchron" -> synchron_unload("synchronously" \in args)
      [] m = "syslog" -> syslog_unload         [] m = "sysreq" -> sysreq_unload
      [] m = "task" -> task_unload             [] m = "unneeded" -> unneeded_unload

\* initng_module.deps.
Deps(m) ==
    CASE m = "history" -> {"ngc4"}    [] m = "daemon_clean" -> {"daemon"}
      [] m = "ngcs" -> {"stcmd"}      [] m = "ngc4" -> {"stcmd"}
      [] m = "synchron" -> {"service"} [] m = "unneeded" -> {"runlevel"}
      [] m = "reload" -> {"service", "daemon", "runlevel"}
      [] OTHER -> {}

AllModules ==
    {"also", "chdir", "chroot", "conflict", "cpout", "critical", "ctrlaltdel", "daemon", "daemon_clean", "dbus_event",
     "debug_commands", "fmon", "fstat", "history", "idleprobe", "initctl", "interactive", "last", "limit", "lockfile",
     "logfile", "netdev", "ngc4", "ngcs", "nge", "pause", "provide", "reload", "renice", "runlevel", "service",
     "service_file", "simple_launcher", "stcmd", "stdout", "suid", "synchron", "syslog", "sysreq", "task", "unneeded"}
=============================================================================
