----------------------------- MODULE Supervisor -----------------------------
(***************************************************************************)
(* What the daemon type promises, without how it does it: a daemon has a   *)
(* rough state (the e_is of its state) and at most one process.  It is     *)
(* launched only while it is starting and when nothing of it runs; it      *)
(* leaves UP by itself, and STOPPING for DOWN, only when its process is    *)
(* gone.  Daemon is shown to implement this for daemons that do not fork.  *)
(***************************************************************************)
CONSTANT Pids

VARIABLES
    is,     \* the rough state
    live    \* its processes that run and were not sent SIGKILL

vars == <<is, live>>

Init == is = "DOWN" /\ live = {}

\* A request or the outcome of a check changes the rough state, whether a process
\* runs or not.
Asked ==
    {"DOWN"} \X {"STARTING", "FAILED"}
    \cup {"STARTING"} \X {"UP", "STOPPING", "DOWN", "FAILED"}
    \cup {"UP"} \X {"STOPPING"}
    \cup {"STOPPING"} \X {"STARTING", "UP", "FAILED"}

Ask == <<is, is'>> \in Asked /\ UNCHANGED live

\* The one way a process of the daemon comes to be.
Launch(p) ==
    /\ is = "STARTING" /\ live = {}
    /\ live' = {p}
    /\ is' \in {"STARTING", "UP"}

\* It ends by itself.
Ends == live' = {} /\ UNCHANGED is

\* It is killed: the stop took too long, or the start did, which then failed.
Kill ==
    /\ live' = {}
    /\ \/ is = "STOPPING" /\ UNCHANGED is
       \/ is = "STARTING" /\ is' = "FAILED"

\* Its end is noticed: the daemon is down, has failed, or is respawned.
Noticed ==
    /\ live = {} /\ UNCHANGED live
    /\ is' \in {"DOWN", "FAILED"} \/ (is = "UP" /\ is' = "STARTING")

Next == Ask \/ (\E p \in Pids : Launch(p)) \/ Ends \/ Kill \/ Noticed

Spec == Init /\ [][Next]_vars
=============================================================================
