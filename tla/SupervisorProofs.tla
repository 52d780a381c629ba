-------------------------- MODULE SupervisorProofs --------------------------
(***************************************************************************)
(* A daemon that does not fork and is not looked for by name implements    *)
(* Supervisor, for every set of pids and every such service file.          *)
(***************************************************************************)
EXTENDS DaemonProofs

\* The rough state and the processes as Supervisor sees them.
Rough == Is[state]
Live == {p \in Pids : Alive(p)}

\* A step of Supervisor, in terms of the two.
PromiseStep ==
    \/ <<Rough, Rough'>> \in Promise!Asked /\ Live' = Live
    \/ \E p \in Pids : Rough = "STARTING" /\ Live = {} /\ Live' = {p} /\ Rough' \in {"STARTING", "UP"}
    \/ Live' = {} /\ Rough' = Rough
    \/ Live' = {} /\ Rough = "STARTING" /\ Rough' = "FAILED"
    \/ Live = {} /\ Live' = {} /\ (Rough' \in {"DOWN", "FAILED"} \/ (Rough = "UP" /\ Rough' = "STARTING"))
    \/ Rough' = Rough /\ Live' = Live

\* PromiseStep is a step of Supervisor or a stutter.
LEMMA PromiseStepIs ==
    ASSUME PromiseStep PROVE [Promise!Next]_(Promise!vars)
BY DEF PromiseStep, Rough, Live, Promise!Next, Promise!vars, Promise!Ask, Promise!Launch, Promise!Ends,
    Promise!Kill, Promise!Noticed

\* Which processes run is not changed by steps that leave the system alone.
LEMMA LiveSame ==
    ASSUME UNCHANGED <<os, killed>> PROVE Live' = Live
BY DEF Live, Alive

\* The requests and the callbacks that only mark the daemon take it along an edge
\* Supervisor has, or leave its rough state as it is.
LEMMA MarksAsked ==
    ASSUME IInv, ~FORKS, ~PIDOF,
           \/ Start \/ Stop \/ StopAll \/ InitStartMarked \/ InitStopMarked \/ InitOther
           \/ WaitingForStartDep \/ WaitingForStopDep \/ TimeoutWaitRespTout \/ TimePasses
           \/ \E p \in Pids : WritePidFile(p)
    PROVE  PromiseStep
  <1>1. Live' = Live
    BY LiveSame DEF Start, Stop, StopAll, InitStartMarked, InitStopMarked, InitOther, WaitingForStartDep,
        WaitingForStopDep, TimeoutWaitRespTout, TimePasses, WritePidFile, system
  <1>2. <<Rough, Rough'>> \in Promise!Asked \/ Rough' = Rough
    <2>1. CASE Start
      BY <2>1 DEF Start, Mark, mark, Rough, Is, Promise!Asked
    <2>2. CASE Stop \/ StopAll
      BY <2>2 DEF Stop, StopAll, StopService, Mark, mark, Rough, Is, Promise!Asked
    <2>3. CASE InitStartMarked \/ InitStopMarked \/ InitOther
      BY <2>3 DEF InitStartMarked, InitStopMarked, InitOther, InitCallback, Mark, mark, Rough, Is
    <2>4. CASE WaitingForStartDep \/ WaitingForStopDep \/ TimeoutWaitRespTout
      BY <2>4 DEF WaitingForStartDep, WaitingForStopDep, TimeoutWaitRespTout, Mark, mark, Rough, Is, Promise!Asked
    <2>5. CASE TimePasses \/ \E p \in Pids : WritePidFile(p)
      BY <2>5 DEF TimePasses, WritePidFile, mark, Rough
    <2> QED BY <2>1, <2>2, <2>3, <2>4, <2>5
  <1> QED BY <1>1, <1>2 DEF PromiseStep

\* The daemon's only process: while one is listed, no other is alive.
LEMMA OnlyListed ==
    ASSUME IInv, ~FORKS, ~PIDOF, NEW p \in Pids, NEW i \in 1..Len(procs), procs[i] = p, ~Alive(p)
    PROVE  Live = {}
  <1>1. Len(procs) \in Nat /\ Len(procs) <= 1
    BY DEF IInv, TypeOK, ListExists
  <1>2. \A j \in 1..Len(procs) : procs[j] = p
    BY <1>1
  <1> QED BY <1>2 DEF IInv, NeverForgotten, Live

\* A launch (initng_execute_launch finds no active process) is the Launch of
\* Supervisor; one that finds nothing to run fails.
LEMMA LaunchPromised ==
    ASSUME IInv, ~FORKS, ~PIDOF, InitStartDepsMet
    PROVE  PromiseStep
  <1>1. state = "START_DEPS_MET" /\ Rough = "STARTING"
    BY DEF InitStartDepsMet, InitCallback, Rough, Is
  <1>2. CASE Mark("FAIL_START_LAUNCH") /\ UNCHANGED <<procs, os>>
    <2>1. Live' = Live
      BY <1>2, LiveSame DEF InitStartDepsMet
    <2>2. Rough' = "FAILED"
      BY <1>1, <1>2 DEF Mark, Rough, Is
    <2> QED BY <1>1, <2>1, <2>2 DEF PromiseStep, Promise!Asked
  <1>3. ASSUME NEW p \in Pids, procs = <<>>, os[p] = "none", os' = [os EXCEPT ![p] = "main"], Mark(LaunchedState)
        PROVE  PromiseStep
    <2>1. Rough' \in {"STARTING", "UP"}
      BY <1>1, <1>3 DEF Mark, LaunchedState, Rough, Is
    <2>2. Live = {}
      <3>1. Len(procs) = 0
        BY <1>3
      <3> QED BY <3>1 DEF IInv, NeverForgotten, Live
    <2>3. UNCHANGED killed
      BY DEF InitStartDepsMet
    <2>4. Live' = {} \/ Live' = {p}
      <3>1. \A q \in Pids : q # p => os'[q] = os[q]
        BY <1>3 DEF IInv, TypeOK
      <3>2. \A q \in Pids : q # p => ~Alive(q)'
        BY <2>2, <2>3, <3>1 DEF Live, Alive
      <3> QED BY <3>2 DEF Live
    <2> QED BY <1>1, <2>1, <2>2, <2>4 DEF PromiseStep, Promise!Asked
  <1> QED BY <1>2, <1>3 DEF InitStartDepsMet

\* A process of the list exists, so that a stop terminates it (kill_daemon) and
\* does not take the daemon for stopped.
LEMMA StopPromised ==
    ASSUME IInv, ~FORKS, ~PIDOF, InitStopDepsMet
    PROVE  PromiseStep
  <1>1. Live' = Live
    BY LiveSame DEF InitStopDepsMet, system
  <1>2. procs # <<>> => os[Head(procs)] # "none"
    <2>1. procs # <<>> => 1 \in 1..Len(procs) /\ Head(procs) = procs[1]
      BY DEF IInv, TypeOK
    <2> QED BY <2>1 DEF IInv, ListExists
  <1>3. Rough' = Rough
    BY <1>2 DEF InitStopDepsMet, InitCallback, Mark, Rough, Is
  <1> QED BY <1>1, <1>3 DEF PromiseStep

\* Looking for the pid (try_get_pid) ends the start one way or the other.
LEMMA PidPromised ==
    ASSUME IInv, ~FORKS, ~PIDOF, TimeoutWaitForPidFile
    PROVE  PromiseStep
  <1>1. Live' = Live
    BY LiveSame DEF TimeoutWaitForPidFile, system
  <1>2. Rough' = Rough \/ (Rough = "STARTING" /\ Rough' \in {"UP", "FAILED"})
    <2>1. state = "WAIT_FOR_PID_FILE" /\ (UNCHANGED state \/ state' \in {"RUNNING", "UP_CHECK_FAILED"})
      BY DEF TimeoutWaitForPidFile, GotPid, Mark, mark
    <2> QED BY <2>1 DEF Rough, Is
  <1> QED BY <1>1, <1>2 DEF PromiseStep, Promise!Asked

\* What is alive after SIGKILL went to the first process of the list.
LEMMA KilledGone ==
    ASSUME IInv, ~FORKS, ~PIDOF, UNCHANGED os,
           IF procs # <<>> THEN killed' = killed \cup {Head(procs)} ELSE killed' = killed
    PROVE  Live' = {}
  <1>1. ASSUME NEW p \in Pids, Alive(p)' PROVE FALSE
    <2>1. Alive(p)
      BY <1>1 DEF Alive
    <2>2. PICK i \in 1..Len(procs) : procs[i] = p
      BY <2>1 DEF IInv, NeverForgotten
    <2>3. Len(procs) \in Nat /\ Len(procs) <= 1 /\ procs \in Seq(Pids)
      BY DEF IInv, TypeOK, ListExists
    <2>4. procs # <<>> /\ Head(procs) = p
      BY <2>2, <2>3
    <2> QED BY <1>1, <2>4 DEF Alive
  <1> QED BY <1>1 DEF Live

\* The timeouts that kill (kill_daemon with SIGKILL) leave no process alive.
LEMMA KillPromised ==
    ASSUME IInv, ~FORKS, ~PIDOF, TimeoutPidTimeout \/ TimeoutTerm \/ TimeoutKill
    PROVE  PromiseStep
  <1>1. procs # <<>> => os[Head(procs)] # "none"
    <2>1. procs # <<>> => 1 \in 1..Len(procs) /\ Head(procs) = procs[1]
      BY DEF IInv, TypeOK
    <2> QED BY <2>1 DEF IInv, ListExists
  <1>2. Live' = {}
    <2>1. UNCHANGED os
      BY DEF TimeoutPidTimeout, TimeoutTerm, TimeoutKill
    <2>2. IF procs # <<>> THEN killed' = killed \cup {Head(procs)} ELSE killed' = killed
      BY <1>1 DEF TimeoutPidTimeout, TimeoutTerm, TimeoutKill, KillDaemon
    <2> QED BY <2>1, <2>2, KilledGone
  <1>3. Rough' = Rough \/ (Rough = "STARTING" /\ Rough' = "FAILED")
    BY DEF TimeoutPidTimeout, TimeoutTerm, TimeoutKill, Mark, mark, Rough, Is
  <1> QED BY <1>2, <1>3 DEF PromiseStep

\* The daemon ends by itself.
LEMMA ExitPromised ==
    ASSUME IInv, ~FORKS, ~PIDOF, NEW p \in Pids, Exit(p)
    PROVE  PromiseStep
  <1>1. Rough' = Rough
    BY DEF Exit, mark, Rough
  <1>2. \A q \in Pids : os'[q] = (IF q = p THEN "zombie" ELSE os[q]) /\ UNCHANGED killed
    BY DEF Exit, IInv, TypeOK
  <1>3. Live' = Live \/ Live' = {}
    <2>1. CASE Alive(p)
      <3>1. \A q \in Pids : Alive(q) => q = p
        BY <2>1 DEF IInv, NeverTwo
      <3>2. \A q \in Pids : ~Alive(q)'
        BY <1>2, <3>1 DEF Alive, Running
      <3> QED BY <3>2 DEF Live
    <2>2. CASE ~Alive(p)
      <3>1. \A q \in Pids : Alive(q)' <=> Alive(q)
        <4>1. ~Alive(p)'
          BY <1>2 DEF Alive, Running
        <4>2. ASSUME NEW q \in Pids, q # p PROVE Alive(q)' <=> Alive(q)
          BY <1>2, <4>2 DEF Alive
        <4> QED BY <2>2, <4>1, <4>2
      <3> QED BY <3>1 DEF Live
    <2> QED BY <2>1, <2>2
  <1> QED BY <1>1, <1>3 DEF PromiseStep

\* A death is noticed (handle_killed_daemon) only when nothing is alive.
LEMMA ReapPromised ==
    ASSUME IInv, ~FORKS, ~PIDOF, NEW p \in Pids, Reap(p)
    PROVE  PromiseStep
  <1>1. ~Alive(p) /\ Live' = Live
    <2>1. \A q \in Pids : os'[q] = IF q = p THEN "none" ELSE os[q]
      BY DEF Reap, IInv, TypeOK
    <2>2. killed' = killed \ {p} /\ os[p] = "zombie"
      BY DEF Reap
    <2>3. ~Alive(p) /\ ~Alive(p)'
      BY <2>1, <2>2 DEF Alive, Running
    <2>4. ASSUME NEW q \in Pids, q # p PROVE Alive(q)' <=> Alive(q)
      BY <2>1, <2>2, <2>4 DEF Alive
    <2> QED BY <2>3, <2>4 DEF Live
  <1>2. CASE \E i \in 1..Len(procs) : procs[i] = p
    <2>1. Live = {}
      BY <1>1, <1>2, OnlyListed
    <2>2. HandleKilledDaemon(p, os')
      BY <1>2 DEF Reap
    <2>3. \/ Rough' = Rough \/ Rough' \in {"DOWN", "FAILED"}
          \/ Rough = "UP" /\ Rough' = "STARTING"
      BY <2>2 DEF HandleKilledDaemon, CheckRespawn, KilledState, Mark, mark, Rough, Is
    <2> QED BY <1>1, <2>1, <2>3 DEF PromiseStep
  <1>3. CASE ~\E i \in 1..Len(procs) : procs[i] = p
    <2>1. Rough' = Rough
      BY <1>3 DEF Reap, mark, Rough
    <2> QED BY <1>1, <2>1 DEF PromiseStep
  <1> QED BY <1>2, <1>3

\* The daemon type implements Supervisor: the initial state maps to its initial
\* state and every step to one of its steps or to none.
THEOREM DaemonIsSupervised ==
    ASSUME ~FORKS, ~PIDOF PROVE Spec => Supervised
  <1>1. Init => Promise!Init
    BY DEF Init, Promise!Init, Is, Alive, Running
  <1>2. IInv /\ [Next]_vars => [Promise!Next]_(Promise!vars)
    <2>1. IInv /\ Next => PromiseStep
      <3> SUFFICES ASSUME IInv, Next PROVE PromiseStep
        OBVIOUS
      <3>1. ~\E p, q \in Pids : Fork(p, q)
        BY DEF Fork
      <3> QED BY <3>1, MarksAsked, LaunchPromised, StopPromised, PidPromised, KillPromised, ExitPromised,
            ReapPromised DEF Next, Handle, RunAlarm
    <2>2. UNCHANGED vars => UNCHANGED Promise!vars
      BY DEF vars, Promise!vars, Alive
    <2> QED BY <2>1, <2>2, PromiseStepIs
  <1> QED BY <1>1, <1>2, Invariance, PTL DEF Spec, Supervised, Promise!Spec
=============================================================================
