---------------------------- MODULE DaemonProofs ----------------------------
(***************************************************************************)
(* Proofs about Daemon for every set of pids and every service file: a     *)
(* daemon that does not fork is never run twice and never forgotten.       *)
(***************************************************************************)
EXTENDS Daemon, WellFoundedInduction, TLAPS

\* The part of the invariant that is not about types.
Processes == NeverTwo /\ NeverForgotten /\ ListExists /\ OneWhileWaiting

\* Marking keeps the types of the three variables of a mark, whatever state of
\* the daemon is marked (initng_common_mark_service).
LEMMA MarkType ==
    ASSUME TypeOK, NEW st \in DOMAIN Is, Mark(st)
    PROVE  state' \in DOMAIN Is /\ queued' \in BOOLEAN /\ alarm' \in BOOLEAN
BY DEF TypeOK, Mark, mark

\* A set of natural numbers that is not empty has a least element.
LEMMA Least ==
    ASSUME NEW S \in SUBSET Nat, S # {}
    PROVE  \E i \in S : \A j \in S : i <= j
  <1>1. PICK i \in S : \A j \in S : ~(<<j, i>> \in OpToRel(<, Nat))
    BY NatLessThanWellFounded, WFMin
  <1>2. \A j \in S : ~(j < i)
    BY <1>1 DEF OpToRel
  <1> QED BY <1>2

\* Freeing the first process of pid p (handle_killed_daemon) keeps the list a list
\* of pids, shortens it by one and loses no process of another pid.
LEMMA FreedKeeps ==
    ASSUME TypeOK, NEW p \in Pids, \E i \in 1..Len(procs) : procs[i] = p
    PROVE  /\ Freed(p) \in Seq(Pids)
           /\ Len(Freed(p)) = Len(procs) - 1
           /\ \A q \in Pids \ {p} : (\E i \in 1..Len(procs) : procs[i] = q)
                    => \E i \in 1..Len(Freed(p)) : Freed(p)[i] = q
  <1> DEFINE S == {i \in 1..Len(procs) : procs[i] = p}
             i == CHOOSE j \in 1..Len(procs) : procs[j] = p /\ \A k \in 1..(j - 1) : procs[k] # p
             f == [j \in 1..(Len(procs) - 1) |-> IF j < i THEN procs[j] ELSE procs[j + 1]]
  <1>1. procs \in Seq(Pids) /\ Len(procs) \in Nat
    BY DEF TypeOK
  <1>2. \E j \in 1..Len(procs) : procs[j] = p /\ \A k \in 1..(j - 1) : procs[k] # p
    <2>1. PICK j \in S : \A k \in S : j <= k
      <3>1. S \in SUBSET Nat /\ S # {}
        BY <1>1
      <3> HIDE DEF S
      <3> QED BY <3>1, Least
    <2> QED BY <1>1, <2>1
  <1>3. i \in 1..Len(procs) /\ procs[i] = p
    BY <1>2
  <1>4. Freed(p) = f
    BY DEF Freed
  <1> HIDE DEF i
  <1>5. f \in Seq(Pids) /\ Len(f) = Len(procs) - 1
    <2>1. \A j \in 1..(Len(procs) - 1) : f[j] \in Pids
      BY <1>1, <1>3
    <2>2. Len(procs) - 1 \in Nat
      BY <1>1, <1>3
    <2> QED BY <2>1, <2>2
  <1>6. ASSUME NEW q \in Pids \ {p}, NEW k \in 1..Len(procs), procs[k] = q
        PROVE  \E j \in 1..Len(f) : f[j] = q
    <2>1. k # i
      BY <1>3, <1>6
    <2>2. CASE k < i
      BY <1>1, <1>3, <1>5, <1>6, <2>2
    <2>3. CASE k > i
      <3>1. k - 1 \in 1..Len(f) /\ ~(k - 1 < i) /\ (k - 1) + 1 = k
        BY <1>1, <1>3, <1>5, <2>3
      <3>2. f[k - 1] = procs[k]
        BY <1>1, <1>5, <3>1
      <3> QED BY <1>6, <3>1, <3>2
    <2>4. k < i \/ k > i
      BY <1>1, <1>3, <2>1
    <2> QED BY <2>2, <2>3, <2>4
  <1> QED BY <1>4, <1>5, <1>6

\* Steps that leave the processes of the system and the process list alone keep
\* what is said of them, unless they make the daemon wait for its pid.
LEMMA SameProcesses ==
    ASSUME IInv, UNCHANGED <<procs, os, killed>>,
           state' = "WAIT_FOR_PID_FILE" => state = "WAIT_FOR_PID_FILE"
    PROVE  Processes'
BY DEF IInv, Processes, NeverTwo, NeverForgotten, ListExists, OneWhileWaiting, Alive

\* Adopting a pid (try_get_pid) keeps the types of what it changes and, unless the
\* daemon forks, the process list; the list keeps its length.
LEMMA GotPidType ==
    ASSUME TypeOK, NEW p \in Pids, GotPid(p)
    PROVE  /\ state' \in DOMAIN Is /\ queued' \in BOOLEAN /\ alarm' \in BOOLEAN
           /\ procs' \in Seq(Pids) /\ Len(procs') = Len(procs)
           /\ ~FORKS => procs' = procs
  <1>1. PICK st \in {"UP_CHECK_FAILED", "RUNNING"} : Mark(st)
    BY DEF GotPid
  <1>2. st \in DOMAIN Is
    BY DEF Is
  <1>3. procs' = procs \/ (procs # <<>> /\ procs' = [procs EXCEPT ![1] = p])
    BY DEF GotPid
  <1>4. procs' \in Seq(Pids) /\ Len(procs') = Len(procs)
    BY <1>3 DEF TypeOK
  <1>5. ~FORKS => procs' = procs
    BY DEF GotPid
  <1> QED BY <1>1, <1>2, <1>4, <1>5, MarkType

\* Types are kept by every step.
LEMMA TypeStep ==
    ASSUME IInv, Next
    PROVE  TypeOK'
  <1> USE DEF IInv
  <1>1. CASE Start \/ Stop \/ StopAll
    BY <1>1 DEF Start, Stop, StopAll, StopService, Mark, TypeOK, Is, mark, system
  <1>2. CASE InitStartMarked \/ InitStopMarked \/ InitStopDepsMet \/ InitOther
    BY <1>2 DEF InitStartMarked, InitStopMarked, InitStopDepsMet, InitOther, InitCallback, Mark,
        TypeOK, Is, mark, system
  <1>3. CASE InitStartDepsMet
    <2>1. state' \in DOMAIN Is /\ queued' \in BOOLEAN /\ alarm' \in BOOLEAN
      BY <1>3 DEF InitStartDepsMet, LaunchedState, Mark, TypeOK, Is, mark
    <2>2. pidfile' \in Pids \cup {NoPid} /\ UNCHANGED <<recent, killed, sys>>
      BY <1>3 DEF InitStartDepsMet, TypeOK
    <2>3. \/ UNCHANGED <<procs, os>>
          \/ \E p \in Pids : procs' = Append(procs, p) /\ os' = os
          \/ \E p \in Pids : procs' = <<p>> /\ os' = [os EXCEPT ![p] = "main"]
      BY <1>3 DEF InitStartDepsMet
    <2>4. procs' \in Seq(Pids)
      <3>1. procs \in Seq(Pids)
        BY DEF TypeOK
      <3>2. \A p \in Pids : Append(procs, p) \in Seq(Pids) /\ <<p>> \in Seq(Pids)
        BY <3>1
      <3> QED BY <2>3, <3>1, <3>2
    <2>5. os' \in [Pids -> ProcessStates]
      BY <2>3 DEF TypeOK, ProcessStates, Running
    <2> QED BY <2>1, <2>2, <2>4, <2>5 DEF TypeOK
  <1>4. CASE WaitingForStartDep \/ WaitingForStopDep \/ TimeoutWaitRespTout
    BY <1>4 DEF WaitingForStartDep, WaitingForStopDep, TimeoutWaitRespTout, Mark, TypeOK, Is, mark, system
  <1>5. CASE TimeoutWaitForPidFile
    <2>1. UNCHANGED <<mark, procs>> \/ \E p \in Pids : GotPid(p)
      BY <1>5 DEF TimeoutWaitForPidFile
    <2>2. UNCHANGED <<recent, system, sys>>
      BY <1>5 DEF TimeoutWaitForPidFile
    <2> QED BY <2>1, <2>2, GotPidType DEF TypeOK, mark, system
  <1>6. CASE TimeoutPidTimeout
    <2>1. state' \in DOMAIN Is /\ queued' \in BOOLEAN /\ alarm' \in BOOLEAN
      BY <1>6 DEF TimeoutPidTimeout, Mark, TypeOK, Is, mark
    <2>2. procs' \in Seq(Pids)
      BY <1>6 DEF TimeoutPidTimeout, TypeOK
    <2>3. killed' \subseteq Pids /\ UNCHANGED <<recent, os, pidfile, sys>>
      BY <1>6 DEF TimeoutPidTimeout, TypeOK
    <2> QED BY <2>1, <2>2, <2>3 DEF TypeOK
  <1>7. CASE TimeoutTerm \/ TimeoutKill
    <2>1. state' \in DOMAIN Is /\ queued' \in BOOLEAN /\ alarm' \in BOOLEAN
      BY <1>7 DEF TimeoutTerm, TimeoutKill, Mark, TypeOK, Is, mark
    <2>2. procs' \in Seq(Pids)
      BY <1>7 DEF TimeoutTerm, TimeoutKill, KillDaemon, TypeOK
    <2>3. killed' \subseteq Pids /\ UNCHANGED <<recent, os, pidfile, sys>>
      BY <1>7 DEF TimeoutTerm, TimeoutKill, KillDaemon, TypeOK
    <2> QED BY <2>1, <2>2, <2>3 DEF TypeOK
  <1>8. ASSUME NEW p \in Pids, Reap(p)
        PROVE  TypeOK'
    <2>1. os' \in [Pids -> ProcessStates] /\ killed' \subseteq Pids /\ UNCHANGED <<pidfile, sys>>
      BY <1>8 DEF Reap, TypeOK, ProcessStates
    <2>2. /\ state' \in DOMAIN Is /\ queued' \in BOOLEAN /\ alarm' \in BOOLEAN
          /\ procs' \in Seq(Pids) /\ recent' \in BOOLEAN
      <3>1. CASE UNCHANGED <<mark, recent, procs>>
        BY <3>1 DEF TypeOK, mark
      <3>2. CASE UNCHANGED recent /\ \E q \in Pids : GotPid(q)
        BY <3>2, GotPidType DEF TypeOK
      <3>3. CASE (\E i \in 1..Len(procs) : procs[i] = p) /\ procs' = Freed(p)
        <4>1. procs' \in Seq(Pids)
          BY <3>3, FreedKeeps
        <4>2. PICK st \in DOMAIN Is : Mark(st)
          BY <1>8, <3>3 DEF Reap, HandleKilledDaemon, KilledState, GotPid, Mark, mark, Is
        <4>3. recent' \in BOOLEAN
          BY <1>8 DEF Reap, HandleKilledDaemon, TypeOK
        <4> QED BY <4>1, <4>2, <4>3, MarkType
      <3> QED BY <1>8, <3>1, <3>2, <3>3 DEF Reap, HandleKilledDaemon
    <2> QED BY <2>1, <2>2 DEF TypeOK
  <1>9. ASSUME NEW p \in Pids, WritePidFile(p) \/ Exit(p) \/ \E q \in Pids : Fork(p, q)
        PROVE  TypeOK'
    <2>1. UNCHANGED <<mark, recent, procs, killed, sys>>
      BY <1>9 DEF WritePidFile, Exit, Fork
    <2>2. pidfile' \in Pids \cup {NoPid}
      BY <1>9 DEF WritePidFile, Exit, Fork, TypeOK
    <2>3. os' \in [Pids -> ProcessStates]
      BY <1>9 DEF WritePidFile, Exit, Fork, TypeOK, ProcessStates, Running
    <2> QED BY <2>1, <2>2, <2>3 DEF TypeOK, mark
  <1>10. CASE TimePasses
    BY <1>10 DEF TimePasses, TypeOK, mark, system
  <1> QED BY <1>1, <1>2, <1>3, <1>4, <1>5, <1>6, <1>7, <1>8, <1>9, <1>10 DEF Next, Handle, RunAlarm

\* The launch of init_DAEMON_START_DEPS_MET: a new process starts only when the
\* list is empty, and then no process was alive; a process taken over by name is
\* only added to the list.
LEMMA LaunchStep ==
    ASSUME IInv, InitStartDepsMet
    PROVE  Processes'
  <1> USE DEF IInv
  <1>1. UNCHANGED killed
    BY DEF InitStartDepsMet
  <1>2. CASE \E p \in Pids : PIDOF /\ procs' = Append(procs, p) /\ Mark("RUNNING") /\ UNCHANGED os
    <2>1. PICK p \in Pids : PIDOF /\ procs' = Append(procs, p) /\ Mark("RUNNING") /\ UNCHANGED os
      BY <1>2
    <2>2. state' = "RUNNING"
      BY <2>1 DEF Mark, mark
    <2>3. \A i \in 1..Len(procs) : i \in 1..Len(procs') /\ procs'[i] = procs[i]
      BY <2>1 DEF TypeOK
    <2>4. NeverTwo' /\ NeverForgotten'
      BY <1>1, <2>1, <2>3 DEF NeverTwo, NeverForgotten, Alive
    <2> QED BY <2>1, <2>2, <2>4 DEF Processes, ListExists, OneWhileWaiting
  <1>3. CASE \E p \in Pids : procs = <<>> /\ os[p] = "none" /\ procs' = <<p>> /\ os' = [os EXCEPT ![p] = "main"]
    <2>1. PICK p \in Pids : procs = <<>> /\ os[p] = "none" /\ procs' = <<p>> /\ os' = [os EXCEPT ![p] = "main"]
      BY <1>3
    <2>2. \A q \in Pids : os'[q] = IF q = p THEN "main" ELSE os[q]
      BY <2>1 DEF TypeOK
    <2>3. ~FORKS => \A q \in Pids : ~Alive(q)
      BY <2>1 DEF NeverForgotten
    <2>4. ~FORKS => \A q \in Pids : Alive(q)' => q = p
      BY <1>1, <2>2, <2>3 DEF Alive
    <2>5. Len(procs') = 1 /\ procs'[1] = p
      BY <2>1
    <2>6. NeverTwo' /\ NeverForgotten'
      BY <2>4, <2>5 DEF NeverTwo, NeverForgotten
    <2>7. ListExists' /\ OneWhileWaiting'
      BY <2>2, <2>5 DEF ListExists, OneWhileWaiting
    <2> QED BY <2>6, <2>7 DEF Processes
  <1>4. CASE Mark("FAIL_START_LAUNCH") /\ UNCHANGED <<procs, os>>
    BY <1>1, <1>4, SameProcesses DEF Mark, mark
  <1> QED BY <1>2, <1>3, <1>4 DEF InitStartDepsMet

\* kill_daemon and the timeout of the pid file: what is taken off the list does not
\* exist or has been sent SIGKILL.
LEMMA KillStep ==
    ASSUME IInv, TimeoutTerm \/ TimeoutKill \/ TimeoutPidTimeout
    PROVE  Processes'
  <1> USE DEF IInv
  <1>1. UNCHANGED os /\ killed \subseteq killed'
    BY DEF TimeoutTerm, TimeoutKill, TimeoutPidTimeout, KillDaemon
  <1>2. state' # "WAIT_FOR_PID_FILE"
    BY DEF TimeoutTerm, TimeoutKill, TimeoutPidTimeout, Mark, mark
  <1>3. CASE procs = <<>>
    <2>1. procs' = procs /\ killed' = killed
      BY <1>3 DEF TimeoutTerm, TimeoutKill, TimeoutPidTimeout, KillDaemon
    <2> QED BY <1>1, <1>2, <2>1, SameProcesses
  <1>4. CASE procs # <<>>
    <2>1. /\ procs \in Seq(Pids) /\ Len(procs) \in Nat /\ Len(procs) >= 1
          /\ Head(procs) = procs[1] /\ procs[1] \in Pids
      BY <1>4 DEF TypeOK
    <2>2. procs' = procs \/ procs' = Tail(procs) \/ (Len(procs) = 1 /\ procs' = <<>>)
      BY <1>4, <2>1 DEF TimeoutTerm, TimeoutKill, TimeoutPidTimeout, KillDaemon, OneWhileWaiting
    <2>3. procs' = procs \/ os[procs[1]] = "none" \/ procs[1] \in killed'
      BY <1>4, <2>1 DEF TimeoutTerm, TimeoutKill, TimeoutPidTimeout, KillDaemon
    <2>4. \A q \in Pids : q = procs[1] => procs' = procs \/ ~Alive(q)'
      BY <1>1, <2>1, <2>3 DEF Alive, Running
    <2>5. \A q \in Pids : Alive(q)' => Alive(q)
      BY <1>1 DEF Alive
    <2>6. \A i \in 2..Len(procs) : procs' = procs \/ (i - 1 \in 1..Len(procs') /\ procs'[i - 1] = procs[i])
      BY <2>1, <2>2
    <2>7. NeverTwo'
      BY <2>5 DEF NeverTwo
    <2>8. NeverForgotten'
      <3> SUFFICES ASSUME ~FORKS, NEW q \in Pids, Alive(q)'
                   PROVE  \E i \in 1..Len(procs') : procs'[i] = q
        BY DEF NeverForgotten
      <3>1. PICK i \in 1..Len(procs) : procs[i] = q
        BY <2>5 DEF NeverForgotten
      <3>2. CASE procs' = procs
        BY <3>1, <3>2
      <3>3. CASE procs' # procs
        <4>1. i # 1
          BY <2>4, <3>1, <3>3
        <4>2. i \in 2..Len(procs)
          BY <2>1, <4>1
        <4> QED BY <2>6, <3>1, <3>3, <4>2
      <3> QED BY <3>2, <3>3
    <2>9. ListExists'
      <3>1. \A i \in 1..Len(procs') : \E j \in 1..Len(procs) : procs'[i] = procs[j]
        BY <2>1, <2>2
      <3>2. Len(procs') <= Len(procs)
        BY <2>1, <2>2
      <3>3. Len(procs') \in Nat
        BY <2>1, <2>2
      <3> QED BY <1>1, <2>1, <3>1, <3>2, <3>3 DEF ListExists
    <2> QED BY <1>2, <2>7, <2>8, <2>9 DEF Processes, OneWhileWaiting
  <1> QED BY <1>3, <1>4

\* Reaping (initng_signal_handle_sigchild): only processes of the pid that is gone
\* are taken off the list.
LEMMA ReapStep ==
    ASSUME IInv, NEW p \in Pids, Reap(p)
    PROVE  Processes'
  <1> USE DEF IInv
  <1>1. /\ os' \in [Pids -> ProcessStates] /\ os'[p] = "none"
        /\ \A q \in Pids \ {p} : os'[q] = os[q]
    BY DEF Reap, TypeOK, ProcessStates
  <1>2. \A q \in Pids : Alive(q)' => q # p /\ Alive(q)
    BY <1>1 DEF Alive, Reap, Running
  <1>3. NeverTwo'
    BY <1>2 DEF NeverTwo
  <1>4. CASE UNCHANGED procs
    <2>1. NeverForgotten'
      BY <1>2, <1>4 DEF NeverForgotten
    <2>2. ListExists'
      <3>1. ASSUME ~PIDOF, ~FORKS, NEW i \in 1..Len(procs)
            PROVE  procs[i] # p
        <4>1. Len(procs) = 1 /\ i = 1
          <5>1. Len(procs) \in Nat
            BY DEF TypeOK
          <5>2. Len(procs) <= 1
            BY <3>1 DEF ListExists
          <5>3. \A n \in Nat : n <= 1 => \A j \in 1..n : n = 1 /\ j = 1
            OBVIOUS
          <5> QED BY <5>1, <5>2, <5>3
        <4>2. (\E j \in 1..Len(procs) : procs[j] = p) => Len(procs') = Len(procs) - 1
          BY <3>1, FreedKeeps, <1>4 DEF Reap, HandleKilledDaemon
        <4> QED BY <1>4, <3>1, <4>1, <4>2
      <3>2. \A i \in 1..Len(procs) : procs[i] \in Pids
        BY DEF TypeOK
      <3> QED BY <1>1, <1>4, <3>1, <3>2 DEF ListExists
    <2>3. OneWhileWaiting'
      BY <1>4 DEF OneWhileWaiting, Reap, HandleKilledDaemon, GotPid, KilledState, Mark, mark
    <2> QED BY <1>3, <2>1, <2>2, <2>3 DEF Processes
  <1>5. CASE FORKS /\ \E q \in Pids : GotPid(q)
    <2>1. Len(procs') = Len(procs)
      BY <1>5, GotPidType
    <2>2. state' # "WAIT_FOR_PID_FILE"
      BY <1>5 DEF GotPid, Mark, mark
    <2> QED BY <1>3, <1>5, <2>1, <2>2 DEF Processes, NeverForgotten, ListExists, OneWhileWaiting
  <1>6. CASE /\ \E i \in 1..Len(procs) : procs[i] = p
             /\ procs' = Freed(p)
             /\ state' # "WAIT_FOR_PID_FILE" \/ UNCHANGED state
    <2>1. /\ Len(procs') = Len(procs) - 1
          /\ \A q \in Pids \ {p} : (\E i \in 1..Len(procs) : procs[i] = q)
                    => \E i \in 1..Len(procs') : procs'[i] = q
      BY <1>6, FreedKeeps
    <2>2. Len(procs) \in Nat
      BY DEF TypeOK
    <2>3. NeverForgotten'
      BY <1>2, <2>1 DEF NeverForgotten
    <2>4. ListExists' /\ OneWhileWaiting'
      BY <1>6, <2>1, <2>2 DEF ListExists, OneWhileWaiting
    <2> QED BY <1>3, <2>3, <2>4 DEF Processes
  <1>7. \/ UNCHANGED procs
        \/ FORKS /\ \E q \in Pids : GotPid(q)
        \/ /\ \E i \in 1..Len(procs) : procs[i] = p
           /\ procs' = Freed(p)
           /\ state' # "WAIT_FOR_PID_FILE" \/ UNCHANGED state
    BY DEF Reap, HandleKilledDaemon, KilledState, Mark, mark
  <1> QED BY <1>4, <1>5, <1>6, <1>7

\* Every step keeps what is said of the processes.
LEMMA ProcessesStep ==
    ASSUME IInv, Next
    PROVE  Processes'
  <1>1. CASE Start \/ Stop \/ StopAll \/ WaitingForStartDep \/ WaitingForStopDep \/ TimeoutWaitRespTout
    BY <1>1, SameProcesses DEF Start, Stop, StopAll, StopService, WaitingForStartDep, WaitingForStopDep,
        TimeoutWaitRespTout, Mark, mark, system
  <1>2. CASE InitStartMarked \/ InitStopMarked \/ InitStopDepsMet \/ InitOther
    BY <1>2, SameProcesses DEF InitStartMarked, InitStopMarked, InitStopDepsMet, InitOther, InitCallback,
        Mark, mark, system
  <1>3. CASE TimeoutWaitForPidFile
    <2>1. UNCHANGED <<os, killed>>
      BY <1>3 DEF TimeoutWaitForPidFile, system
    <2>2. CASE UNCHANGED <<mark, procs>>
      BY <2>1, <2>2, SameProcesses DEF mark
    <2>3. CASE \E p \in Pids : GotPid(p)
      <3>1. Len(procs') = Len(procs) /\ (~FORKS => procs' = procs)
        BY <2>3, GotPidType DEF IInv
      <3>2. state' # "WAIT_FOR_PID_FILE"
        BY <1>3, <2>3 DEF GotPid, Mark, mark
      <3> QED BY <2>1, <3>1, <3>2 DEF IInv, Processes, NeverTwo, NeverForgotten, ListExists, OneWhileWaiting, Alive
    <2> QED BY <1>3, <2>2, <2>3 DEF TimeoutWaitForPidFile
  <1>4. CASE TimePasses \/ \E p \in Pids : WritePidFile(p)
    BY <1>4, SameProcesses DEF TimePasses, WritePidFile, mark, system
  <1>5. ASSUME NEW p \in Pids, Exit(p)
        PROVE  Processes'
    <2>1. /\ \A q \in Pids : os'[q] = IF q = p THEN "zombie" ELSE os[q]
          /\ UNCHANGED <<state, procs, killed>>
      BY <1>5 DEF Exit, IInv, TypeOK, mark
    <2>2. \A q \in Pids : Alive(q)' => Alive(q)
      BY <2>1 DEF Alive, Running
    <2>3. \A i \in 1..Len(procs) : procs[i] \in Pids
      BY DEF IInv, TypeOK
    <2> QED BY <2>1, <2>2, <2>3 DEF IInv, Processes, NeverTwo, NeverForgotten, ListExists, OneWhileWaiting
  <1>6. ASSUME NEW p \in Pids, NEW q \in Pids, Fork(p, q)
        PROVE  Processes'
    BY <1>6 DEF Fork, mark, IInv, Processes, NeverTwo, NeverForgotten, ListExists, OneWhileWaiting
  <1> QED BY <1>1, <1>2, <1>3, <1>4, <1>5, <1>6, LaunchStep, KillStep, ReapStep DEF Next, Handle, RunAlarm

\* The invariant of the daemon's processes holds for every set of pids and every
\* service file.
THEOREM Invariance == Spec => []IInv
  <1>1. Init => IInv
    <2> SUFFICES ASSUME Init PROVE IInv
      OBVIOUS
    <2>1. TypeOK
      <3>1. state \in DOMAIN Is /\ procs \in Seq(Pids)
        BY DEF Init, Is
      <3>2. os \in [Pids -> ProcessStates]
        BY DEF Init, ProcessStates
      <3>3. queued \in BOOLEAN /\ alarm \in BOOLEAN /\ recent \in BOOLEAN
        BY DEF Init
      <3> QED BY <3>1, <3>2, <3>3 DEF Init, TypeOK
    <2>2. Len(procs) = 0 /\ state = "STOPPED" /\ \A p \in Pids : os[p] = "none"
      BY DEF Init
    <2>3. \A p \in Pids : ~Alive(p)
      BY <2>2 DEF Alive, Running
    <2> QED BY <2>1, <2>2, <2>3 DEF IInv, NeverTwo, NeverForgotten, ListExists, OneWhileWaiting
  <1>2. IInv /\ [Next]_vars => IInv'
    <2>1. IInv /\ Next => IInv'
      BY TypeStep, ProcessesStep DEF IInv, Processes
    <2>2. IInv /\ UNCHANGED vars => IInv'
      BY DEF vars, IInv, TypeOK, NeverTwo, NeverForgotten, ListExists, OneWhileWaiting, Alive
    <2> QED BY <2>1, <2>2
  <1> QED BY <1>1, <1>2, PTL DEF Spec

\* initng_execute_launch never starts a second daemon beside a first.
THEOREM NeverTwoDaemons == Spec => []NeverTwo
BY Invariance, PTL DEF IInv

\* A running daemon that does not fork stays in its service's process list.
THEOREM DaemonNeverForgotten == Spec => []NeverForgotten
BY Invariance, PTL DEF IInv

\* Without PIDOF the process list holds at most one process, and one that exists.
THEOREM ProcessListExists == Spec => []ListExists
BY Invariance, PTL DEF IInv
=============================================================================
