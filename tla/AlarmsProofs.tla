---------------------------- MODULE AlarmsProofs ----------------------------
(***************************************************************************)
(* No alarm is slept through, for every set of services, all delays and    *)
(* every way in which the clock is set forward.                            *)
(***************************************************************************)
EXTENDS Alarms, TLAPS

\* The closer of two times is one of them and later than neither.
LEMMA SoonIs ==
    ASSUME next_alarm \in Int, NEW a \in Int, a # 0
    PROVE  /\ Soon(a) \in Int /\ Soon(a) # 0 /\ Soon(a) <= a
           /\ next_alarm # 0 => Soon(a) <= next_alarm
BY DEF Soon

\* At boot no alarm is set.
LEMMA InitCovered ==
    ASSUME Init PROVE AlarmsIInv
  <1>1. /\ clock \in Int /\ now \in Int /\ last \in Int /\ next_alarm \in Int /\ left \in Int /\ sets \in Nat
        /\ 0 < now /\ now <= clock /\ last = now
    BY AlarmsAssumption DEF Init
  <1>2. alarm \in [Services -> Int]
    BY DEF Init
  <1>4. back \in BOOLEAN
    BY DEF Init
  <1>3. armed = {} /\ walk = {} /\ at = "work"
    BY DEF Init
  <1> QED BY <1>1, <1>2, <1>3, <1>4 DEF AlarmsIInv, AlarmsTypeOK, Covered

\* The head of a round moves the alarms forward with the clock, and never makes one
\* of them come sooner; g.next_alarm is left as it is or begun again.
LEMMA RoundCovered ==
    ASSUME AlarmsIInv, Round PROVE AlarmsIInv'
  <1> DEFINE skew == clock - last
  <1>1. skew \in Int
    BY DEF AlarmsIInv, AlarmsTypeOK
  <1>2. \A s \in Services : alarm'[s] = alarm[s] \/ ((skew >= HOUR \/ skew < 0) /\ alarm'[s] = alarm[s] + skew)
    BY DEF Round, AlarmsIInv, AlarmsTypeOK
  <1>3. alarm' \in [Services -> Int]
    BY <1>1 DEF Round, AlarmsIInv, AlarmsTypeOK
  <1>4. AlarmsTypeOK'
    BY <1>3 DEF Round, AlarmsIInv, AlarmsTypeOK
  <1>5. ASSUME ~back PROVE \A s \in Services : alarm'[s] >= alarm[s]
    BY <1>1, <1>2, <1>5 DEF AlarmsIInv, AlarmsTypeOK, Covered
  <1>6. Covered'
    <2> SUFFICES ASSUME ~back' PROVE Covered'
      BY DEF Covered
    <2>1. ~back /\ armed' = armed /\ armed \subseteq Services /\ now' = clock /\ last' = clock /\ clock' = clock
      BY DEF Round, AlarmsIInv, AlarmsTypeOK
    <2>2. \A s \in armed : alarm[s] \in Int /\ alarm'[s] \in Int /\ alarm'[s] >= alarm[s]
      BY <1>3, <1>5, <2>1 DEF AlarmsIInv, AlarmsTypeOK
    <2>3. 0 < now' /\ now' <= clock' /\ last' = now' /\ \A s \in armed' : 0 < alarm'[s]
      BY <2>1, <2>2 DEF AlarmsIInv, AlarmsTypeOK, Covered
    <2>4. CASE at' = "alarms"
      <3>1. armed' \ walk' = {}
        BY <2>1, <2>4 DEF Round
      <3> QED BY <2>3, <2>4, <3>1 DEF Covered
    <2>5. CASE at' # "alarms"
      <3>1. next_alarm' = next_alarm /\ next_alarm \in Int
        BY <2>5 DEF Round, AlarmsIInv, AlarmsTypeOK
      <3>2. \A s \in armed : next_alarm # 0 /\ next_alarm <= alarm[s]
        BY <2>1 DEF Round, AlarmsIInv, Covered
      <3>3. \A s \in armed' : next_alarm' # 0 /\ next_alarm' <= alarm'[s]
        BY <2>1, <2>2, <3>1, <3>2
      <3> QED BY <2>3, <2>5, <3>3 DEF Covered
    <2> QED BY <2>4, <2>5
  <1> QED BY <1>4, <1>6 DEF AlarmsIInv

\* Setting an alarm (initng_handler_set_alarm), in a state's init callback or by the
\* callback of an alarm that rings: the service is covered, and who was covered
\* before still is.
LEMMA SetCovered ==
    ASSUME AlarmsIInv, NEW s \in Services, NEW d \in Delays \cup {0}, SetAlarm(s, d) \/ (d # 0 /\ Rings(s, d))
    PROVE  AlarmsIInv'
  <1>1. /\ alarm' = [alarm EXCEPT ![s] = now + d] /\ next_alarm' = Soon(now + d)
        /\ armed' = armed \cup {s} /\ at' = at /\ UNCHANGED <<clock, now, last, left, sets, back>>
    BY DEF SetAlarm, Rings
  <1>2. walk' \subseteq walk /\ walk \ walk' \subseteq {s} /\ (at = "alarms" \/ walk' = walk)
    BY DEF SetAlarm, Rings
  <1>3. now + d \in Int /\ d \in Nat
    BY AlarmsAssumption DEF AlarmsIInv, AlarmsTypeOK
  <1>4. Soon(now + d) \in Int
    BY <1>3 DEF Soon, AlarmsIInv, AlarmsTypeOK
  <1>5. AlarmsTypeOK'
    BY <1>1, <1>2, <1>3, <1>4 DEF AlarmsIInv, AlarmsTypeOK
  <1>6. ASSUME ~back PROVE Covered'
    <2>1. now + d # 0 /\ 0 < now + d
      BY <1>3, <1>6 DEF AlarmsIInv, AlarmsTypeOK, Covered
    <2>2. /\ Soon(now + d) # 0 /\ Soon(now + d) <= now + d
          /\ next_alarm # 0 => Soon(now + d) <= next_alarm
      BY <1>3, <2>1, SoonIs DEF AlarmsIInv, AlarmsTypeOK
    <2>3. \A t \in Services : alarm[t] \in Int /\ alarm'[t] = IF t = s THEN now + d ELSE alarm[t]
      BY <1>1 DEF AlarmsIInv, AlarmsTypeOK
    <2>4. \A t \in armed' : 0 < alarm'[t]
      BY <1>1, <1>6, <2>1, <2>3 DEF AlarmsIInv, AlarmsTypeOK, Covered
    <2>5. ASSUME NEW t \in (IF at' = "alarms" THEN armed' \ walk' ELSE armed')
          PROVE  next_alarm' # 0 /\ next_alarm' <= alarm'[t]
      <3>1. CASE t = s
        BY <1>1, <2>2, <2>3, <3>1
      <3>2. CASE t # s
        <4>1. t \in (IF at = "alarms" THEN armed \ walk ELSE armed) /\ t \in Services
          BY <1>1, <1>2, <2>5, <3>2 DEF AlarmsIInv, AlarmsTypeOK
        <4>2. next_alarm # 0 /\ next_alarm <= alarm[t]
          BY <1>6, <4>1 DEF AlarmsIInv, Covered
        <4>3. next_alarm \in Int /\ alarm'[t] = alarm[t] /\ alarm[t] \in Int
          BY <2>3, <3>2, <4>1 DEF AlarmsIInv, AlarmsTypeOK
        <4> QED BY <1>1, <1>4, <2>2, <4>2, <4>3
      <3> QED BY <3>1, <3>2
    <2>6. 0 < now' /\ now' <= clock' /\ last' = now'
      BY <1>1, <1>6 DEF AlarmsIInv, Covered
    <2> QED BY <2>4, <2>5, <2>6 DEF Covered
  <1>7. back => Covered'
    BY <1>1 DEF Covered
  <1> QED BY <1>5, <1>6, <1>7 DEF AlarmsIInv

\* A service that loses its alarm (mark_service, or an alarm that rings and is not
\* set again) leaves the others covered.
LEMMA ResetCovered ==
    ASSUME AlarmsIInv, NEW s \in Services, Mark(s) \/ Rings(s, 0)
    PROVE  AlarmsIInv'
  <1>1. /\ alarm' = [alarm EXCEPT ![s] = 0] /\ armed' = armed \ {s} /\ at' = at
        /\ UNCHANGED <<clock, now, last, next_alarm, left, sets, back>>
    BY DEF Mark, Rings
  <1>2. walk' \subseteq walk /\ walk \ walk' \subseteq {s} /\ (at = "alarms" \/ walk' = walk)
    BY DEF Mark, Rings
  <1>3. AlarmsTypeOK'
    BY <1>1, <1>2 DEF AlarmsIInv, AlarmsTypeOK
  <1>4. \A t \in armed' : alarm'[t] = alarm[t]
    BY <1>1 DEF AlarmsIInv, AlarmsTypeOK
  <1>5. (IF at' = "alarms" THEN armed' \ walk' ELSE armed') \subseteq (IF at = "alarms" THEN armed \ walk ELSE armed)
    BY <1>1, <1>2
  <1>6. Covered'
    BY <1>1, <1>4, <1>5 DEF AlarmsIInv, Covered
  <1> QED BY <1>3, <1>6 DEF AlarmsIInv

\* The walk of run_alarm covers every service it passes.
LEMMA SkipCovered ==
    ASSUME AlarmsIInv, NEW s \in Services, Skip(s)
    PROVE  AlarmsIInv'
  <1>1. /\ at = "alarms" /\ at' = at /\ walk' = walk \ {s}
        /\ next_alarm' = IF alarm[s] = 0 THEN next_alarm ELSE Soon(alarm[s])
        /\ UNCHANGED <<clock, now, last, alarm, left, armed, sets, back>>
    BY DEF Skip
  <1>2. alarm[s] \in Int /\ next_alarm \in Int
    BY DEF AlarmsIInv, AlarmsTypeOK
  <1>3. alarm[s] # 0 => /\ next_alarm' \in Int /\ next_alarm' # 0 /\ next_alarm' <= alarm[s]
                        /\ next_alarm # 0 => next_alarm' <= next_alarm
    BY <1>1, <1>2, SoonIs
  <1>4. next_alarm' \in Int
    BY <1>1, <1>2, <1>3
  <1>5. AlarmsTypeOK'
    BY <1>1, <1>4 DEF AlarmsIInv, AlarmsTypeOK
  <1>6. ASSUME ~back, NEW t \in armed' \ walk' PROVE next_alarm' # 0 /\ next_alarm' <= alarm'[t]
    <2>1. t \in armed /\ alarm'[t] = alarm[t] /\ alarm[t] \in Int /\ alarm[t] # 0
      BY <1>1, <1>6 DEF AlarmsIInv, AlarmsTypeOK, Covered
    <2>2. CASE t = s
      BY <1>3, <2>1, <2>2
    <2>3. CASE t # s
      <3>1. next_alarm # 0 /\ next_alarm <= alarm[t]
        BY <1>1, <1>6, <2>1, <2>3 DEF AlarmsIInv, Covered
      <3> QED BY <1>1, <1>2, <1>3, <1>4, <2>1, <3>1
    <2> QED BY <2>2, <2>3
  <1>7. Covered'
    BY <1>1, <1>6 DEF AlarmsIInv, Covered
  <1> QED BY <1>5, <1>7 DEF AlarmsIInv

\* Seconds pass and somebody sets the clock, while initng sleeps.
LEMMA ClockCovered ==
    ASSUME AlarmsIInv, Second \/ \E d \in Forward \cup {0 - b : b \in Backward} : SetClock(d)
    PROVE  AlarmsIInv'
  <1>1. PICK d \in Int : /\ clock' = clock + d /\ (back' \/ (~back /\ d >= 0)) /\ back' \in BOOLEAN
                         /\ left' \in Int /\ sets' \in Nat
                         /\ UNCHANGED <<now, last, alarm, next_alarm, at, walk, armed>>
    <2>1. CASE Second
      BY <2>1 DEF Second, AlarmsIInv, AlarmsTypeOK
    <2>2. ASSUME NEW d \in Forward \cup {0 - b : b \in Backward}, SetClock(d)
          PROVE  /\ d \in Int /\ clock' = clock + d /\ (back' \/ (~back /\ d >= 0)) /\ back' \in BOOLEAN
                 /\ left' \in Int /\ sets' \in Nat
                 /\ UNCHANGED <<now, last, alarm, next_alarm, at, walk, armed>>
      <3>1. d \in Int
        <4>1. \A b \in Backward : 0 - b \in Int
          BY AlarmsAssumption
        <4>2. \A f \in Forward : f \in Int
          BY AlarmsAssumption
        <4> QED BY <4>1, <4>2
      <3>2. back' = (back \/ d < 0)
        BY <2>2 DEF SetClock
      <3>3. back' \/ (~back /\ d >= 0)
        <4>1. d < 0 \/ d >= 0
          BY <3>1
        <4>2. back' \/ (~back /\ ~(d < 0))
          BY <3>2, Zenon
        <4> QED BY <4>1, <4>2
      <3>4. back' \in BOOLEAN
        BY <3>2
      <3> QED BY <2>2, <3>1, <3>3, <3>4 DEF SetClock, AlarmsIInv, AlarmsTypeOK
    <2> QED BY <2>1, <2>2
  <1>2. AlarmsTypeOK'
    BY <1>1 DEF AlarmsIInv, AlarmsTypeOK
  <1>3. ~back' => ~back /\ now' <= clock'
    BY <1>1 DEF AlarmsIInv, AlarmsTypeOK, Covered
  <1>4. Covered'
    BY <1>1, <1>3 DEF AlarmsIInv, Covered
  <1> QED BY <1>2, <1>4 DEF AlarmsIInv

\* The rest of a round: the end of the walk, and the sleep.
LEMMA RestCovered ==
    ASSUME AlarmsIInv, AlarmsDone \/ Sleep \/ Wake
    PROVE  AlarmsIInv'
  <1>1. left' \in Int
    <2>1. CASE Sleep
      <3>1. next_alarm \in Int /\ now \in Int /\ TIMEOUT \in Int
        BY AlarmsAssumption DEF AlarmsIInv, AlarmsTypeOK
      <3>2. next_alarm - now \in Int /\ Min({TIMEOUT, next_alarm - now}) \in {TIMEOUT, next_alarm - now}
        <4>1. \E x \in {TIMEOUT, next_alarm - now} : \A y \in {TIMEOUT, next_alarm - now} : x <= y
          BY <3>1
        <4> QED BY <3>1, <4>1 DEF Min
      <3>3. Closest \in Int
        BY <3>1, <3>2 DEF Closest
      <3> QED BY <2>1, <3>3 DEF Sleep
    <2>2. CASE AlarmsDone \/ Wake
      BY <2>2 DEF AlarmsDone, Wake, AlarmsIInv, AlarmsTypeOK
    <2> QED BY <2>1, <2>2
  <1>2. AlarmsTypeOK'
    BY <1>1 DEF AlarmsDone, Sleep, Wake, AlarmsIInv, AlarmsTypeOK
  <1>3. Covered'
    BY DEF AlarmsDone, Sleep, Wake, AlarmsIInv, Covered
  <1> QED BY <1>2, <1>3 DEF AlarmsIInv

\* When initng_io_module_poll sleeps, no service waits for an alarm that
\* g.next_alarm does not announce.
THEOREM NoAlarmIsMissed == Spec => []NoAlarmMissed
  <1>1. Init => AlarmsIInv
    BY InitCovered
  <1>2. AlarmsIInv /\ [Next]_vars => AlarmsIInv'
    <2>1. AlarmsIInv /\ Next => AlarmsIInv'
      <3> SUFFICES ASSUME AlarmsIInv, Next PROVE AlarmsIInv'
        OBVIOUS
      <3>1. ASSUME NEW s \in Services, NEW d \in Delays, Rings(s, d) PROVE AlarmsIInv'
        <4>1. CASE d = 0
          BY <3>1, <4>1, ResetCovered
        <4>2. CASE d # 0
          BY <3>1, <4>2, SetCovered
        <4> QED BY <4>1, <4>2
      <3>2. ASSUME NEW s \in Services, NEW d \in Delays, SetAlarm(s, d) PROVE AlarmsIInv'
        BY <3>2, SetCovered
      <3> QED BY <3>1, <3>2, RoundCovered, ResetCovered, SkipCovered, ClockCovered, RestCovered DEF Next
    <2>2. AlarmsIInv /\ UNCHANGED vars => AlarmsIInv'
      BY DEF vars, AlarmsIInv, AlarmsTypeOK, Covered
    <2> QED BY <2>1, <2>2
  <1>3. AlarmsIInv => NoAlarmMissed
    BY DEF AlarmsIInv, Covered, NoAlarmMissed
  <1> QED BY <1>1, <1>2, <1>3, PTL DEF Spec
=============================================================================
