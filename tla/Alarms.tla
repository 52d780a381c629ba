------------------------------- MODULE Alarms -------------------------------
(***************************************************************************)
(* The clock of the main loop: g.now, the alarms of the services, the time *)
(* g.next_alarm of the closest one, the compensation for a clock that was  *)
(* set, and how long initng_io_module_poll may sleep.  Seconds pass only   *)
(* while it sleeps; the rest of a round takes none.                        *)
(***************************************************************************)
EXTENDS Integers, FiniteSets, FiniteSetsExt

CONSTANTS
    Services,
    HOUR,       \* a jump taken for a clock that was set (3600)
    TIMEOUT,    \* longest sleep (60000)
    Delays,     \* seconds given to initng_handler_set_alarm
    Forward, Backward,  \* by how much the clock may be set
    START, END, \* bounds: the time at boot, the time the model stops
    MAX_SETS    \* bound: times the clock is set

\* The clock counts seconds since 1970 and delays are not negative.
ASSUME AlarmsAssumption ==
    /\ START \in Nat \ {0} /\ END \in Nat /\ MAX_SETS \in Nat
    /\ HOUR \in Nat /\ TIMEOUT \in Nat
    /\ Delays \subseteq Nat /\ Forward \subseteq Nat /\ Backward \subseteq Nat

VARIABLES
    clock,      \* what gettimeofday() says
    now, last,  \* g.now, and main's copy of the round before
    alarm,      \* the alarm of every service, 0 for none
    next_alarm, \* g.next_alarm
    at,         \* "round", "alarms", "work", "asleep"
    left,       \* seconds of the running sleep
    walk,       \* services the walk of run_alarm has still to visit
    armed,      \* services whose alarm was set, and neither reset nor called
    sets, back  \* how often the clock was set, and whether ever back

vars == <<clock, now, last, alarm, next_alarm, at, left, walk, armed, sets, back>>

Init ==
    /\ clock = START /\ now = START /\ last = START
    /\ alarm = [s \in Services |-> 0] /\ next_alarm = 0
    /\ at = "work" /\ left = 0 /\ walk = {}
    /\ armed = {} /\ sets = 0 /\ back = FALSE

-----------------------------------------------------------------------------
\* The head of a round: the time, and when it has jumped, the alarms are moved with
\* it, those of services that have none included.
Round ==
    /\ at = "round"
    /\ now' = clock
    /\ last' = clock
    /\ LET skew == clock - last
       IN alarm' = IF skew >= HOUR \/ skew < 0 THEN [s \in Services |-> alarm[s] + skew] ELSE alarm
    /\ IF next_alarm # 0 /\ next_alarm <= clock
         THEN at' = "alarms" /\ walk' = Services /\ next_alarm' = 0
         ELSE at' = "work" /\ UNCHANGED <<walk, next_alarm>>
    /\ UNCHANGED <<clock, left, armed, sets, back>>

\* A wrong version: only the first alarm set is remembered.
SoonFirst(a) == IF next_alarm = 0 THEN a ELSE next_alarm

\* The closer of g.next_alarm and a new one.
Soon(a) == IF next_alarm = 0 \/ a < next_alarm THEN a ELSE next_alarm

\* initng_handler_set_alarm, from the init callback of a state.
SetAlarm(s, d) ==
    /\ at = "work"
    /\ alarm' = [alarm EXCEPT ![s] = now + d]
    /\ next_alarm' = Soon(now + d)
    /\ armed' = armed \cup {s}
    /\ UNCHANGED <<clock, now, last, at, left, walk, sets, back>>

\* initng_common_mark_service gives a service a new state and no alarm.
Mark(s) ==
    /\ at = "work" /\ s \in armed
    /\ alarm' = [alarm EXCEPT ![s] = 0]
    /\ armed' = armed \ {s}
    /\ UNCHANGED <<clock, now, last, next_alarm, at, left, walk, sets, back>>

\* run_alarm passes a service whose alarm is not set or has not come.
Skip(s) ==
    /\ at = "alarms" /\ s \in walk
    /\ alarm[s] = 0 \/ now < alarm[s]
    /\ next_alarm' = IF alarm[s] = 0 THEN next_alarm ELSE Soon(alarm[s])
    /\ walk' = walk \ {s}
    /\ UNCHANGED <<clock, now, last, alarm, at, left, armed, sets, back>>

\* The alarm has gone: it is reset and the state's callback called, which may mark
\* the service and may set its next alarm.
Rings(s, d) ==
    /\ at = "alarms" /\ s \in walk
    /\ alarm[s] # 0 /\ now >= alarm[s]
    /\ IF d = 0
         THEN /\ alarm' = [alarm EXCEPT ![s] = 0]
              /\ armed' = armed \ {s}
              /\ UNCHANGED next_alarm
         ELSE /\ alarm' = [alarm EXCEPT ![s] = now + d]
              /\ armed' = armed \cup {s}
              /\ next_alarm' = Soon(now + d)
    /\ walk' = walk \ {s}
    /\ UNCHANGED <<clock, now, last, at, left, sets, back>>

AlarmsDone ==
    /\ at = "alarms" /\ walk = {}
    /\ at' = "work"
    /\ UNCHANGED <<clock, now, last, alarm, next_alarm, left, walk, armed, sets, back>>

\* The longest time the poll may take.
Closest == IF next_alarm > now THEN Min({TIMEOUT, next_alarm - now}) ELSE TIMEOUT

\* The end of a round: sleep, or go on at once because a service changed.
Sleep ==
    /\ at = "work"
    /\ at' = "asleep"
    /\ left' = Closest
    /\ UNCHANGED <<clock, now, last, alarm, next_alarm, walk, armed, sets, back>>

Second ==
    /\ at = "asleep" /\ left > 0 /\ clock < END
    /\ clock' = clock + 1
    /\ left' = left - 1
    /\ UNCHANGED <<now, last, alarm, next_alarm, at, walk, armed, sets, back>>

\* The sleep is over, or a descriptor or a signal ends it.
Wake ==
    /\ at = "asleep"
    /\ at' = "round"
    /\ left' = 0
    /\ UNCHANGED <<clock, now, last, alarm, next_alarm, walk, armed, sets, back>>

\* Somebody sets the clock.
SetClock(d) ==
    /\ at = "asleep" /\ sets < MAX_SETS
    /\ clock + d \in 1..END
    /\ clock' = clock + d
    /\ sets' = sets + 1
    /\ back' = (back \/ d < 0)
    /\ UNCHANGED <<now, last, alarm, next_alarm, at, left, walk, armed>>

Next ==
    \/ Round \/ AlarmsDone \/ Sleep \/ Second \/ Wake
    \/ \E s \in Services : Mark(s) \/ Skip(s)
    \/ \E s \in Services, d \in Delays : SetAlarm(s, d) \/ Rings(s, d)
    \/ \E s \in Services : Rings(s, 0)
    \/ \E d \in Forward \cup {0 - b : b \in Backward} : SetClock(d)

Spec == Init /\ [][Next]_vars

-----------------------------------------------------------------------------
\* Every variable keeps its type.
AlarmsTypeOK ==
    /\ clock \in Int /\ now \in Int /\ last \in Int /\ next_alarm \in Int /\ left \in Int /\ sets \in Nat
    /\ alarm \in [Services -> Int]
    /\ at \in {"round", "alarms", "work", "asleep"}
    /\ walk \subseteq Services /\ armed \subseteq Services
    /\ back \in BOOLEAN

\* No alarm is slept through: when the loop goes to sleep, g.next_alarm is set and
\* not later than any alarm a service waits for, whatever alarms were set, reset
\* and called before and however the clock was set forward.  (Set back, the alarms
\* are moved and g.next_alarm is not.)
NoAlarmMissed ==
    at = "asleep" /\ ~back => \A s \in armed : next_alarm # 0 /\ next_alarm <= alarm[s]

\* What it rests on: unless the clock was set back, time does not run backwards from
\* one round to the next, an alarm that is set is not 0, and g.next_alarm covers
\* the alarms of every service, but in the walk of run_alarm only of those the walk
\* has passed.
Covered ==
    ~back =>
        /\ 0 < now /\ now <= clock /\ last = now
        /\ \A s \in armed : 0 < alarm[s]
        /\ \A s \in (IF at = "alarms" THEN armed \ walk ELSE armed) :
               next_alarm # 0 /\ next_alarm <= alarm[s]

\* The inductive invariant of the alarms.
AlarmsIInv == AlarmsTypeOK /\ Covered
=============================================================================
