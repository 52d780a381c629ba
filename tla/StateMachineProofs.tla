------------------------- MODULE StateMachineProofs -------------------------
(***************************************************************************)
(* The safety properties of the state engine, proved for every set of      *)
(* services and states.  The conjunction of the invariants is inductive as *)
(* it stands: NoLostChange needs ListWellFormed (a list entry is removed   *)
(* only for the service it names) and PendingOnlyWhileHandled needs        *)
(* HandledIsRegistered (clean_down cannot free a locked service).          *)
(***************************************************************************)
EXTENDS StateMachine, TLAPS

IInv ==
    /\ TypeOK
    /\ NoLostChange
    /\ PendingOnlyWhileHandled
    /\ ListWellFormed
    /\ HandledIsRegistered

\* Linking a service keeps the list well formed, keeps every entry, and leaves
\* the service linked.
LEMMA LinkLemma ==
    ASSUME NEW s \in Services, queue \in Seq(Services),
           \A i, j \in 1..Len(queue) : queue[i] = queue[j] => i = j,
           queue' = IF Queued(s) THEN queue ELSE Append(queue, s)
    PROVE  /\ queue' \in Seq(Services)
           /\ queue' # <<>>
           /\ \A i, j \in 1..Len(queue') : queue'[i] = queue'[j] => i = j
           /\ \A t \in Services : Queued(t)' <=> Queued(t) \/ t = s
<1>1. CASE Queued(s)
  BY <1>1 DEF Queued
<1>2. CASE ~Queued(s)
  <2>1. queue' = Append(queue, s) BY <1>2
  <2>2. Len(queue') = Len(queue) + 1 /\ Len(queue) \in Nat BY <2>1
  <2>3. \A i \in 1..Len(queue) : queue'[i] = queue[i] BY <2>1
  <2>4. queue'[Len(queue) + 1] = s BY <2>1
  <2>5. queue' \in Seq(Services) /\ queue' # <<>> BY <2>1, <2>2
  <2>6. \A i, j \in 1..Len(queue') : queue'[i] = queue'[j] => i = j
    BY <1>2, <2>2, <2>3, <2>4 DEF Queued
  <2>7. \A t \in Services : Queued(t)' <=> Queued(t) \/ t = s
    BY <2>2, <2>3, <2>4 DEF Queued
  <2>. QED BY <2>5, <2>6, <2>7
<1>. QED BY <1>1, <1>2

\* Taking the oldest entry keeps the others.
LEMMA TakeLemma ==
    ASSUME queue \in Seq(Services), queue # <<>>,
           \A i, j \in 1..Len(queue) : queue[i] = queue[j] => i = j,
           queue' = Tail(queue)
    PROVE  /\ queue' \in Seq(Services)
           /\ Head(queue) \in Services
           /\ Queued(Head(queue))
           /\ \A i, j \in 1..Len(queue') : queue'[i] = queue'[j] => i = j
           /\ \A t \in Services : Queued(t)' <=> Queued(t) /\ t # Head(queue)
<1>1. Len(queue) \in Nat /\ Len(queue) > 0 /\ Head(queue) = queue[1]
  OBVIOUS
<1>2. Len(queue') = Len(queue) - 1 /\ \A i \in 1..Len(queue') : queue'[i] = queue[i + 1]
  BY <1>1
<1>3. queue' \in Seq(Services) /\ Head(queue) \in Services
  BY <1>1
<1>4. Queued(Head(queue))
  BY <1>1 DEF Queued
<1>5. \A i, j \in 1..Len(queue') : queue'[i] = queue'[j] => i = j
  BY <1>1, <1>2
<1>6. ASSUME NEW t \in Services, Queued(t), t # Head(queue)
      PROVE  Queued(t)'
  <2>1. PICK i \in 1..Len(queue) : queue[i] = t BY <1>6 DEF Queued
  <2>2. i # 1 BY <2>1, <1>1, <1>6
  <2>3. i - 1 \in 1..Len(queue') /\ queue'[i - 1] = t BY <2>1, <2>2, <1>1, <1>2
  <2>. QED BY <2>3 DEF Queued
<1>7. ASSUME NEW t \in Services, Queued(t)'
      PROVE  Queued(t) /\ t # Head(queue)
  <2>1. PICK i \in 1..Len(queue') : queue'[i] = t BY <1>7 DEF Queued
  <2>2. i + 1 \in 1..Len(queue) /\ queue[i + 1] = t BY <2>1, <1>1, <1>2
  <2>3. 1 \in 1..Len(queue) /\ i + 1 # 1 BY <2>1, <1>1
  <2>4. queue[1] # queue[i + 1] BY <2>2, <2>3
  <2>. QED BY <2>2, <2>4, <1>1 DEF Queued
<1>. QED BY <1>3, <1>4, <1>5, <1>6, <1>7

\* Unlinking one service keeps the others.
LEMMA UnlinkLemma ==
    ASSUME NEW s \in Services, queue \in Seq(Services),
           \A i, j \in 1..Len(queue) : queue[i] = queue[j] => i = j,
           queue' = Unlinked(s)
    PROVE  /\ queue' \in Seq(Services)
           /\ \A i, j \in 1..Len(queue') : queue'[i] = queue'[j] => i = j
           /\ \A t \in Services : Queued(t)' <=> Queued(t) /\ t # s
<1>1. CASE ~Queued(s)
  BY <1>1 DEF Unlinked, Queued
<1>2. CASE Queued(s)
  <2>. DEFINE i == CHOOSE j \in 1..Len(queue) : queue[j] = s
              n == Len(queue)
  <2>1. i \in 1..n /\ queue[i] = s BY <1>2 DEF Queued
  <2>2. n \in Nat /\ n > 0 BY <2>1
  <2>3. queue' = [j \in 1..(n - 1) |-> IF j < i THEN queue[j] ELSE queue[j + 1]]
    BY <1>2 DEF Unlinked
  <2>. HIDE DEF i
  <2>4. \A j \in 1..(n - 1) : queue'[j] = IF j < i THEN queue[j] ELSE queue[j + 1]
    BY <2>3
  <2>5. \A j \in 1..(n - 1) : queue'[j] \in Services
    BY <2>1, <2>2, <2>4
  <2>6. queue' \in Seq(Services) /\ Len(queue') = n - 1
    BY <2>2, <2>3, <2>5
  <2>7. ASSUME NEW j \in 1..Len(queue'), NEW k \in 1..Len(queue'), queue'[j] = queue'[k]
        PROVE  j = k
    BY <2>1, <2>2, <2>4, <2>6, <2>7
  <2>8. ASSUME NEW t \in Services, Queued(t), t # s
        PROVE  Queued(t)'
    <3>1. PICK k \in 1..n : queue[k] = t BY <2>8 DEF Queued
    <3>2. k # i BY <3>1, <2>1, <2>8
    <3>3. CASE k < i
      <4>1. k \in 1..(n - 1) /\ queue'[k] = t BY <3>1, <3>3, <2>1, <2>2, <2>4
      <4>. QED BY <4>1, <2>6 DEF Queued
    <3>4. CASE k > i
      <4>1. k - 1 \in 1..(n - 1) /\ ~(k - 1 < i) /\ (k - 1) + 1 = k
        BY <3>1, <3>4, <2>1, <2>2
      <4>2. queue'[k - 1] = t BY <4>1, <3>1, <2>4
      <4>. QED BY <4>1, <4>2, <2>6 DEF Queued
    <3>. QED BY <3>1, <3>2, <3>3, <3>4, <2>1, <2>2
  <2>9. ASSUME NEW t \in Services, Queued(t)'
        PROVE  Queued(t) /\ t # s
    <3>1. PICK k \in 1..(n - 1) : queue'[k] = t BY <2>6, <2>9 DEF Queued
    <3>2. CASE k < i
      <4>1. k \in 1..n /\ queue[k] = t /\ k # i BY <3>1, <3>2, <2>1, <2>2, <2>4
      <4>. QED BY <4>1, <2>1 DEF Queued
    <3>3. CASE ~(k < i)
      <4>1. k + 1 \in 1..n /\ queue[k + 1] = t /\ k + 1 # i
        BY <3>1, <3>3, <2>1, <2>2, <2>4
      <4>. QED BY <4>1, <2>1 DEF Queued
    <3>. QED BY <3>2, <3>3
  <2>. QED BY <2>6, <2>7, <2>8, <2>9
<1>. QED BY <1>1, <1>2

-----------------------------------------------------------------------------
\* A state that takes effect (the tail of state_unlock) keeps the list well
\* formed, keeps every entry, and leaves the service in the list.
LEMMA SetStateLemma ==
    ASSUME IInv, NEW s \in Services, Registered(s), NEW st \in States, SetState(s, st)
    PROVE  /\ current' \in [Services -> States \cup {None}]
           /\ rough' \in [Services -> Roughs]
           /\ next' \in [Services -> States \cup {None}]
           /\ queue' \in Seq(Services) /\ queue' # <<>>
           /\ \A t \in Services : Queued(t)' => Registered(t)'
           /\ \A i, j \in 1..Len(queue') : queue'[i] = queue'[j] => i = j
           /\ \A t \in Services : Queued(t)' <=> Queued(t) \/ t = s
           /\ \A t \in Services : t # s => current'[t] = current[t] /\ next'[t] = next[t]
           /\ Registered(s)' /\ next'[s] = None
<1>1. /\ queue' \in Seq(Services) /\ queue' # <<>>
      /\ \A i, j \in 1..Len(queue') : queue'[i] = queue'[j] => i = j
      /\ \A t \in Services : Queued(t)' <=> Queued(t) \/ t = s
  <2>1. /\ queue \in Seq(Services)
        /\ \A i, j \in 1..Len(queue) : queue[i] = queue[j] => i = j
        /\ queue' = IF Queued(s) THEN queue ELSE Append(queue, s)
    BY DEF IInv, TypeOK, ListWellFormed, SetState
  <2>. QED BY <2>1, LinkLemma
<1>2. Is[current[s]] \in Roughs /\ st # None
  BY StatesAssumption DEF IInv, TypeOK, Registered
<1>3. /\ current' \in [Services -> States \cup {None}]
      /\ rough' \in [Services -> Roughs]
      /\ next' \in [Services -> States \cup {None}]
      /\ \A t \in Services : t # s => current'[t] = current[t] /\ next'[t] = next[t]
      /\ current'[s] = st /\ next'[s] = None
  BY <1>2 DEF IInv, TypeOK, SetState
<1>4. \A t \in Services : Queued(t)' => Registered(t)'
  BY <1>1, <1>2, <1>3 DEF IInv, ListWellFormed, Registered
<1>. QED BY <1>1, <1>2, <1>3, <1>4 DEF Registered

\* The engine starts with an empty active_db.
LEMMA InitIInv == Init => IInv
<1>. SUFFICES ASSUME Init PROVE IInv
  OBVIOUS
<1>1. TypeOK
  <2>1. <<>> \in Seq(Services) OBVIOUS
  <2>. QED BY <2>1 DEF Init, TypeOK, Roughs
<1>2. NoLostChange BY DEF Init, NoLostChange, Registered
<1>3. PendingOnlyWhileHandled
  <2>1. \A s \in Services : lock[s] = 0 /\ next[s] = None BY DEF Init
  <2>2. at \notin {"state_change", "is_change"} BY DEF Init
  <2>3. ~(0 > 0) OBVIOUS
  <2>. QED BY <2>1, <2>2, <2>3 DEF PendingOnlyWhileHandled
<1>4. ListWellFormed BY DEF Init, ListWellFormed, Queued
<1>5. HandledIsRegistered BY DEF Init, HandledIsRegistered
<1>. QED BY <1>1, <1>2, <1>3, <1>4, <1>5 DEF IInv

\* Registering, marking and freeing services keep the invariant.
LEMMA RegisterIInv ==
    ASSUME IInv, NEW s \in Services, NEW st \in States, Register(s, st)
    PROVE  IInv'
<1>. USE DEF IInv
<1>1. st # None /\ Is[st] \in Roughs BY StatesAssumption
<1>2. TypeOK' BY <1>1 DEF TypeOK, Register, loop, Roughs
<1>3. \A t \in Services : Queued(t)' <=> Queued(t) BY DEF Register, Queued
<1>4. NoLostChange' BY <1>3 DEF TypeOK, NoLostChange, Register, Registered
<1>5. ~(self = s /\ at \in {"state_change", "is_change"})
  BY DEF HandledIsRegistered, Register
<1>6. PendingOnlyWhileHandled'
  BY <1>5 DEF TypeOK, PendingOnlyWhileHandled, Register, loop
<1>7. ListWellFormed'
  <2>1. queue' = queue /\ at' = at BY DEF Register, loop
  <2>2. \A t \in Services : Registered(t) => Registered(t)'
    BY <1>1 DEF TypeOK, Register, Registered
  <2>. QED BY <1>3, <2>1, <2>2 DEF ListWellFormed
<1>8. HandledIsRegistered' BY <1>1 DEF TypeOK, HandledIsRegistered, Register, loop, Registered
<1>. QED BY <1>2, <1>4, <1>6, <1>7, <1>8

\* mark_service keeps the inductive invariant, whoever calls it and wherever.
LEMMA MarkIInv ==
    ASSUME IInv, NEW s \in Services, NEW st \in States, Mark(s, st)
    PROVE  IInv'
<1>. USE DEF IInv
<1>1. CASE UNCHANGED <<current, rough, queue>> /\ next' = [next EXCEPT ![s] = None]
  <2>1. TypeOK' BY <1>1 DEF TypeOK, Mark, loop, history
  <2>2. \A t \in Services : Queued(t)' <=> Queued(t) BY <1>1 DEF Queued
  <2>3. NoLostChange' BY <1>1, <2>2 DEF NoLostChange, Mark, Registered, history
  <2>4. PendingOnlyWhileHandled' BY <1>1 DEF TypeOK, PendingOnlyWhileHandled, Mark, loop
  <2>5. ListWellFormed' BY <1>1, <2>2 DEF ListWellFormed, Mark, loop, Registered
  <2>6. HandledIsRegistered' BY <1>1 DEF HandledIsRegistered, Mark, loop, Registered
  <2>. QED BY <2>1, <2>3, <2>4, <2>5, <2>6
<1>2. CASE lock[s] > 0 /\ next' = [next EXCEPT ![s] = st] /\ UNCHANGED <<current, rough, queue>>
  <2>1. TypeOK' BY <1>2 DEF TypeOK, Mark, loop, history
  <2>2. \A t \in Services : Queued(t)' <=> Queued(t) BY <1>2 DEF Queued
  <2>3. NoLostChange' BY <1>2, <2>2 DEF NoLostChange, Mark, Registered, history
  <2>4. PendingOnlyWhileHandled' BY <1>2 DEF TypeOK, PendingOnlyWhileHandled, Mark, loop
  <2>5. ListWellFormed' BY <1>2, <2>2 DEF ListWellFormed, Mark, loop, Registered
  <2>6. HandledIsRegistered' BY <1>2 DEF HandledIsRegistered, Mark, loop, Registered
  <2>. QED BY <2>1, <2>3, <2>4, <2>5, <2>6
<1>3. CASE SetState(s, st)
  <2>1. Registered(s) BY DEF Mark
  <2>2. /\ current' \in [Services -> States \cup {None}]
        /\ rough' \in [Services -> Roughs]
        /\ next' \in [Services -> States \cup {None}]
        /\ queue' \in Seq(Services) /\ queue' # <<>>
        /\ \A t \in Services : Queued(t)' => Registered(t)'
        /\ \A i, j \in 1..Len(queue') : queue'[i] = queue'[j] => i = j
        /\ \A t \in Services : Queued(t)' <=> Queued(t) \/ t = s
        /\ \A t \in Services : t # s => current'[t] = current[t] /\ next'[t] = next[t]
        /\ Registered(s)' /\ next'[s] = None
    BY <1>3, <2>1, SetStateLemma
  <2>3. UNCHANGED <<lock, at, self, more, told, toldIs>> BY DEF Mark, loop, history
  <2>4. TypeOK' BY <2>2, <2>3 DEF TypeOK
  <2>5. NoLostChange' BY <2>2, <2>3 DEF NoLostChange, Registered
  <2>6. PendingOnlyWhileHandled' BY <2>2, <2>3 DEF PendingOnlyWhileHandled
  <2>7. ListWellFormed' BY <2>2 DEF ListWellFormed
  <2>8. HandledIsRegistered' BY <2>2, <2>3 DEF HandledIsRegistered, Registered
  <2>. QED BY <2>4, <2>5, <2>6, <2>7, <2>8
<1>. QED BY <1>1, <1>2, <1>3 DEF Mark

\* active_db_free keeps it: both lists forget the service together.
LEMMA FreeIInv ==
    ASSUME IInv, NEW s \in Services, Free(s)
    PROVE  IInv'
<1>. USE DEF IInv
<1>1. /\ queue' \in Seq(Services)
      /\ \A i, j \in 1..Len(queue') : queue'[i] = queue'[j] => i = j
      /\ \A t \in Services : Queued(t)' <=> Queued(t) /\ t # s
  <2>1. /\ queue \in Seq(Services) /\ queue' = Unlinked(s)
        /\ \A i, j \in 1..Len(queue) : queue[i] = queue[j] => i = j
    BY DEF TypeOK, ListWellFormed, Free
  <2>. QED BY <2>1, UnlinkLemma
<1>2. Is[current[s]] \in Roughs BY StatesAssumption DEF TypeOK, Free, Registered
<1>3. TypeOK' BY <1>1, <1>2 DEF TypeOK, Free, loop, history
<1>4. NoLostChange' BY <1>1 DEF TypeOK, NoLostChange, Free, Registered, history
<1>5. PendingOnlyWhileHandled' BY DEF PendingOnlyWhileHandled, Free, loop
<1>6. ListWellFormed'
  BY <1>1 DEF TypeOK, ListWellFormed, Free, Registered, loop
<1>7. HandledIsRegistered' BY DEF HandledIsRegistered, Free, loop
<1>. QED BY <1>3, <1>4, <1>5, <1>6, <1>7

\* The steps of a pass keep the invariant.
LEMMA TakeNextIInv ==
    ASSUME IInv, TakeNext
    PROVE  IInv'
<1>. USE DEF IInv
<1>1. /\ queue' \in Seq(Services) /\ Head(queue) \in Services /\ Queued(Head(queue))
      /\ \A i, j \in 1..Len(queue') : queue'[i] = queue'[j] => i = j
      /\ \A t \in Services : Queued(t)' <=> Queued(t) /\ t # Head(queue)
  <2>1. /\ queue \in Seq(Services) /\ queue # <<>> /\ queue' = Tail(queue)
        /\ \A i, j \in 1..Len(queue) : queue[i] = queue[j] => i = j
    BY DEF TypeOK, ListWellFormed, TakeNext
  <2>. QED BY <2>1, TakeLemma
<1>2. \A t \in Services : lock[t] = 0 /\ next[t] = None
  BY DEF TypeOK, PendingOnlyWhileHandled, TakeNext
<1>3. self' = Head(queue) /\ at' = "state_change" /\ UNCHANGED <<current, rough, next, toldIs>>
  BY DEF TakeNext
<1>4. /\ lock' \in [Services -> {0, 1}]
      /\ \A t \in Services : lock'[t] > 0 <=> t = self'
  BY <1>1, <1>2, <1>3 DEF TypeOK, TakeNext
<1>5. /\ told' \in [Services -> States \cup {None}]
      /\ \A t \in Services : told'[t] = IF t = self' THEN current[t] ELSE told[t]
  BY <1>1, <1>3 DEF TypeOK, TakeNext
<1>6. more' \in BOOLEAN /\ (more' => queue' # <<>>) BY DEF TakeNext
<1>7. TypeOK' BY <1>1, <1>3, <1>4, <1>5, <1>6 DEF TypeOK
<1>8. NoLostChange' BY <1>1, <1>3, <1>5 DEF NoLostChange, Registered
<1>9. PendingOnlyWhileHandled' BY <1>2, <1>3, <1>4 DEF PendingOnlyWhileHandled
<1>10. ListWellFormed' BY <1>1, <1>3 DEF ListWellFormed, Registered
<1>11. HandledIsRegistered'
  BY <1>1, <1>3, <1>6 DEF HandledIsRegistered, ListWellFormed, Registered
<1>. QED BY <1>7, <1>8, <1>9, <1>10, <1>11

\* Unlocking a service for which a state is pending ends its handle().
LEMMA UnlocksIInv ==
    ASSUME IInv, at \in {"state_change", "is_change"}, Unlocks(self), Unlock(self), Return,
           UNCHANGED <<self, more, history>>
    PROVE  IInv'
<1>. USE DEF IInv
<1>1. self \in Services /\ Registered(self) /\ (more => queue # <<>>)
  BY DEF HandledIsRegistered
<1>2. next[self] \in States /\ SetState(self, next[self])
  BY <1>1 DEF TypeOK, Unlocks, Unlock
<1>3. /\ current' \in [Services -> States \cup {None}]
      /\ rough' \in [Services -> Roughs]
      /\ next' \in [Services -> States \cup {None}]
      /\ queue' \in Seq(Services) /\ queue' # <<>>
      /\ \A t \in Services : Queued(t)' => Registered(t)'
      /\ \A i, j \in 1..Len(queue') : queue'[i] = queue'[j] => i = j
      /\ \A t \in Services : Queued(t)' <=> Queued(t) \/ t = self
      /\ \A t \in Services : t # self => current'[t] = current[t] /\ next'[t] = next[t]
      /\ Registered(self)' /\ next'[self] = None
  BY <1>1, <1>2, SetStateLemma
<1>4. /\ lock' \in [Services -> {0, 1}]
      /\ \A t \in Services : ~(lock'[t] > 0)
  BY <1>1 DEF TypeOK, PendingOnlyWhileHandled, Unlocks, Unlock
<1>5. at' \in {"pass", "walk"} BY DEF Return
<1>6. UNCHANGED <<self, more, told, toldIs>> BY DEF history
<1>7. TypeOK' BY <1>3, <1>4, <1>5, <1>6 DEF TypeOK
<1>8. NoLostChange' BY <1>1, <1>3, <1>6 DEF NoLostChange, Registered
<1>9. \A t \in Services : next'[t] = None
  BY <1>1, <1>3 DEF TypeOK, PendingOnlyWhileHandled
<1>10. PendingOnlyWhileHandled' BY <1>4, <1>5, <1>9 DEF PendingOnlyWhileHandled
<1>11. ListWellFormed' BY <1>3 DEF ListWellFormed
<1>12. HandledIsRegistered' BY <1>5 DEF HandledIsRegistered
<1>. QED BY <1>7, <1>8, <1>10, <1>11, <1>12

\* Unlocking a service nobody marked lets handle() go on.
LEMMA NotUnlocksIInv ==
    ASSUME IInv, at \in {"state_change", "is_change"}, ~Unlocks(self), Unlock(self),
           at' \in {"switch", "init"}, UNCHANGED <<self, more, history>>
    PROVE  IInv'
<1>. USE DEF IInv
<1>1. self \in Services /\ Registered(self) /\ (more => queue # <<>>)
  BY DEF HandledIsRegistered
<1>2. UNCHANGED <<current, rough, next, queue, self, more, told, toldIs>>
  BY DEF Unlocks, Unlock, history
<1>3. lock[self] = 1 /\ next[self] = None
  BY <1>1 DEF TypeOK, PendingOnlyWhileHandled, Unlocks
<1>4. /\ lock' \in [Services -> {0, 1}]
      /\ \A t \in Services : ~(lock'[t] > 0)
  BY <1>1, <1>3 DEF TypeOK, PendingOnlyWhileHandled, Unlock
<1>5. \A t \in Services : Queued(t)' <=> Queued(t) BY <1>2 DEF Queued
<1>6. TypeOK' BY <1>2, <1>4 DEF TypeOK
<1>7. NoLostChange' BY <1>2, <1>5 DEF NoLostChange, Registered
<1>8. \A t \in Services : next'[t] = None
  BY <1>1, <1>2, <1>3 DEF TypeOK, PendingOnlyWhileHandled
<1>9. PendingOnlyWhileHandled' BY <1>4, <1>8 DEF PendingOnlyWhileHandled
<1>10. ListWellFormed' BY <1>2, <1>5 DEF ListWellFormed, Registered
<1>11. HandledIsRegistered' BY <1>1, <1>2 DEF HandledIsRegistered, Registered
<1>. QED BY <1>6, <1>7, <1>9, <1>10, <1>11

\* The steps that only move the main loop on.
LEMMA MoveIInv ==
    ASSUME IInv, UNCHANGED <<current, rough, next, lock, queue, more, told>>,
           toldIs' \in [Services -> Roughs],
           \/ at = "state_change" /\ at' = "is_change" /\ self' = self
           \/ at = "switch" /\ at' = "init" /\ self' = self
           \/ at = "init" /\ Return /\ self' = self
           \/ at = "walk" /\ at' = "loop" /\ self' = None
    PROVE  IInv'
<1>. USE DEF IInv
<1>1. \A t \in Services : Queued(t)' <=> Queued(t) BY DEF Queued
<1>2. TypeOK' BY DEF TypeOK, Return
<1>3. NoLostChange' BY <1>1 DEF NoLostChange, Registered
<1>4. PendingOnlyWhileHandled' BY DEF PendingOnlyWhileHandled, Return
<1>5. ListWellFormed' BY <1>1 DEF ListWellFormed, HandledIsRegistered, Registered, Return
<1>6. HandledIsRegistered' BY DEF HandledIsRegistered, Registered, Return
<1>. QED BY <1>2, <1>3, <1>4, <1>5, <1>6

\* The conjunction of the invariants is inductive.
LEMMA NextIInv == IInv /\ [Next]_vars => IInv'
<1>. SUFFICES ASSUME IInv, [Next]_vars PROVE IInv'
  OBVIOUS
<1>1. ASSUME NEW s \in Services, NEW st \in States, Register(s, st) \/ Mark(s, st)
      PROVE  IInv'
  BY <1>1, RegisterIInv, MarkIInv
<1>2. ASSUME NEW s \in Services, Free(s) PROVE IInv'
  BY <1>2, FreeIInv
<1>3. CASE TakeNext
  BY <1>3, TakeNextIInv
<1>4. CASE StateChangeSent
  <2>1. CASE Unlocks(self) /\ Unlock(self) /\ Return /\ UNCHANGED <<self, more, history>>
    BY <1>4, <2>1, UnlocksIInv DEF StateChangeSent
  <2>2. CASE /\ toldIs' = [toldIs EXCEPT ![self] = Is[current[self]]]
             /\ at' = "is_change"
             /\ UNCHANGED <<current, rough, next, lock, queue, self, more, told>>
    <3>1. self \in Services /\ current[self] \in States
      BY <1>4 DEF IInv, TypeOK, HandledIsRegistered, StateChangeSent, Registered
    <3>2. toldIs' \in [Services -> Roughs]
      BY <2>2, <3>1, StatesAssumption DEF IInv, TypeOK
    <3>. QED BY <1>4, <2>2, <3>2, MoveIInv DEF StateChangeSent
  <2>3. CASE ~Unlocks(self) /\ Unlock(self) /\ at' = "init" /\ UNCHANGED <<self, more, history>>
    BY <1>4, <2>3, NotUnlocksIInv DEF StateChangeSent
  <2>. QED BY <1>4, <2>1, <2>2, <2>3 DEF StateChangeSent
<1>5. CASE IsChangeSent
  <2>1. CASE Unlocks(self)
    BY <1>5, <2>1, UnlocksIInv DEF IsChangeSent
  <2>2. CASE ~Unlocks(self)
    BY <1>5, <2>2, NotUnlocksIInv DEF IsChangeSent
  <2>. QED BY <2>1, <2>2
<1>6. CASE SwitchDone \/ InitDone \/ WalkDone
  <2>1. toldIs' \in [Services -> Roughs]
    BY <1>6 DEF IInv, TypeOK, SwitchDone, InitDone, WalkDone, history
  <2>. QED BY <1>6, <2>1, MoveIInv DEF SwitchDone, InitDone, WalkDone, history
<1>7. CASE UNCHANGED vars
  BY <1>7 DEF vars, IInv, TypeOK, NoLostChange, PendingOnlyWhileHandled, ListWellFormed,
              HandledIsRegistered, Registered, Queued
<1>. QED BY <1>1, <1>2, <1>3, <1>4, <1>5, <1>6, <1>7 DEF Next, Step

\* The inductive invariant holds in every state of the engine of state.c and
\* interrupt/*.c, for any services, states and hooks.
THEOREM Invariance == Spec => []IInv
BY InitIInv, NextIInv, PTL DEF Spec

\* No state change is lost, for any services, states and hooks: whatever is
\* marked while initng_interrupt() walks its list, a service whose state the
\* hooks have not been told is in the list.
THEOREM NoChangeIsLost == Spec => []NoLostChange
<1>1. IInv => NoLostChange BY DEF IInv
<1>. QED BY <1>1, Invariance, PTL

\* A state waits in next_state only while handle() has the service locked.
THEOREM PendingIsHandled == Spec => []PendingOnlyWhileHandled
<1>1. IInv => PendingOnlyWhileHandled BY DEF IInv
<1>. QED BY <1>1, Invariance, PTL

\* The interrupt list never holds a service twice or one that was freed.
THEOREM ListIsWellFormed == Spec => []ListWellFormed
<1>1. IInv => ListWellFormed BY DEF IInv
<1>. QED BY <1>1, Invariance, PTL

\* No hook sees the state of the service its event is about change under it.
THEOREM HooksSeeOneState == Spec => SteadyUnderHooks
<1>1. IInv /\ [Next]_vars =>
        [\A s \in Services : lock[s] > 0 /\ lock'[s] > 0 => current'[s] = current[s]]_vars
  <2>. SUFFICES ASSUME IInv, Next, NEW s \in Services, lock[s] > 0, lock'[s] > 0
                PROVE  current'[s] = current[s]
    OBVIOUS
  <2>1. s = self /\ at \in {"state_change", "is_change"} /\ lock[s] = 1 /\ Registered(s)
    BY DEF IInv, TypeOK, PendingOnlyWhileHandled, HandledIsRegistered
  <2>2. ASSUME NEW r \in Services, NEW st \in States, Register(r, st) \/ Mark(r, st)
        PROVE  current'[s] = current[s]
    BY <2>1, <2>2 DEF IInv, TypeOK, Register, Mark, SetState
  <2>3. ASSUME NEW r \in Services, Free(r)
        PROVE  current'[s] = current[s]
    BY <2>1, <2>3 DEF Free
  <2>4. CASE Step
    <3>1. ~Unlock(self)
      BY <2>1 DEF IInv, TypeOK, Unlock
    <3>. QED BY <2>1, <2>4, <3>1 DEF Step, TakeNext, StateChangeSent, IsChangeSent, SwitchDone, InitDone, WalkDone
  <2>. QED BY <2>2, <2>3, <2>4 DEF Next
<1>. QED BY <1>1, Invariance, PTL DEF Spec, SteadyUnderHooks
=============================================================================
