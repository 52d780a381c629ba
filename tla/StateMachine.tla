---------------------------- MODULE StateMachine ----------------------------
(***************************************************************************)
(* The state engine of initng: how a service of the active_db changes its  *)
(* state (common/state.c) and how the main loop handles the change         *)
(* (interrupt/*.c).  A mark of an unlocked service takes effect at once    *)
(* and links the service into the interrupt list; a mark of a locked one   *)
(* is kept in next_state until the unlock.  initng_interrupt() takes the   *)
(* listed services one by one, locks each while the hooks of               *)
(* EVENT_STATE_CHANGE and EVENT_IS_CHANGE run, and then calls the init     *)
(* callback of its state; a walk over every service's interrupt callback   *)
(* ends the pass.                                                          *)
(*                                                                         *)
(* Hooks, callbacks, kill handlers, alarms and client commands are         *)
(* arbitrary: at any point any of them may mark any service.               *)
(***************************************************************************)
EXTENDS Naturals, Sequences

CONSTANTS
    Services,   \* active_db_h
    States,     \* a_state_h
    Is,         \* the rough state (`is`) of each state
    FREEING,    \* the state a service is marked with when it is freed
    None        \* a null pointer

Roughs == {"NEW", "DOWN", "STARTING", "WAITING", "UP", "STOPPING", "FAILED"}

ASSUME StatesAssumption ==
    /\ Is \in [States -> Roughs]
    /\ FREEING \in States /\ Is[FREEING] = "DOWN"
    /\ None \notin States /\ None \notin Services

VARIABLES
    current,    \* current_state, None when the service is not in the active_db
    rough,      \* last_rought_state
    next,       \* next_state
    lock,       \* state_lock
    queue,      \* g.active_db.interrupt, oldest entry first
    at,         \* where the main loop stands
    self,       \* the service being handled
    more,       \* initng_interrupt() found an entry behind the one it handles
    told,       \* history: the state of the last EVENT_STATE_CHANGE
    toldIs      \* history: the rough state of the last EVENT_IS_CHANGE

vars == <<current, rough, next, lock, queue, at, self, more, told, toldIs>>
loop == <<at, self, more>>
history == <<told, toldIs>>

Registered(s) == current[s] # None
Queued(s) == \E i \in 1..Len(queue) : queue[i] = s

Init ==
    /\ current = [s \in Services |-> None]
    /\ rough = [s \in Services |-> "NEW"]
    /\ next = [s \in Services |-> None]
    /\ lock = [s \in Services |-> 0]
    /\ queue = <<>>
    /\ at = "loop" /\ self = None /\ more = FALSE
    /\ told = [s \in Services |-> None]
    /\ toldIs = [s \in Services |-> "NEW"]

-----------------------------------------------------------------------------
\* A wrong version: the service being handled is not linked again.
SetStateUnlinked(s, st) ==
    /\ rough' = [rough EXCEPT ![s] = Is[current[s]]]
    /\ current' = [current EXCEPT ![s] = st]
    /\ next' = [next EXCEPT ![s] = None]
    /\ queue' = IF Queued(s) \/ s = self THEN queue ELSE Append(queue, s)

\* A wrong version: an entry that is linked is linked once more.
SetStateTwice(s, st) ==
    /\ rough' = [rough EXCEPT ![s] = Is[current[s]]]
    /\ current' = [current EXCEPT ![s] = st]
    /\ next' = [next EXCEPT ![s] = None]
    /\ queue' = Append(queue, s)

\* A wrong version: the newest change comes first.
SetStateFirst(s, st) ==
    /\ rough' = [rough EXCEPT ![s] = Is[current[s]]]
    /\ current' = [current EXCEPT ![s] = st]
    /\ next' = [next EXCEPT ![s] = None]
    /\ queue' = IF Queued(s) THEN queue ELSE <<s>> \o queue

\* The last part of state_unlock: the service takes the state st and is linked
\* into the interrupt list unless it is there already.
SetState(s, st) ==
    /\ rough' = [rough EXCEPT ![s] = Is[current[s]]]
    /\ current' = [current EXCEPT ![s] = st]
    /\ next' = [next EXCEPT ![s] = None]
    /\ queue' = IF Queued(s) THEN queue ELSE Append(queue, s)

\* active_db_new and active_db_register: the creator sets the first state
\* directly, without an interrupt.
Register(s, st) ==
    /\ ~Registered(s)
    /\ st # FREEING
    /\ current' = [current EXCEPT ![s] = st]
    /\ rough' = [rough EXCEPT ![s] = "NEW"]
    /\ next' = [next EXCEPT ![s] = None]
    /\ lock' = [lock EXCEPT ![s] = 0]
    /\ told' = [told EXCEPT ![s] = st]
    /\ toldIs' = [toldIs EXCEPT ![s] = Is[st]]
    /\ UNCHANGED <<queue, loop>>

\* A wrong version: the lock is not looked at.
MarkLocked(s, st) ==
    /\ Registered(s) /\ st # FREEING /\ current[s] # st
    /\ SetState(s, st)
    /\ UNCHANGED <<lock, loop, history>>

\* mark_service by anybody, at any point of the main loop.
Mark(s, st) ==
    /\ Registered(s)
    /\ st # FREEING
    /\ lock[s] = 0 \/ next[s] = None
    /\ \/ /\ current[s] = st
          /\ next' = [next EXCEPT ![s] = None]
          /\ UNCHANGED <<current, rough, queue>>
       \/ /\ current[s] # st
          /\ lock[s] > 0
          /\ next' = [next EXCEPT ![s] = st]
          /\ UNCHANGED <<current, rough, queue>>
       \/ /\ current[s] # st
          /\ lock[s] = 0
          /\ SetState(s, st)
    /\ UNCHANGED <<lock, loop, history>>

\* The interrupt list without s: what list_del of its entry leaves.
Unlinked(s) ==
    IF Queued(s)
      THEN LET i == CHOOSE j \in 1..Len(queue) : queue[j] = s
           IN [j \in 1..(Len(queue) - 1) |-> IF j < i THEN queue[j] ELSE queue[j + 1]]
      ELSE queue

\* active_db_free, called by clean_down and by the commands that poll reads: the
\* mark FREEING takes effect and both lists forget the service.
Free(s) ==
    /\ at = "loop"
    /\ Registered(s)
    /\ current' = [current EXCEPT ![s] = None]
    /\ rough' = [rough EXCEPT ![s] = Is[current[s]]]
    /\ queue' = Unlinked(s)
    /\ UNCHANGED <<next, lock, loop, history>>

-----------------------------------------------------------------------------
\* initng_interrupt() unlinks the oldest entry and handle() locks it and sends
\* EVENT_STATE_CHANGE.
TakeNext ==
    /\ at \in {"loop", "pass"}
    /\ queue # <<>>
    /\ self' = Head(queue)
    /\ more' = (Tail(queue) # <<>>)
    /\ queue' = Tail(queue)
    /\ lock' = [lock EXCEPT ![Head(queue)] = @ + 1]
    /\ told' = [told EXCEPT ![Head(queue)] = current[Head(queue)]]
    /\ at' = "state_change"
    /\ UNCHANGED <<current, rough, next, toldIs>>

\* Where the pass goes when a handle() is done: the entry behind it was looked
\* up before, so what was appended to an empty list waits for the next round.
Return == at' = IF more THEN "pass" ELSE "walk"

\* state_unlock of a service locked once; TRUE when a new state took effect.
Unlock(s) ==
    /\ lock' = [lock EXCEPT ![s] = @ - 1]
    /\ IF lock[s] = 1 /\ next[s] # None
         THEN SetState(s, next[s])
         ELSE UNCHANGED <<current, rough, next, queue>>

Unlocks(s) == lock[s] = 1 /\ next[s] # None

\* The hooks of EVENT_STATE_CHANGE are done: unlock; unless that changed the
\* state, send EVENT_IS_CHANGE under a new lock when the rough state differs.
StateChangeSent ==
    /\ at = "state_change"
    /\ \/ /\ Unlocks(self)
          /\ Unlock(self)
          /\ Return
          /\ UNCHANGED <<self, more, history>>
       \/ /\ ~Unlocks(self)
          /\ rough[self] # Is[current[self]]
          /\ toldIs' = [toldIs EXCEPT ![self] = Is[current[self]]]
          /\ at' = "is_change"
          /\ UNCHANGED <<current, rough, next, lock, queue, self, more, told>>
       \/ /\ ~Unlocks(self)
          /\ rough[self] = Is[current[self]]
          /\ Unlock(self)
          /\ at' = "init"
          /\ UNCHANGED <<self, more, history>>

\* The hooks of EVENT_IS_CHANGE are done.
IsChangeSent ==
    /\ at = "is_change"
    /\ IF Unlocks(self) THEN Return ELSE at' = "switch"
    /\ Unlock(self)
    /\ UNCHANGED <<self, more, history>>

\* check_sys_state_up and restart_restarting are done (they may mark, through
\* the hooks of EVENT_SYSTEM_CHANGE and through start_service).
SwitchDone ==
    /\ at = "switch"
    /\ at' = "init"
    /\ UNCHANGED <<current, rough, next, lock, queue, self, more, history>>

\* The init callback of the current state is done.
InitDone ==
    /\ at = "init"
    /\ Return
    /\ UNCHANGED <<current, rough, next, lock, queue, self, more, history>>

\* run_interrupt_handlers() is done.
WalkDone ==
    /\ at = "walk"
    /\ at' = "loop" /\ self' = None
    /\ UNCHANGED <<current, rough, next, lock, queue, more, history>>

Step == TakeNext \/ StateChangeSent \/ IsChangeSent \/ SwitchDone \/ InitDone \/ WalkDone

Next ==
    \/ \E s \in Services, st \in States : Register(s, st) \/ Mark(s, st)
    \/ \E s \in Services : Free(s)
    \/ Step

\* The main loop never blocks inside a pass, and does not sleep in poll while
\* the interrupt list has entries.
Spec == Init /\ [][Next]_vars /\ WF_vars(Step)

-----------------------------------------------------------------------------
\* Every variable keeps its type; locks are never nested deeper than once.
TypeOK ==
    /\ current \in [Services -> States \cup {None}]
    /\ rough \in [Services -> Roughs]
    /\ next \in [Services -> States \cup {None}]
    /\ lock \in [Services -> {0, 1}]
    /\ queue \in Seq(Services)
    /\ at \in {"loop", "pass", "state_change", "is_change", "switch", "init", "walk"}
    /\ self \in Services \cup {None}
    /\ more \in BOOLEAN
    /\ told \in [Services -> States \cup {None}]
    /\ toldIs \in [Services -> Roughs]

\* No state change is lost: a service whose state is not the one the hooks of
\* EVENT_STATE_CHANGE were last told of is in the interrupt list, whatever was
\* marked by whom while the list was being walked.
NoLostChange ==
    \A s \in Services : Registered(s) /\ told[s] # current[s] => Queued(s)

\* A state is pending in next_state only while handle() has the service locked:
\* no request to mark a service is left behind by a finished pass.
PendingOnlyWhileHandled ==
    \A s \in Services :
        /\ lock[s] > 0 <=> s = self /\ at \in {"state_change", "is_change"}
        /\ next[s] # None => lock[s] > 0

\* The interrupt list holds registered services, each at most once, and a pass
\* that looked at the entry behind the handled one still finds it.
ListWellFormed ==
    /\ \A s \in Services : Queued(s) => Registered(s)
    /\ \A i, j \in 1..Len(queue) : queue[i] = queue[j] => i = j
    /\ at = "pass" => queue # <<>>

\* The service being handled stays in the active_db until the pass is over:
\* clean_down runs between the passes.
HandledIsRegistered ==
    at \notin {"loop", "pass", "walk"} =>
        self \in Services /\ Registered(self) /\ (more => queue # <<>>)

\* All hooks of one event see the same state of the service it is about.
SteadyUnderHooks ==
    [][\A s \in Services : lock[s] > 0 /\ lock'[s] > 0 => current'[s] = current[s]]_vars

\* A change that is made visible in the interrupt list is handled, however many
\* other changes the hooks keep making.
EveryChangeHandled ==
    \A s \in Services : Queued(s) ~> (self = s \/ ~Registered(s))
=============================================================================
