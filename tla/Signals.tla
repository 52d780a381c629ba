------------------------------ MODULE Signals -------------------------------
(***************************************************************************)
(* From a signal to its handling: set_signal, which may interrupt any      *)
(* instruction of initng and, because sa_mask is empty, another            *)
(* set_signal; the slots g.signals_got; initng_signal_dispatch in every    *)
(* round of the main loop; and the sleep in initng_io_module_poll.         *)
(***************************************************************************)
EXTENDS Naturals, Sequences

CONSTANTS
    Signals,        \* the signals initng_signal_enable gives to set_signal
    SIGNAL_STACK,   \* slots (10)
    NONE            \* -1

VARIABLES
    signals_got,    \* g.signals_got
    handlers,       \* running set_signal calls that stand before their store, newest last
    at,             \* slot dispatch stands at, or LOOP, REST, ASLEEP
    sig,            \* the signal dispatch has taken out and not yet handled
    raised,         \* signals delivered and not handled since
    nested,         \* a set_signal has been interrupted by another
    full            \* "SIGNAL STACK FULL!" was reached

vars == <<signals_got, handlers, at, sig, raised, nested, full>>
Slots == 1..SIGNAL_STACK

LOOP == 0
REST == SIGNAL_STACK + 1
ASLEEP == SIGNAL_STACK + 2

Init ==
    /\ signals_got = [i \in Slots |-> NONE]
    /\ handlers = <<>>
    /\ at = LOOP /\ sig = NONE
    /\ raised = {} /\ nested = FALSE /\ full = FALSE

\* The slots at which the loop of set_signal stops.
Spot(s) == {i \in Slots : signals_got[i] \in {s, NONE}}

\* set_signal is entered, runs its loop and stops before the store.  A signal is
\* blocked while its own handler runs.
SetSignal(s) ==
    /\ \A i \in DOMAIN handlers : handlers[i].sig # s
    /\ raised' = raised \cup {s}
    /\ nested' = (nested \/ handlers # <<>>)
    /\ IF Spot(s) = {}
         THEN full' = TRUE /\ UNCHANGED handlers
         ELSE LET i == CHOOSE i \in Spot(s) : \A j \in Spot(s) : i <= j
              IN /\ handlers' = IF signals_got[i] = s THEN handlers ELSE Append(handlers, [sig |-> s, slot |-> i])
                 /\ UNCHANGED full
    /\ at' = IF at = ASLEEP THEN LOOP ELSE at
    /\ UNCHANGED <<signals_got, sig>>

\* The newest handler stores and returns.
Store ==
    /\ handlers # <<>>
    /\ LET h == handlers[Len(handlers)] IN signals_got' = [signals_got EXCEPT ![h.slot] = h.sig]
    /\ handlers' = SubSeq(handlers, 1, Len(handlers) - 1)
    /\ UNCHANGED <<at, sig, raised, nested, full>>

\* The main program moves only when no handler runs.
Dispatch ==
    /\ handlers = <<>> /\ at = LOOP
    /\ at' = 1
    /\ UNCHANGED <<signals_got, handlers, sig, raised, nested, full>>

\* A wrong version: the slot is reset when the signal has been handled.
ResetLate == FALSE

\* The slot is reset before the signal is handled.
ResetFirst == TRUE

Slot(reset) == IF reset THEN [signals_got EXCEPT ![at] = NONE] ELSE signals_got

\* Takes the signal out of the slot.  (Between the read and the reset, set_signal
\* finds the signal in the slot and leaves it; it is handled after the reset.)
Take ==
    /\ handlers = <<>> /\ at \in Slots /\ sig = NONE
    /\ sig' = signals_got[at]
    /\ signals_got' = Slot(ResetFirst)
    /\ raised' = raised \ {signals_got[at]}
    /\ at' = IF signals_got[at] = NONE THEN at + 1 ELSE at
    /\ UNCHANGED <<handlers, nested, full>>

\* The hooks of EVENT_SIGNAL have run, and handle_sigchild or run_alarm; what is
\* raised meanwhile may have come too late for them.
Handle ==
    /\ handlers = <<>> /\ sig # NONE
    /\ sig' = NONE
    /\ signals_got' = Slot(~ResetFirst)
    /\ at' = at + 1
    /\ UNCHANGED <<handlers, raised, nested, full>>

\* The rest of a round: either it goes on at once, or select() sleeps until a
\* descriptor, a timeout or a signal.
Rest ==
    /\ handlers = <<>> /\ at = REST
    /\ at' \in {LOOP, ASLEEP}
    /\ UNCHANGED <<signals_got, handlers, sig, raised, nested, full>>

Wakes ==
    /\ at = ASLEEP /\ handlers = <<>>
    /\ at' = LOOP
    /\ UNCHANGED <<signals_got, handlers, sig, raised, nested, full>>

Next ==
    \/ \E s \in Signals : SetSignal(s)
    \/ Store \/ Dispatch \/ Take \/ Handle \/ Rest \/ Wakes

Spec == Init /\ [][Next]_vars

-----------------------------------------------------------------------------
\* A signal is not lost: from its delivery until dispatch takes it, it is in a slot
\* or a set_signal is about to store it, as long as no set_signal has been
\* interrupted by another one (two of them then take the same free slot) and the
\* slots have not run out, which they can, for a signal may be in more than one of
\* them.  In particular one that arrives while it is being handled is handled again.
SignalKept ==
    nested \/ full \/ \A s \in raised : \/ \E i \in Slots : signals_got[i] = s
                                        \/ \E i \in DOMAIN handlers : handlers[i].sig = s
=============================================================================
