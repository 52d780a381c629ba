----------------------------- MODULE NgeProofs ------------------------------
(***************************************************************************)
(* No listener of nge misses an event in silence, for any programs, table  *)
(* size, socket buffers and sequences of events.                           *)
(***************************************************************************)
EXTENDS Nge, TLAPS, WellFoundedInduction

\* The table has a slot, and no program is taken for an empty one.
NgeConstants == MAX_LISTENERS \in Nat \ {0} /\ NONE \notin Programs

\* open_socket leaves a descriptor and a file.
LEMMA OpenSocketType ==
    ASSUME NEW s \in Sockets, NEW out \in Outcomes
    PROVE  OpenSocket(s, out) \in Sockets
BY DEF Sockets, Outcomes, OpenSocket, CloseSock, Closed

\* The invariant holds when the module has been loaded.
LEMMA InitIInv ==
    ASSUME NgeConstants, Init PROVE IInv
  <1>1. Closed \in Sockets
    BY DEF Closed, Sockets
  <1>2. sock \in Sockets
    BY <1>1, OpenSocketType DEF Init, open_initiator_socket
  <1>3. TypeOK
    <2>1. /\ listeners = [i \in Slots |-> NONE] /\ clock = 0 /\ at = 0 /\ hups = 0 /\ is_active = FALSE
          /\ prog = [c \in Programs |-> "off"] /\ sent = [c \in Programs |-> 0]
          /\ unread = [c \in Programs |-> 0] /\ reopened = [c \in Programs |-> FALSE]
      BY DEF Init
    <2>2. 0 \in 0..MAX_LISTENERS
      BY DEF NgeConstants
    <2> QED BY <1>2, <2>1, <2>2 DEF TypeOK
  <1> QED BY <1>3 DEF Init, IInv, NothingMissed, OneSlot, WaitsOutside, Slots

\* An event of initng: every listener is now one behind.
LEMMA EventKeeps ==
    ASSUME NgeConstants, IInv, Event PROVE IInv'
  <1>1. TypeOK'
    BY DEF NgeConstants, IInv, TypeOK, Event, Slots
  <1>2. NothingMissed'
    BY DEF NgeConstants, IInv, TypeOK, Event, Slots, NothingMissed, Passed
  <1> QED BY <1>1, <1>2 DEF IInv, Event, OneSlot, WaitsOutside

\* send_to_all goes on to the next slot.
LEMMA AfterType ==
    ASSUME NgeConstants, TypeOK, at > 0
    PROVE  /\ at \in Slots /\ After(at) \in 0..MAX_LISTENERS
           /\ \A i \in Slots : (After(at) = 0 \/ i < After(at)) <=> (i < at \/ i = at)
BY DEF NgeConstants, TypeOK, After, Slots

\* The three steps of send_to_all.
LEMMA SendKeeps ==
    ASSUME NgeConstants, IInv, SkipFree \/ SendOne \/ SendFails PROVE IInv'
  <1> USE DEF NgeConstants
  <1>0. TypeOK /\ at > 0 /\ at' = After(at) /\ clock' = clock /\ is_active' = is_active /\ reopened' = reopened
        /\ prog' = prog
    BY DEF IInv, SkipFree, SendOne, SendFails
  <1>1. /\ at \in Slots /\ at' \in 0..MAX_LISTENERS
        /\ \A i \in Slots : Passed(i)' <=> (i < at \/ i = at)
        /\ \A i \in Slots : Passed(i) <=> i < at
    BY <1>0, AfterType DEF Passed, TypeOK, Slots
  <1>2. CASE SkipFree
    <2>1. TypeOK'
      BY <1>0, <1>1, <1>2 DEF SkipFree, TypeOK
    <2>2. NothingMissed'
      BY <1>0, <1>1, <1>2 DEF SkipFree, IInv, NothingMissed
    <2> QED BY <1>2, <2>1, <2>2 DEF SkipFree, IInv, OneSlot, WaitsOutside
  <1>3. CASE SendOne
    <2> DEFINE c == listeners[at]
    <2>0. c \in Programs /\ sent' = [sent EXCEPT ![c] = clock] /\ listeners' = listeners
      BY <1>0, <1>1, <1>3 DEF SendOne, TypeOK
    <2>1. TypeOK'
      BY <1>0, <1>1, <1>3, <2>0 DEF SendOne, TypeOK
    <2>2. NothingMissed'
      <3>1. SUFFICES ASSUME NEW i \in Slots, listeners[i] # NONE, prog[listeners[i]] = "up", ~reopened[listeners[i]]
                     PROVE  is_active /\ sent'[listeners[i]] = IF Passed(i)' THEN clock ELSE clock - 1
        BY <1>0, <2>0 DEF NothingMissed
      <3>2. is_active /\ sent[listeners[i]] = IF Passed(i) THEN clock ELSE clock - 1
        BY <3>1 DEF IInv, NothingMissed
      <3>3. listeners[i] \in Programs
        BY <1>0, <3>1 DEF TypeOK
      <3>4. CASE i = at
        BY <1>0, <1>1, <2>0, <3>2, <3>4 DEF TypeOK
      <3>5. CASE i # at
        <4>1. listeners[i] # c
          BY <1>1, <2>0, <3>5, <3>1 DEF IInv, OneSlot
        <4> QED BY <1>0, <1>1, <2>0, <3>2, <3>3, <3>5, <4>1 DEF TypeOK
      <3> QED BY <3>4, <3>5
    <2> QED BY <1>0, <2>0, <2>1, <2>2 DEF IInv, OneSlot, WaitsOutside
  <1>4. CASE SendFails
    <2>0. listeners' = [listeners EXCEPT ![at] = NONE] /\ sent' = sent
      BY <1>4 DEF SendFails
    <2>1. TypeOK'
      BY <1>0, <1>1, <1>4 DEF SendFails, TypeOK
    <2>2. \A i \in Slots : listeners'[i] # NONE => i # at /\ listeners'[i] = listeners[i]
      BY <1>0, <1>1, <2>0 DEF TypeOK
    <2>3. NothingMissed'
      BY <1>0, <1>1, <2>0, <2>2 DEF IInv, NothingMissed
    <2>4. OneSlot'
      BY <2>2 DEF IInv, OneSlot
    <2>5. WaitsOutside'
      BY <1>0, <2>2 DEF IInv, WaitsOutside, TypeOK
    <2> QED BY <2>1, <2>3, <2>4, <2>5 DEF IInv
  <1> QED BY <1>2, <1>3, <1>4

\* A set of slots that is not empty has a first one.
LEMMA SmallestSlot ==
    ASSUME NEW S \in SUBSET Nat, S # {} PROVE \E j \in S : \A k \in S : j <= k
  <1>1. PICK j \in S : \A k \in S : <<k, j>> \notin OpToRel(<, Nat)
    BY NatLessThanWellFounded, WFMin
  <1>2. ASSUME NEW k \in S PROVE j <= k
    <2>1. <<k, j>> \in Nat \X Nat
      OBVIOUS
    <2>2. ~(<<k, j>>[1] < <<k, j>>[2])
      BY <1>1, <2>1, Zenon DEF OpToRel
    <2> QED BY <2>1, <2>2
  <1> QED BY <1>2

\* A new listener is told everything, so it starts level with the others.
LEMMA AcceptKeeps ==
    ASSUME NgeConstants, IInv, NEW c \in Programs, NEW accepted \in BOOLEAN, EventAcceptor(c, accepted)
    PROVE  IInv'
  <1> USE DEF NgeConstants
  <1>0. /\ TypeOK /\ at = 0 /\ at' = 0 /\ clock' = clock /\ is_active' = TRUE
        /\ \A j \in Slots : Passed(j) /\ Passed(j)'
        /\ prog[c] = "waiting" /\ \A j \in Slots : listeners[j] # c
    BY DEF IInv, EventAcceptor, Passed, WaitsOutside
  <1>1. CASE accepted
    <2>1. PICK i \in Slots : /\ listeners[i] = NONE /\ listeners' = [listeners EXCEPT ![i] = c]
      <3> DEFINE i == CHOOSE j \in FreeSlots : \A k \in FreeSlots : j <= k
      <3>1. FreeSlots # {} /\ FreeSlots \subseteq Nat
        BY DEF EventAcceptor, FreeSlots, Slots
      <3>2. \E j \in FreeSlots : \A k \in FreeSlots : j <= k
        BY <3>1, SmallestSlot
      <3>3. i \in FreeSlots
        BY <3>2
      <3> QED BY <1>1, <3>3 DEF EventAcceptor, FreeSlots
    <2>2. /\ prog' = [prog EXCEPT ![c] = "up"] /\ sent' = [sent EXCEPT ![c] = clock]
          /\ unread' = [unread EXCEPT ![c] = 1] /\ reopened' = [reopened EXCEPT ![c] = FALSE]
          /\ sock' = sock /\ hups' = hups
      BY <1>1 DEF EventAcceptor
    <2>3. TypeOK'
      BY <1>0, <2>1, <2>2 DEF TypeOK
    <2>4. \A j \in Slots : listeners'[j] = IF j = i THEN c ELSE listeners[j]
      BY <1>0, <2>1 DEF TypeOK
    <2>5. NothingMissed'
      BY <1>0, <2>1, <2>2, <2>4 DEF IInv, NothingMissed, TypeOK
    <2>6. OneSlot'
      BY <1>0, <2>4 DEF IInv, OneSlot
    <2>7. WaitsOutside'
      BY <1>0, <2>2, <2>4 DEF IInv, WaitsOutside, TypeOK
    <2> QED BY <2>3, <2>5, <2>6, <2>7 DEF IInv
  <1>2. CASE ~accepted
    <2>1. prog' = [prog EXCEPT ![c] = "off"] /\ UNCHANGED <<listeners, sent, unread, reopened, sock, hups>>
      BY <1>2 DEF EventAcceptor
    <2>2. TypeOK'
      BY <1>0, <2>1 DEF TypeOK
    <2>3. NothingMissed' /\ OneSlot' /\ WaitsOutside'
      BY <1>0, <2>1 DEF IInv, NothingMissed, OneSlot, WaitsOutside, TypeOK
    <2> QED BY <2>2, <2>3 DEF IInv
  <1> QED BY <1>1, <1>2

\* check_socket: whoever is gone leaves the table; after a reopening nobody is
\* promised anything.
LEMMA CheckSocketKeeps ==
    ASSUME NgeConstants, IInv, NEW out \in Outcomes, CheckSocketHup(out) PROVE IInv'
  <1> USE DEF NgeConstants
  <1>0. /\ TypeOK /\ at = 0 /\ at' = 0 /\ clock' = clock /\ sent' = sent
        /\ \A j \in Slots : Passed(j) /\ Passed(j)'
    BY DEF IInv, CheckSocketHup, Passed
  <1>1. \A i \in Slots : listeners'[i] # NONE => listeners'[i] = listeners[i]
    BY <1>0 DEF CheckSocketHup, Pinged
  <1>2. \A c \in Programs : prog'[c] = IF prog[c] = "waiting" /\ ~Reachable(sock) THEN "off" ELSE prog[c]
    BY DEF CheckSocketHup
  <1>3. TypeOK'
    <2>1. sock' \in Sockets
      BY <1>0, OpenSocketType DEF CheckSocketHup, open_initiator_socket, TypeOK
    <2>2. listeners' \in [Slots -> Programs \cup {NONE}]
      BY <1>0 DEF CheckSocketHup, Pinged, TypeOK
    <2>3. unread' \in [Programs -> Nat] /\ prog' \in [Programs -> {"off", "waiting", "up"}] /\ hups' \in Nat
      BY <1>0 DEF CheckSocketHup, TypeOK
    <2>4. is_active' \in BOOLEAN /\ reopened' \in [Programs -> BOOLEAN]
      BY <1>0 DEF CheckSocketHup, CloseInitiatorSocket, TypeOK
    <2> QED BY <1>0, <2>1, <2>2, <2>3, <2>4 DEF TypeOK
  <1>4. NothingMissed'
    <2>1. CASE sock.fd /\ ~Reachable(sock)
      <3>1. \A c \in Programs : reopened'[c]
        BY <2>1 DEF CheckSocketHup, CloseInitiatorSocket
      <3> QED BY <1>3, <3>1 DEF NothingMissed, TypeOK
    <2>2. CASE ~(sock.fd /\ ~Reachable(sock))
      <3>1. is_active' = is_active /\ reopened' = reopened
        BY <2>2 DEF CheckSocketHup
      <3> QED BY <1>0, <1>1, <1>2, <1>3, <3>1 DEF IInv, NothingMissed, TypeOK
    <2> QED BY <2>1, <2>2
  <1>5. OneSlot'
    BY <1>1 DEF IInv, OneSlot
  <1>6. WaitsOutside'
    BY <1>0, <1>1, <1>2 DEF IInv, WaitsOutside, TypeOK
  <1> QED BY <1>3, <1>4, <1>5, <1>6 DEF IInv

\* What programs do, and the loss of the socket file.
LEMMA OutsideKeeps ==
    ASSUME NgeConstants, IInv,
           LoseFile \/ \E c \in Programs : Connect(c) \/ ReadOne(c) \/ Leave(c)
    PROVE  IInv'
  <1> USE DEF NgeConstants
  <1>1. CASE LoseFile
    <2>1. sock' \in Sockets
      BY <1>1 DEF LoseFile, Sockets, IInv, TypeOK
    <2> QED BY <1>1, <2>1 DEF LoseFile, IInv, TypeOK, NothingMissed, OneSlot, WaitsOutside, Passed
  <1>2. ASSUME NEW c \in Programs, Connect(c) PROVE IInv'
    <2>1. TypeOK'
      BY <1>2 DEF Connect, IInv, TypeOK
    <2> QED BY <1>2, <2>1 DEF Connect, IInv, TypeOK, NothingMissed, OneSlot, WaitsOutside, Passed
  <1>3. ASSUME NEW c \in Programs, ReadOne(c) PROVE IInv'
    <2>1. TypeOK'
      BY <1>3 DEF ReadOne, IInv, TypeOK
    <2> QED BY <1>3, <2>1 DEF ReadOne, IInv, NothingMissed, OneSlot, WaitsOutside, Passed
  <1>4. ASSUME NEW c \in Programs, Leave(c) PROVE IInv'
    <2>1. TypeOK'
      BY <1>4 DEF Leave, IInv, TypeOK
    <2> QED BY <1>4, <2>1 DEF Leave, IInv, TypeOK, NothingMissed, OneSlot, WaitsOutside, Passed
  <1> QED BY <1>1, <1>2, <1>3, <1>4

\* Every step keeps the invariant.
LEMMA NextIInv ==
    ASSUME NgeConstants, IInv, [Next]_vars PROVE IInv'
  <1>1. CASE Next
    BY <1>1, EventKeeps, SendKeeps, AcceptKeeps, CheckSocketKeeps, OutsideKeeps DEF Next
  <1>2. CASE UNCHANGED vars
    BY <1>2 DEF vars, IInv, TypeOK, NothingMissed, OneSlot, WaitsOutside, Passed
  <1> QED BY <1>1, <1>2

\* No listener that connected since the socket was last opened misses an event, and
\* none is in two slots (send_to_all, event_acceptor, check_socket of initng_nge.c).
THEOREM ListenersMissNothing ==
    ASSUME NgeConstants PROVE Spec => [](NothingMissed /\ OneSlot)
  <1>1. Init => IInv
    BY InitIInv
  <1>2. IInv /\ [Next]_vars => IInv'
    BY NextIInv
  <1>3. IInv => NothingMissed /\ OneSlot
    BY DEF IInv
  <1> QED BY <1>1, <1>2, <1>3, PTL DEF Spec
=============================================================================
