-------------------------- MODULE PipeBufferProofs --------------------------
(***************************************************************************)
(* Proofs about the output buffer of a child process for every chunk size, *)
(* purge limit and length of output: no write leaves the allocation, the   *)
(* modules get the output once and in order, and the memory held between   *)
(* two calls is bounded.                                                   *)
(***************************************************************************)
EXTENDS PipeBuffer, TLAPS

\* The invariant holds when initng_process_db_pipe_new has made the pipe.
LEMMA InitIInv == Init => IInv
<1> SUFFICES ASSUME Init PROVE IInv
  OBVIOUS
<1>1. TypeOK
  BY DEF Init, TypeOK
<1>2. NoOverrun /\ DeliveredInOrder /\ IdleBounded /\ Allocation
  BY BufferSizes DEF Init, NoOverrun, DeliveredInOrder, IdleBounded, Allocation
<1> QED
  BY <1>1, <1>2 DEF IInv

\* Every step of the child, of poll(), of the kill handler and of
\* initng_io_process_read_input preserves the invariant.
LEMMA NextIInv == IInv /\ [Next]_vars => IInv'
<1> DEFINE Rest == NoOverrun /\ DeliveredInOrder /\ IdleBounded /\ Allocation
<1> SUFFICES ASSUME TypeOK, Rest, [Next]_vars PROVE TypeOK' /\ Rest'
  BY DEF IInv
<1> USE BufferSizes
<1>1. ASSUME NEW n \in 1..STREAM, ChildWrite(n) PROVE TypeOK' /\ Rest'
  <2>1. TypeOK'
    BY <1>1 DEF TypeOK, ChildWrite, buffer
  <2>2. Rest'
    BY <1>1 DEF TypeOK, NoOverrun, DeliveredInOrder, IdleBounded, Allocation, ChildWrite, buffer
  <2> QED
    BY <2>1, <2>2
<1>2. CASE ChildHangup
  <2>1. TypeOK'
    BY <1>2 DEF TypeOK, ChildHangup, buffer
  <2>2. Rest'
    BY <1>2 DEF TypeOK, NoOverrun, DeliveredInOrder, IdleBounded, Allocation, ChildHangup, buffer
  <2> QED
    BY <2>1, <2>2
<1>3. CASE PollCall
  <2>1. TypeOK'
    BY <1>3 DEF TypeOK, PollCall, buffer, kernel
  <2>2. Rest'
    BY <1>3 DEF TypeOK, NoOverrun, DeliveredInOrder, IdleBounded, Allocation, PollCall, buffer, kernel
  <2> QED
    BY <2>1, <2>2
<1>4. CASE KillCall
  <2>1. TypeOK'
    BY <1>4 DEF TypeOK, KillCall, buffer, kernel
  <2>2. Rest'
    BY <1>4 DEF TypeOK, NoOverrun, DeliveredInOrder, IdleBounded, Allocation, KillCall, buffer, kernel
  <2> QED
    BY <2>1, <2>2
<1>5. CASE Grow
  <2>1. TypeOK'
    BY <1>5 DEF TypeOK, Grow, kernel
  <2>2. Rest'
    BY <1>5 DEF TypeOK, NoOverrun, DeliveredInOrder, IdleBounded, Allocation, Grow, kernel
  <2> QED
    BY <2>1, <2>2
<1>6. CASE Read
  <2>1. TypeOK'
    BY <1>6 DEF TypeOK, Allocation, Read, kernel
  <2>2. Rest'
    BY <1>6 DEF TypeOK, NoOverrun, DeliveredInOrder, IdleBounded, Allocation, Read, kernel
  <2> QED
    BY <2>1, <2>2
<1>7. CASE EndOfFile
  <2>1. TypeOK'
    <3>1. /\ base' \in Nat /\ len' \in Nat /\ allocated' \in Nat /\ size' \in Nat
          /\ delivered' \in Nat
      BY <1>7 DEF TypeOK, Allocation, EndOfFile, Deliver, kernel
    <3>2. /\ UNCHANGED <<written, consumed, hup, old, closing, reaped>>
          /\ open' \in BOOLEAN /\ pc' = "idle"
      BY <1>7 DEF TypeOK, EndOfFile, Deliver, kernel
    <3> QED
      BY <3>1, <3>2 DEF TypeOK
  <2>2. Rest'
    BY <1>7 DEF TypeOK, NoOverrun, DeliveredInOrder, IdleBounded, Allocation, EndOfFile, Deliver, kernel
  <2> QED
    BY <2>1, <2>2
<1>8. CASE Drained
  <2>1. TypeOK'
    <3>1. /\ base' \in Nat /\ len' \in Nat /\ allocated' \in Nat /\ size' \in Nat
          /\ delivered' \in Nat
      BY <1>8 DEF TypeOK, Allocation, Drained, Deliver, kernel, buffer
    <3>2. /\ UNCHANGED <<written, consumed, hup, old, closing, reaped>>
          /\ open' \in BOOLEAN /\ pc' = "idle"
      BY <1>8 DEF TypeOK, Drained, Deliver, kernel, buffer
    <3> QED
      BY <3>1, <3>2 DEF TypeOK
  <2>2. Rest'
    BY <1>8 DEF TypeOK, NoOverrun, DeliveredInOrder, IdleBounded, Allocation, Drained, Deliver, kernel, buffer
  <2> QED
    BY <2>1, <2>2
<1>9. CASE UNCHANGED vars
  BY <1>9 DEF vars, TypeOK, NoOverrun, DeliveredInOrder, IdleBounded, Allocation
<1> QED
  BY <1>1, <1>2, <1>3, <1>4, <1>5, <1>6, <1>7, <1>8, <1>9 DEF Next

\* The invariant is one of the whole specification.
THEOREM Invariance == Spec => []IInv
  BY InitIInv, NextIInv, PTL DEF Spec

\* No read() and no terminating NUL of read_input.c ever lands outside the
\* memory realloc returned, for any chunk size, limit and amount of output.
THEOREM BufferNeverOverrun == Spec => []NoOverrun
<1>1. IInv => NoOverrun
  BY DEF IInv
<1> QED
  BY <1>1, Invariance, PTL

\* The EVENT_BUFFER_WATCHER hooks see the child's output exactly once and in
\* order, across chunks, calls and purges.
THEOREM OutputDeliveredInOrder == Spec => []DeliveredInOrder
<1>1. IInv => DeliveredInOrder
  BY DEF IInv
<1> QED
  BY <1>1, Invariance, PTL

\* The memory an open pipe holds between two calls is bounded by the purge limit.
THEOREM MemoryBoundedBetweenCalls == Spec => []IdleBounded
<1>1. IInv => IdleBounded
  BY DEF IInv
<1> QED
  BY <1>1, Invariance, PTL
=============================================================================
