----------------------------- MODULE PipeBuffer -----------------------------
(***************************************************************************)
(* The output buffer of one BUFFERED_OUT_PIPE (pipe_h of process_db.h):    *)
(* initng_io_process_read_input drains the kernel pipe of a child into     *)
(* pi->buffer, hands what is new to the modules, closes the pipe at end of *)
(* file and purges an over-long buffer.  It is entered from                *)
(* initng_io_module_poll when select() reports the descriptor, and from    *)
(* initng_kill_handler_killed_by_pid when the child has been reaped.  The  *)
(* child (and whatever it forked) writes concurrently with every step.     *)
(*                                                                         *)
(* Bytes are the positions 0, 1, 2, ... of the child's output stream, so   *)
(* a stretch of output is an interval.  The buffer holds the interval      *)
(* base .. base+len-1.  initng_toolbox_realloc never fails (it retries).   *)
(***************************************************************************)
EXTENDS Naturals

CONSTANTS
    CHUNK,      \* bytes asked for by one read() and bytes added by one realloc (100)
    LIMIT,      \* a longer buffer is purged (10000)
    KEEP,       \* bytes kept by a purge (9000)
    SHRUNK,     \* buffer_allocated after a purge (9500)
    STREAM      \* bound: bytes the child ever writes

\* What the literals of read_input.c satisfy; the purge moves KEEP < LIMIT bytes
\* inside a buffer that keeps room for their terminating NUL.
ASSUME BufferSizes ==
    /\ CHUNK \in Nat \ {0} /\ STREAM \in Nat
    /\ LIMIT \in Nat /\ KEEP \in Nat /\ SHRUNK \in Nat
    /\ 0 < KEEP /\ KEEP <= SHRUNK /\ SHRUNK <= LIMIT

VARIABLES
    written,    \* bytes the child has put into the kernel pipe so far
    hup,        \* every writer has closed its end
    consumed,   \* bytes taken out of the kernel pipe by read()
    delivered,  \* bytes handed to the EVENT_BUFFER_WATCHER hooks
    open,       \* pi->pipe[0] > 0
    base,       \* stream position of pi->buffer[0]
    len,        \* pi->buffer_len
    allocated,  \* pi->buffer_allocated
    size,       \* bytes really malloced for pi->buffer, 0 for NULL
    old,        \* old_content_offset of the running call
    closing,    \* the running call was made by the kill handler
    reaped,     \* the kill handler ran for this process
    pc          \* where the running call of read_input stands

kernel == <<written, hup>>
buffer == <<base, len, allocated, size>>
vars == <<written, hup, consumed, delivered, open, base, len, allocated, size, old, closing, reaped, pc>>

Init ==
    /\ written = 0 /\ hup = FALSE
    /\ consumed = 0 /\ delivered = 0
    /\ open = TRUE
    /\ base = 0 /\ len = 0 /\ allocated = 0 /\ size = 0
    /\ old = 0 /\ closing = FALSE /\ reaped = FALSE /\ pc = "idle"

-----------------------------------------------------------------------------
\* The child writes n bytes; it gets SIGPIPE once the read end is closed.
ChildWrite(n) ==
    /\ ~hup /\ open
    /\ written + n <= STREAM
    /\ written' = written + n
    /\ UNCHANGED <<hup, consumed, delivered, open, buffer, old, closing, reaped, pc>>

\* The last process holding the write end is gone.
ChildHangup ==
    /\ ~hup
    /\ hup' = TRUE
    /\ UNCHANGED <<written, consumed, delivered, open, buffer, old, closing, reaped, pc>>

\* A wrong version: a call hands over the whole buffer.
PollCallWhole ==
    /\ pc = "idle" /\ open
    /\ written > consumed \/ hup
    /\ old' = 0 /\ closing' = FALSE /\ pc' = "grow"
    /\ UNCHANGED <<kernel, consumed, delivered, open, buffer, reaped>>

\* select() reports the descriptor and initng_io_module_poll calls read_input.
PollCall ==
    /\ pc = "idle" /\ open
    /\ written > consumed \/ hup
    /\ old' = len /\ closing' = FALSE /\ pc' = "grow"
    /\ UNCHANGED <<kernel, consumed, delivered, open, buffer, reaped>>

\* A wrong version: the kill handler closes the pipe without reading it.
KillCallCloses ==
    /\ pc = "idle" /\ ~reaped
    /\ reaped' = TRUE /\ open' = FALSE
    /\ UNCHANGED <<kernel, consumed, delivered, buffer, old, closing, pc>>

\* initng_kill_handler_killed_by_pid reads what is left before it closes the
\* pipe.  The write end may still be held by something the child forked.
KillCall ==
    /\ pc = "idle" /\ ~reaped
    /\ reaped' = TRUE
    /\ IF open THEN old' = len /\ closing' = TRUE /\ pc' = "grow"
               ELSE UNCHANGED <<old, closing, pc>>
    /\ UNCHANGED <<kernel, consumed, delivered, open, buffer>>

\* A wrong version: no byte is allocated for the NUL.
GrowNoNul ==
    /\ pc = "grow"
    /\ IF len + CHUNK >= allocated
         THEN size' = allocated + CHUNK /\ allocated' = allocated + CHUNK
         ELSE UNCHANGED <<size, allocated>>
    /\ pc' = "read"
    /\ UNCHANGED <<kernel, consumed, delivered, open, base, len, old, closing, reaped>>

\* Head of the do loop: make room for CHUNK more characters.
Grow ==
    /\ pc = "grow"
    /\ IF len + CHUNK >= allocated
         THEN /\ size' = allocated + CHUNK + 1
              /\ allocated' = allocated + CHUNK
         ELSE UNCHANGED <<size, allocated>>
    /\ pc' = "read"
    /\ UNCHANGED <<kernel, consumed, delivered, open, base, len, old, closing, reaped>>

\* read() of up to CHUNK bytes.  A full chunk loops; a short one, nothing to
\* read (EAGAIN or EINTR, -1) and end of file (0) leave the loop.
Read ==
    /\ pc = "read"
    /\ LET avail == written - consumed
           n == IF avail < CHUNK THEN avail ELSE CHUNK
       IN /\ consumed' = consumed + n
          /\ len' = len + n
          /\ pc' = IF n = CHUNK THEN "grow"
                   ELSE IF n = 0 /\ hup THEN "eof" ELSE "drained"
    /\ UNCHANGED <<kernel, delivered, open, base, allocated, size, old, closing, reaped>>

\* initng_io_module_readpipe(.., pi->buffer + old_content_offset) when there is
\* any; the hooks read up to the NUL at buffer[len].
Deliver ==
    delivered' = IF len > old THEN delivered + (len - old) ELSE delivered

\* read() returned 0: both ends are closed and the buffer cut to its length.
EndOfFile ==
    /\ pc = "eof"
    /\ Deliver
    /\ open' = FALSE
    /\ IF len = 0
         THEN size' = 0 /\ allocated' = 0
         ELSE IF allocated > len + 1
           THEN size' = len + 1 /\ allocated' = len
           ELSE UNCHANGED <<size, allocated>>
    /\ pc' = "idle"
    /\ UNCHANGED <<kernel, consumed, base, len, old, closing, reaped>>

\* A wrong version: a long buffer is not purged.
DrainedNoPurge ==
    /\ pc = "drained"
    /\ Deliver
    /\ open' = ~closing
    /\ pc' = "idle"
    /\ UNCHANGED <<kernel, consumed, buffer, old, closing, reaped>>

\* Nothing more for now: free an empty buffer, purge an over-long one, and let
\* the kill handler close the pipe behind the call it made.
Drained ==
    /\ pc = "drained"
    /\ Deliver
    /\ IF len = 0
         THEN size' = 0 /\ allocated' = 0 /\ UNCHANGED <<base, len>>
         ELSE IF len > LIMIT
           THEN /\ base' = base + (len - KEEP)
                /\ len' = KEEP
                /\ size' = SHRUNK + 1 /\ allocated' = SHRUNK
           ELSE UNCHANGED buffer
    /\ open' = ~closing
    /\ pc' = "idle"
    /\ UNCHANGED <<kernel, consumed, old, closing, reaped>>

Next ==
    \/ \E n \in 1..STREAM : ChildWrite(n)
    \/ ChildHangup
    \/ PollCall
    \/ KillCall
    \/ Grow
    \/ Read
    \/ EndOfFile
    \/ Drained

\* The main loop keeps polling, a call runs to its end, and the child is reaped.
Fairness ==
    /\ WF_vars(PollCall) /\ WF_vars(Grow) /\ WF_vars(Read)
    /\ WF_vars(EndOfFile) /\ WF_vars(Drained)

Spec == Init /\ [][Next]_vars /\ Fairness

-----------------------------------------------------------------------------
\* Every variable keeps its type: the counters are natural numbers and the call
\* is at one of the five points the loop of read_input distinguishes.
TypeOK ==
    /\ written \in Nat /\ consumed \in Nat /\ delivered \in Nat
    /\ base \in Nat /\ len \in Nat /\ allocated \in Nat /\ size \in Nat /\ old \in Nat
    /\ hup \in BOOLEAN /\ open \in BOOLEAN /\ closing \in BOOLEAN /\ reaped \in BOOLEAN
    /\ pc \in {"idle", "grow", "read", "eof", "drained"}

\* No write leaves the allocation: when read() is called there is room for a
\* whole chunk and its NUL, and the NUL at buffer[len] is always inside.
NoOverrun ==
    /\ pc = "read" => len + CHUNK < size
    /\ size > 0 => len < size
    /\ size = 0 => len = 0

\* The modules are given the child's output exactly once and in order: what one
\* call hands over starts where the previous call stopped, whatever was purged
\* in between, and a finished call leaves nothing it has read undelivered.
DeliveredInOrder ==
    /\ base + len = consumed
    /\ pc # "idle" => base + old = delivered
    /\ pc = "idle" => delivered = consumed

\* Between two calls the buffer of an open pipe is within the purge limit and
\* the memory held for it within two chunks of it, however much one call read.
\* (A call that ends in end of file returns before the purge.)
IdleBounded ==
    pc = "idle" /\ open => len <= LIMIT /\ allocated <= LIMIT + 2 * CHUNK

\* What the three above rest on: the allocation is one byte larger than
\* buffer_allocated says, what is buffered fits in it, a call's starting offset
\* stays inside, and the allocation outruns neither the limit nor the content by
\* more than two chunks.
Allocation ==
    /\ consumed <= written
    /\ \/ size = 0 /\ allocated = 0 /\ len = 0
       \/ size = allocated + 1 /\ len <= allocated
    /\ pc # "idle" => old <= len
    /\ pc = "read" => len + CHUNK <= allocated /\ size = allocated + 1
    /\ allocated <= LIMIT + 2 * CHUNK \/ allocated <= len + 2 * CHUNK

\* The inductive invariant of the buffer.
IInv == TypeOK /\ NoOverrun /\ DeliveredInOrder /\ IdleBounded /\ Allocation

\* When the last writer goes away while no call is running and the pipe is open,
\* everything written reaches the modules, by polls or by the read the kill
\* handler makes.  (During the kill handler's own call a grandchild can still
\* write after the last read() and before the close().)
AllOutputDelivered ==
    hup /\ open /\ pc = "idle" ~> delivered = written
=============================================================================
