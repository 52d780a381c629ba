------------------------------ MODULE Listener ------------------------------
(***************************************************************************)
(* The listening UNIX socket that each of the modules ngcs, nge and ngc4   *)
(* keeps: a descriptor (fds, -1 when closed) and the socket file, which    *)
(* other programs may remove or replace while initng runs.  sock_stat is   *)
(* what stat() said of the file after it was bound: a file is "ours" when  *)
(* it still has that device, inode and mtime.                              *)
(***************************************************************************)

Closed == [fd |-> FALSE, file |-> "none"]
Sockets == [fd : BOOLEAN, file : {"none", "ours", "other"}]

\* How the system calls of open_socket end.
Outcomes == {"socket", "bind", "chmod", "listen", "ok"}

\* closesock: the file stays.
CloseSock(s) == [s EXCEPT !.fd = FALSE]

\* open_socket: close, socket(), unlink(), bind(), chmod(), stat(), listen().  A
\* failing bind or listen removes the file, a failing chmod leaves it.
OpenSocket(s, out) ==
    CASE out = "socket" -> CloseSock(s)
      [] out = "bind"   -> Closed
      [] out = "chmod"  -> [fd |-> FALSE, file |-> "other"]
      [] out = "listen" -> Closed
      [] out = "ok"     -> [fd |-> TRUE, file |-> "ours"]

\* check_socket: nothing to do for an open descriptor whose file is still ours.
CheckSocket(s, out) == IF s.fd /\ s.file = "ours" THEN s ELSE OpenSocket(s, out)

\* Clients can connect: somebody listens behind the file.
Reachable(s) == s.fd /\ s.file = "ours"
=============================================================================
