-------------------------- MODULE MCClientHandoff --------------------------
(***************************************************************************)
(* Instances of ClientHandoff for TLC.  The bounds are the number of       *)
(* workers and slots, the descriptors the process may have open at once    *)
(* and the system calls that may fail.                                     *)
(***************************************************************************)
EXTENDS ClientHandoff

TwoFds == 1 .. 2
ThreeFds == 1 .. 3

AllFaults == {"setsockopt", "write", "epoll_ctl"}
\* Without the fault that leaks the descriptor.
HandledFaults == {"write", "epoll_ctl"}

=============================================================================
