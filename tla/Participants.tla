---------------------------- MODULE Participants ----------------------------
(***************************************************************************)
(* The threads that meet at a synchronization primitive, and the point of  *)
(* the code at which each of them is.                                      *)
(***************************************************************************)
CONSTANT Threads

VARIABLE pc     \* where each thread is
=============================================================================
