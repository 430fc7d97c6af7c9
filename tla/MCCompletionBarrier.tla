------------------------ MODULE MCCompletionBarrier -------------------------
(* An instance of CompletionBarrier: three threads, one of which arrives on  *)
(* behalf of two.                                                            *)
EXTENDS CompletionBarrier, TLC

CONSTANTS t1, t2, t3

MCShare == (t1 :> 2) @@ (t2 :> 1) @@ (t3 :> 1)
=============================================================================
