----------------------------- MODULE MCRunLoop -----------------------------
(***************************************************************************)
(* RunLoop with two producers: the continuation of the first schedules     *)
(* another operation, the second starts its operation twice.               *)
(***************************************************************************)
EXTENDS RunLoop, TLC

CONSTANTS p1, p2, c1

MCProducers == {p1, p2}
MCRounds == p1 :> 1 @@ p2 :> 2
MCThen == p1 :> c1 @@ p2 :> Null
=============================================================================
