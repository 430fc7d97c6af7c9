-------------------------- MODULE MCPackedBarrier ---------------------------
(* Instances of PackedBarrier: three threads, one of which arrives on behalf *)
(* of two, or threads that each arrive for themselves.                       *)
EXTENDS PackedBarrier, TLC

CONSTANTS t1, t2, t3

MCShare == (t1 :> 2) @@ (t2 :> 1) @@ (t3 :> 1)

UnitShare == [p \in Threads |-> 1]
=============================================================================
