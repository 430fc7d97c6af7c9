----------------------------- MODULE MCWhenAll -----------------------------
(***************************************************************************)
(* WhenAll with two children of any kind.                                  *)
(***************************************************************************)
EXTENDS WhenAll

CONSTANTS c1, c2

MCChildOrder == <<c1, c2>>
MCThreads == {c1, c2, Starter, Stopper}
MCCallbacks == {c1, c2, OnStop}
MCSources == {Outer, Inner}
MCSourceOf == [c \in MCCallbacks |-> IF c = OnStop THEN Outer ELSE Inner]
=============================================================================
