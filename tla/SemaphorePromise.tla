-------------------------- MODULE SemaphorePromise --------------------------
(***************************************************************************)
(* What the clients of a cuda::std semaphore rely on: its units and its    *)
(* failures.                                                               *)
(***************************************************************************)
EXTENDS Participants, Naturals, FiniteSets

CONSTANT MaxUnits   \* units in circulation of the counting semaphore

VARIABLES
    binary,         \* which of the two templates
    count,          \* __count, __available
    fresh,          \* units the signaller has not handed in yet
    held,           \* the threads that hold a unit
    zeroSeen        \* history: the count was zero at some moment of the call

Units == IF binary THEN 1 ELSE MaxUnits

\* No unit is lost and none is handed out twice: the count, the units held
\* and the units still to be handed in make up the total, whatever acquires
\* and releases overlap.
UnitsConserved == count + Cardinality(held) + fresh = Units

\* try_acquire and the timed calls "fail only if not __available": at some
\* moment of a call that fails there was no unit, and losing a race for one
\* of several is no reason to fail.
FailsOnlyIfEmpty == \A t \in Threads : pc[t] = "failed" => zeroSeen[t]
=============================================================================
