----------------------------- MODULE PackedWord -----------------------------
(***************************************************************************)
(* The word of __barrier_base<__empty_completion>, and what its clients    *)
(* rely on.                                                                *)
(***************************************************************************)
EXTENDS BarrierClient

CONSTANT Half       \* 2^31: the weight of the phase bit within the upper half

ASSUME HalfAssumption == Half \in Nat /\ Count < Half

VARIABLES
    upper,          \* upper half of __phase_arrived_expected: phase bit, arrived
    lower,          \* lower half: expected
    rearm           \* the increment a thread is about to re-arm with

\* The phase bit, and the upper half with the phase bit taken off.
PhaseBit == IF upper >= Half THEN 1 ELSE 0
Arrived == IF upper >= Half THEN upper - Half ELSE upper

Gone == {p \in Threads : pc[p] \in {"rearm_drop", "dropped"}}

Rearming == {p \in Threads : pc[p] \in {"rearm", "rearm_drop"}}

\* The expected count of the phase in progress: a thread halfway through
\* arrive_and_drop still has to arrive.
Expected == Half - lower + Cardinality({p \in Threads : pc[p] = "drop"})

\* The values the two halves and a pending increment can take.
WordInRange ==
    /\ upper \in 0 .. 2 * Half - 1
    /\ lower \in 0 .. Half
    /\ rearm \in [Threads -> 0 .. Half]

-----------------------------------------------------------------------------
(* Properties.                                                             *)

\* However late the second fetch_add of a completing arrive comes, and however
\* many threads it released have arrived at the next phase in between, the
\* expected count it adds does not carry into the phase bit: it re-arms the
\* phase in progress and never ends it.
RearmFits == \A p \in Rearming : Arrived + rearm[p] < Half

\* A thread that has come out of its n-th wait is never ahead of another
\* participant: everyone who has not dropped has arrived n times as well,
\* although a phase is completed, re-armed and left by different threads.
NoEarlyRelease ==
    \A p, q \in Threads \ Gone : pc[p] = "idle" => round[p] <= round[q]

\* No participant gets a whole phase ahead either, so that the single phase
\* bit a token carries is enough to tell the phases apart.
NoLapping ==
    \A p, q \in Threads \ Gone : round[p] <= round[q] + 1

\* "When the completion step finishes, the expected count is reset to what was
\* specified by the expected argument to the constructor, possibly adjusted by
\* calls to arrive_and_drop, and the next phase starts": when no arrival is
\* halfway, the phase needs at least one arrival and at most that many.
CountReset ==
    Rearming = {} /\ Gone # Threads => Half - Arrived \in 1 .. Expected

\* A released thread stays released: the phase bit does not turn back to the
\* bit of a token whose holder has not yet been scheduled to see it turn.
NoMissedPhase ==
    [][\A p \in Threads :
         pc[p] = "wait" /\ PhaseBit # token[p] /\ pc'[p] = "wait" => PhaseBit' # token'[p]
      ]_<<upper, pc, token>>
=============================================================================
