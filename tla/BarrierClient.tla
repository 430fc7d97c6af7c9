--------------------------- MODULE BarrierClient ----------------------------
(***************************************************************************)
(* The program around a cuda::std::barrier of either template: the count   *)
(* is divided among the threads, and each arrives once per phase with its  *)
(* share, waits with the token it got, and arrives again, up to MaxRounds  *)
(* times, or leaves with arrive_and_drop.                                  *)
(***************************************************************************)
EXTENDS Participants, Integers, FiniteSets

CONSTANTS
    Count,          \* the expected count given to the constructor
    Share,          \* the argument with which each thread calls arrive
    Droppers,       \* the threads that may call arrive_and_drop
    MaxRounds       \* bound: how often a thread arrives

ASSUME CountAssumption == Count \in Nat \ {0}
ASSUME ShareAssumption == Share \in [Threads -> 1 .. Count]
ASSUME DroppersAssumption == Droppers \subseteq {p \in Threads : Share[p] = 1}
ASSUME ThreadsAssumption == IsFiniteSet(Threads)
ASSUME BoundAssumption == MaxRounds \in Nat

\* The arrivals that the threads of S make in one phase, one pair for each.
Arrivals(S) == {a \in S \X (1 .. Count) : a[2] <= Share[a[1]]}

Weight(S) == Cardinality(Arrivals(S))

\* The client's side of the contract: the shares add up to the count.
ASSUME SharesAssumption == Weight(Threads) = Count

VARIABLES
    token,          \* the arrival_token a thread holds: a phase bit
    round           \* history: how often the thread has arrived
=============================================================================
