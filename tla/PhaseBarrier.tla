---------------------------- MODULE PhaseBarrier ----------------------------
(***************************************************************************)
(* What cuda::std::barrier promises: an arrival is one atomic step that    *)
(* counts down the current phase, and the arrival that exhausts the count  *)
(* resets it to the expected count and starts the next phase.  A wait      *)
(* returns once the phase of its token is over.                            *)
(***************************************************************************)
EXTENDS Integers

CONSTANTS
    Threads,
    Count,      \* the expected count given to the constructor
    Share       \* how much each thread arrives with

VARIABLES st, token, phase, remaining, expected

vars == <<st, token, phase, remaining, expected>>

Init ==
    /\ st = [p \in Threads |-> "idle"]
    /\ token = [p \in Threads |-> 0]
    /\ phase = 0
    /\ remaining = Count
    /\ expected = Count

\* u arrivals of the current phase; the next phase, if they complete this
\* one, expects e.
CountDown(u, e) ==
    /\ u <= remaining
    /\ expected' = e
    /\ IF u = remaining
       THEN remaining' = e /\ phase' = 1 - phase
       ELSE remaining' = remaining - u /\ UNCHANGED phase

Arrive(p) ==
    /\ st[p] = "idle"
    /\ CountDown(Share[p], expected)
    /\ st' = [st EXCEPT ![p] = "wait"]
    /\ token' = [token EXCEPT ![p] = phase]

ArriveAndDrop(p) ==
    /\ st[p] = "idle"
    /\ CountDown(1, expected - 1)
    /\ st' = [st EXCEPT ![p] = "dropped"]
    /\ token' = [token EXCEPT ![p] = 0]

Wait(p) ==
    /\ st[p] = "wait"
    /\ phase # token[p]
    /\ st' = [st EXCEPT ![p] = "idle"]
    /\ UNCHANGED <<token, phase, remaining, expected>>

Next == \E p \in Threads : Arrive(p) \/ ArriveAndDrop(p) \/ Wait(p)

Spec == Init /\ [][Next]_vars
=============================================================================
