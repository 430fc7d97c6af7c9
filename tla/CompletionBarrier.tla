------------------------- MODULE CompletionBarrier --------------------------
(***************************************************************************)
(* __barrier_base<_CompletionF>: the barrier with a completion function.   *)
(* The expected count, the arrivals still missing and the phase are three  *)
(* atomics of their own, and arrive is a sequence of separate accesses to  *)
(* them.  The thread whose arrival brings __arrived to zero runs the       *)
(* completion function, resets __arrived and only then turns __phase, so   *)
(* that no released thread meets a count that has not been reset.          *)
(***************************************************************************)
EXTENDS BarrierClient

VARIABLES
    expected, arrived, phase,   \* the barrier's atomics
    completions,                \* history: how often __completion has run
    leaving,                    \* the threads inside or past arrive_and_drop
    old_phase, new_expected     \* the locals of arrive

vars == <<expected, arrived, phase, completions, pc, leaving,
          old_phase, new_expected, token, round>>

Init ==
    /\ expected = Count
    /\ arrived = Count
    /\ phase = 0
    /\ completions = 0
    /\ pc = [p \in Threads |-> "idle"]
    /\ leaving = {}
    /\ old_phase = [p \in Threads |-> 0]
    /\ new_expected = [p \in Threads |-> 0]
    /\ token = [p \in Threads |-> 0]
    /\ round = [p \in Threads |-> 0]

Goto(p, l) == pc' = [pc EXCEPT ![p] = l]

Update(p) == IF p \in leaving THEN 1 ELSE Share[p]

\* Where arrive returns to.
Returned(p) == IF p \in leaving THEN "dropped" ELSE "wait"

-----------------------------------------------------------------------------
\* The client calls arrive ...
CallArrive(p) ==
    /\ pc[p] = "idle"
    /\ round[p] < MaxRounds
    /\ Goto(p, "arrive")
    /\ UNCHANGED <<expected, arrived, phase, completions, leaving, old_phase,
                   new_expected, token, round>>

Drop_keeps_expected(p) ==
    /\ pc[p] = "idle"
    /\ p \in Droppers
    /\ round[p] < MaxRounds
    /\ leaving' = leaving \union {p}
    /\ Goto(p, "arrive")
    /\ UNCHANGED <<expected, arrived, phase, completions, old_phase, new_expected, token, round>>

\* ... or arrive_and_drop, which lowers the expected count and then arrives.
Drop(p) ==
    /\ pc[p] = "idle"
    /\ p \in Droppers
    /\ round[p] < MaxRounds
    /\ expected' = expected - 1
    /\ leaving' = leaving \union {p}
    /\ Goto(p, "arrive")
    /\ UNCHANGED <<arrived, phase, completions, old_phase, new_expected, token, round>>

LoadPhase(p) ==
    /\ pc[p] = "arrive"
    /\ old_phase' = [old_phase EXCEPT ![p] = phase]
    /\ Goto(p, "fetch_sub")
    /\ UNCHANGED <<expected, arrived, phase, completions, leaving, new_expected, token, round>>

FetchSub_turns_phase(p) ==
    /\ pc[p] = "fetch_sub"
    /\ arrived' = arrived - Update(p)
    /\ round' = [round EXCEPT ![p] = @ + 1]
    /\ IF arrived' = 0
       THEN Goto(p, "last_load_expected") /\ phase' = 1 - phase /\ UNCHANGED token
       ELSE /\ Goto(p, "load_expected")
            /\ token' = [token EXCEPT ![p] = IF p \in leaving THEN 0 ELSE old_phase[p]]
            /\ UNCHANGED phase
    /\ UNCHANGED <<expected, completions, leaving, old_phase, new_expected>>

\* The arrival takes effect; its result tells the last one of the phase.
FetchSub(p) ==
    /\ pc[p] = "fetch_sub"
    /\ arrived' = arrived - Update(p)
    /\ round' = [round EXCEPT ![p] = @ + 1]
    /\ IF arrived' = 0
       THEN Goto(p, "last_load_expected") /\ UNCHANGED token
       ELSE /\ Goto(p, "load_expected")
            /\ token' = [token EXCEPT ![p] = IF p \in leaving THEN 0 ELSE old_phase[p]]
    /\ UNCHANGED <<expected, phase, completions, leaving, old_phase, new_expected>>

LoadExpected(p) ==
    /\ pc[p] \in {"load_expected", "last_load_expected"}
    /\ new_expected' = [new_expected EXCEPT ![p] = expected]
    /\ Goto(p, IF pc[p] = "load_expected" THEN Returned(p) ELSE "completion")
    /\ UNCHANGED <<expected, arrived, phase, completions, leaving, old_phase, token, round>>

Completion(p) ==
    /\ pc[p] = "completion"
    /\ completions' = completions + 1
    /\ Goto(p, "store_arrived")
    /\ UNCHANGED <<expected, arrived, phase, leaving, old_phase, new_expected, token, round>>

StoreArrived_initial(p) ==
    /\ pc[p] = "store_arrived"
    /\ arrived' = Count
    /\ Goto(p, "store_phase")
    /\ UNCHANGED <<expected, phase, completions, leaving, old_phase, new_expected, token, round>>

StoreArrived(p) ==
    /\ pc[p] = "store_arrived"
    /\ arrived' = new_expected[p]
    /\ Goto(p, "store_phase")
    /\ UNCHANGED <<expected, phase, completions, leaving, old_phase, new_expected, token, round>>

\* The release store that lets the waiters go; notify_all is a no-op here,
\* since a wait polls.
StorePhase(p) ==
    /\ pc[p] = "store_phase"
    /\ phase' = 1 - old_phase[p]
    /\ token' = [token EXCEPT ![p] = IF p \in leaving THEN 0 ELSE old_phase[p]]
    /\ Goto(p, Returned(p))
    /\ UNCHANGED <<expected, arrived, completions, leaving, old_phase, new_expected, round>>

Wait(p) ==
    /\ pc[p] = "wait"
    /\ phase # token[p]
    /\ Goto(p, "idle")
    /\ UNCHANGED <<expected, arrived, phase, completions, leaving, old_phase,
                   new_expected, token, round>>

\* The poll of a wait whose phase is not over.
Spin(p) ==
    /\ pc[p] = "wait"
    /\ phase = token[p]
    /\ UNCHANGED vars

Finished(p) == pc[p] = "dropped" \/ (pc[p] = "idle" /\ round[p] = MaxRounds)

Terminated ==
    /\ \A p \in Threads : Finished(p)
    /\ UNCHANGED vars

Step(p) ==
    \/ CallArrive(p) \/ Drop(p)
    \/ LoadPhase(p) \/ FetchSub(p) \/ LoadExpected(p)
    \/ Completion(p) \/ StoreArrived(p) \/ StorePhase(p)
    \/ Wait(p) \/ Spin(p)

Next == (\E p \in Threads : Step(p)) \/ Terminated

Spec == Init /\ [][Next]_vars

\* A thread that is not blocked keeps running, and a participant does not
\* stay away from a barrier that others wait at.
FairSpec == Spec /\ \A p \in Threads : WF_vars(Step(p))

-----------------------------------------------------------------------------
(* Properties.                                                             *)

Completing(p) ==
    pc[p] \in {"last_load_expected", "completion", "store_arrived", "store_phase"}

\* The completion function of phase n runs after everyone who takes part in
\* the phase has arrived at it and before anyone comes out of it, and it runs
\* once: whoever waits for the phase sees its effects, nobody races with it.
CompletionBetween ==
    \A p \in Threads :
        /\ p \notin leaving => completions <= round[p]
        /\ pc[p] = "idle" => completions = round[p]

\* Every thread gets through all its phases.
AllFinish == <>[](\A p \in Threads : Finished(p))

-----------------------------------------------------------------------------
(* Why the barrier is right: the inductive invariant.                      *)

TypeOK ==
    /\ expected \in Nat /\ arrived \in Nat /\ completions \in Nat
    /\ phase \in {0, 1}
    /\ pc \in [Threads -> {"idle", "arrive", "fetch_sub", "load_expected", "wait", "dropped",
                           "last_load_expected", "completion", "store_arrived", "store_phase"}]
    /\ leaving \subseteq Threads
    /\ old_phase \in [Threads -> {0, 1}] /\ token \in [Threads -> {0, 1}]
    /\ new_expected \in [Threads -> Nat]
    /\ round \in [Threads -> Nat]

\* The threads that the current phase still waits for, the ones not yet out
\* of the phase before included.
Missing ==
    {p \in Threads : \/ pc[p] \in {"idle", "arrive", "fetch_sub"}
                     \/ /\ pc[p] \in {"load_expected", "wait"}
                        /\ p \notin leaving
                        /\ token[p] # phase}

Leaving ==
    \A p \in Threads :
        /\ p \in leaving => p \in Droppers /\ pc[p] \notin {"idle", "wait"}
        /\ pc[p] = "dropped" => p \in leaving

CountsMatch ==
    /\ expected = Weight(Threads \ leaving)
    /\ arrived = IF \E p \in Threads : pc[p] = "store_phase" THEN expected ELSE Weight(Missing)

\* One thread completes a phase, and nobody is missing while it does.
OneCompletes ==
    \A p \in Threads : Completing(p) =>
        /\ Missing = {}
        /\ \A q \in Threads : Completing(q) => q = p

LocalsCurrent ==
    \A p \in Threads :
        /\ pc[p] = "fetch_sub" \/ Completing(p) => old_phase[p] = phase
        /\ pc[p] \in {"completion", "store_arrived"} => new_expected[p] = expected

\* Whether the completion function of the current phase has run.
HasRun == \E p \in Threads : pc[p] \in {"store_arrived", "store_phase"}

RoundsMatch ==
    \A p \in Threads \ leaving :
        round[p] = IF p \in Missing \/ HasRun THEN completions ELSE completions + 1

IInv ==
    /\ TypeOK
    /\ Leaving
    /\ CountsMatch
    /\ OneCompletes
    /\ LocalsCurrent
    /\ RoundsMatch

-----------------------------------------------------------------------------
(* The barrier as a PhaseBarrier.  An arrival takes effect with its        *)
(* fetch_sub, the last one of a phase only with its store to __phase.      *)

Lasts == {p \in Threads : Completing(p)}

Outside == {p \in Threads : Completing(p) \/ pc[p] \in {"idle", "arrive", "fetch_sub"}}

Position(p) ==
    CASE p \in Outside -> "idle"
      [] p \in leaving \ Outside -> "dropped"
      [] OTHER -> "wait"

Remaining == IF Lasts = {} THEN arrived ELSE Update(CHOOSE p \in Lasts : TRUE)

Implemented == INSTANCE PhaseBarrier WITH
    st <- [p \in Threads |-> Position(p)],
    remaining <- Remaining,
    expected <- expected + Cardinality(leaving \intersect Outside)

\* The barrier implements PhaseBarrier: what its clients see is a phase that
\* counts down in single steps, whatever the interleaving of the accesses.
ImplementsPhaseBarrier == Implemented!Spec
=============================================================================
