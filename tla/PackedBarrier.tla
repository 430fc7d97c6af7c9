--------------------------- MODULE PackedBarrier ---------------------------
(***************************************************************************)
(* __barrier_base<__empty_completion>: the barrier without a completion    *)
(* function, packed into one 64-bit atomic word.                           *)
(*                                                                         *)
(* The upper half of the word holds the phase bit and, below it, the count *)
(* of arrivals; the lower half holds the expected count.  Both counts are  *)
(* biased: they start at Half - Count and run up to Half, so that the      *)
(* arrival that completes a phase carries into the phase bit.  That        *)
(* arrival leaves the count at zero, and its thread re-arms it with a      *)
(* second fetch_add.  Between the two the barrier is in use: the threads   *)
(* it released may already arrive at the next phase.                       *)
(*                                                                         *)
(* If DropsComplete is FALSE the program sees to it that the arrival that  *)
(* completes a phase is never one of arrive_and_drop.                      *)
(***************************************************************************)
EXTENDS PackedWord

CONSTANT DropsComplete  \* whether arrive_and_drop may complete a phase

ASSUME DropsAssumption == DropsComplete \in BOOLEAN

vars == <<upper, lower, pc, token, rearm, round>>

\* "drop" lies between the two fetch_adds of arrive_and_drop, "rearm" and
\* "rearm_drop" between the two of arrive.
Locations == {"idle", "drop", "rearm", "rearm_drop", "wait", "dropped"}

\* fetch_add on the upper half: the carry out of the word is lost.
Add(u) == IF upper + u >= 2 * Half THEN upper + u - 2 * Half ELSE upper + u

Flips_new_bit(u) == Add(u) >= Half

Flips_upwards(u) == Add(u) >= Half /\ upper < Half

\* (__old ^ (__old + __inc)) & __phase_bit
Flips(u) == (Add(u) >= Half) # (upper >= Half)

Init ==
    /\ upper = Half - Count
    /\ lower = Half - Count
    /\ pc = [p \in Threads |-> "idle"]
    /\ token = [p \in Threads |-> 0]
    /\ rearm = [p \in Threads |-> 0]
    /\ round = [p \in Threads |-> 0]

-----------------------------------------------------------------------------
(* The client.                                                             *)

\* Participants whose arrival the current phase still waits for.
Missing ==
    {p \in Threads : \/ pc[p] \in {"idle", "drop"}
                     \/ pc[p] \in {"wait", "rearm"} /\ token[p] # PhaseBit}

\* Some thread other than p is missing and is not about to drop.
SomeoneStays(p) == \E q \in Missing \ {p} : pc[q] # "drop"

-----------------------------------------------------------------------------
\* The first fetch_add of arrive, which decides who re-arms: p continues at
\* next, or at re if it completed the phase.
FetchAdd(p, u, next, re) ==
    /\ upper' = Add(u)
    /\ token' = [token EXCEPT ![p] = PhaseBit]
    /\ round' = [round EXCEPT ![p] = @ + 1]
    /\ IF Flips(u)
       THEN /\ pc' = [pc EXCEPT ![p] = re]
            /\ rearm' = [rearm EXCEPT ![p] = lower]
       ELSE /\ pc' = [pc EXCEPT ![p] = next]
            /\ UNCHANGED rearm
    /\ UNCHANGED lower

\* arrive(Share[p]), up to its first fetch_add.
Arrive(p) ==
    /\ pc[p] = "idle"
    /\ round[p] < MaxRounds
    /\ DropsComplete \/ SomeoneStays(p) \/ Missing = {p}
    /\ FetchAdd(p, Share[p], "wait", "rearm")

\* arrive_and_drop lowers the expected count first ...
Drop(p) ==
    /\ pc[p] = "idle"
    /\ p \in Droppers
    /\ round[p] < MaxRounds
    /\ DropsComplete \/ SomeoneStays(p)
    /\ lower' = lower + 1
    /\ pc' = [pc EXCEPT ![p] = "drop"]
    /\ UNCHANGED <<upper, token, rearm, round>>

\* ... and then arrives.
DropArrive(p) ==
    /\ pc[p] = "drop"
    /\ FetchAdd(p, 1, "dropped", "rearm_drop")

Rearm_store(p) ==
    /\ pc[p] \in {"rearm", "rearm_drop"}
    /\ upper' = PhaseBit * Half + rearm[p]
    /\ pc' = [pc EXCEPT ![p] = IF @ = "rearm" THEN "wait" ELSE "dropped"]
    /\ UNCHANGED <<lower, token, rearm, round>>

Rearm_reload(p) ==
    /\ pc[p] \in {"rearm", "rearm_drop"}
    /\ upper' = Add(lower)
    /\ pc' = [pc EXCEPT ![p] = IF @ = "rearm" THEN "wait" ELSE "dropped"]
    /\ UNCHANGED <<lower, token, rearm, round>>

\* The second fetch_add of arrive: the expected count that was read by the
\* first one is added to the arrivals.
Rearm(p) ==
    /\ pc[p] \in {"rearm", "rearm_drop"}
    /\ upper' = Add(rearm[p])
    /\ pc' = [pc EXCEPT ![p] = IF @ = "rearm" THEN "wait" ELSE "dropped"]
    /\ UNCHANGED <<lower, token, rearm, round>>

\* wait polls until the phase bit differs from the token's.
Wait(p) ==
    /\ pc[p] = "wait"
    /\ PhaseBit # token[p]
    /\ pc' = [pc EXCEPT ![p] = "idle"]
    /\ UNCHANGED <<upper, lower, token, rearm, round>>

\* The poll of a wait whose phase is not over.
Spin(p) ==
    /\ pc[p] = "wait"
    /\ PhaseBit = token[p]
    /\ UNCHANGED vars

\* Every thread is through with the barrier.
Finished(p) == pc[p] = "dropped" \/ (pc[p] = "idle" /\ round[p] = MaxRounds)

Terminated ==
    /\ \A p \in Threads : Finished(p)
    /\ UNCHANGED vars

Step(p) == Arrive(p) \/ Drop(p) \/ DropArrive(p) \/ Rearm(p) \/ Wait(p) \/ Spin(p)

Next == (\E p \in Threads : Step(p)) \/ Terminated

Spec == Init /\ [][Next]_vars

\* A thread that is not blocked keeps running, and a participant does not
\* stay away from a barrier that others wait at.
FairSpec == Spec /\ \A p \in Threads : WF_vars(Step(p))

-----------------------------------------------------------------------------
(* The inductive invariant.                                                *)

TypeOK ==
    /\ WordInRange
    /\ pc \in [Threads -> Locations]
    /\ token \in [Threads -> {0, 1}]
    /\ round \in [Threads -> Nat]

Active == {p \in Threads : pc[p] \in {"idle", "wait", "rearm"}}

\* The counts in the word, with a pending re-arm added, are the weights of the
\* missing and of the participating threads.
CountsMatch ==
    /\ Rearming = {} => Arrived + Weight(Missing) = Half
    /\ \A p \in Rearming : Arrived + rearm[p] + Weight(Missing) = Half
    /\ lower + Weight(Active) = Half

\* arrive_and_drop arrives for one, and so must its thread.
DropsOne == \A p \in Threads : pc[p] = "drop" => p \in Droppers

\* The one thread that may be about to re-arm stays and is itself missing in
\* the phase it started, so the phase cannot be over before it has re-armed.
RearmingStays ==
    /\ \A p \in Rearming : pc[p] = "rearm" /\ token[p] # PhaseBit /\ rearm[p] >= 1
    /\ \A p, q \in Rearming : p = q

\* The missing threads are level, and the others one arrival ahead of them.
RoundsMatch ==
    /\ \A p, q \in Missing : round[p] = round[q]
    /\ \A p \in Missing, q \in Threads \ (Gone \union Missing) : round[q] = round[p] + 1

\* Every phase still waits for a thread that stays.
SomeoneMissing == \E p \in Missing : pc[p] # "drop"

IInv ==
    /\ TypeOK
    /\ CountsMatch
    /\ DropsOne
    /\ RearmingStays
    /\ RoundsMatch
    /\ SomeoneMissing

-----------------------------------------------------------------------------
\* Every thread gets through all its phases: no wait, and no arrival behind a
\* pending re-arm, blocks for ever.
AllFinish == <>[](\A p \in Threads : Finished(p))

\* Arrivals that are missing in the current phase, counting a pending re-arm
\* as done.
Remaining ==
    Half - Arrived - (IF Rearming = {} THEN 0 ELSE rearm[CHOOSE p \in Rearming : TRUE])

Position(p) ==
    CASE pc[p] \in {"idle", "drop"}  -> "idle"
      [] pc[p] \in {"wait", "rearm"} -> "wait"
      [] OTHER                       -> "dropped"

Implemented == INSTANCE PhaseBarrier WITH
    st <- [p \in Threads |-> Position(p)],
    phase <- PhaseBit,
    remaining <- Remaining,
    expected <- Expected,
    token <- [p \in Threads |-> IF p \in Gone THEN 0 ELSE token[p]]

\* The packed barrier implements PhaseBarrier: an arrival takes effect with
\* its first fetch_add, however late its re-arm comes.
ImplementsPhaseBarrier == Implemented!Spec
=============================================================================
