----------------------- MODULE SynchronizationProofs ------------------------
(***************************************************************************)
(* The synchronization primitives of cuda::std: the barrier with a         *)
(* completion function, the barrier packed in one word, and the            *)
(* semaphores.                                                             *)
(*                                                                         *)
(* Both barriers are barriers, and the function of the first runs between  *)
(* the phases, for every number of threads, every division of the count    *)
(* into shares and every number of rounds; the second for every width of   *)
(* the count, if no arrive_and_drop is the arrival that completes a        *)
(* phase.  Both semaphores conserve their units, and a                     *)
(* call that may fail does so only if it met the semaphore empty, for      *)
(* every set of threads, every maximum, every number of calls and every    *)
(* polling count.                                                          *)
(*                                                                         *)
(* The three are systems of their own: no theorem is about two of them.    *)
(* Packed! and Sem! name the definitions of the latter two; PackedWord and *)
(* SemaphorePromise state what their clients rely on.                      *)
(***************************************************************************)
EXTENDS CompletionBarrier, PackedWord, SemaphorePromise, FiniteSetTheorems, TLAPS

CONSTANTS
    DropsComplete,                      \* of PackedBarrier
    Calls, ZeroCallers, PollingCount    \* of Semaphore

VARIABLES
    op, old, polls, expired, calls      \* of Semaphore

Packed == INSTANCE PackedBarrier
Sem == INSTANCE Semaphore


-----------------------------------------------------------------------------
(* Adding up shares.                                                       *)

\* The shares of a set of threads add up to a number.
LEMMA WeightType ==
    ASSUME NEW S \in SUBSET Threads
    PROVE  IsFiniteSet(Arrivals(S)) /\ Weight(S) \in Nat
<1>1. IsFiniteSet(S) /\ IsFiniteSet(1 .. Count)
  BY ThreadsAssumption, CountAssumption, FS_Subset, FS_Interval
<1>2. IsFiniteSet(S \X (1 .. Count))
  BY <1>1, FS_Product
<1>3. Arrivals(S) \in SUBSET (S \X (1 .. Count))
  BY DEF Arrivals
<1>4. IsFiniteSet(Arrivals(S))
  BY <1>2, <1>3, FS_Subset
<1> QED
  BY <1>4, FS_CardinalityType DEF Weight

\* A thread adds its share to the sum.
LEMMA WeightRemove ==
    ASSUME NEW S \in SUBSET Threads, NEW p \in S
    PROVE  Weight(S) = Weight(S \ {p}) + Share[p]
<1> DEFINE own == {p} \X (1 .. Share[p])
           rest == Arrivals(S \ {p})
<1>1. Share[p] \in 1 .. Count /\ Count \in Nat
  BY ShareAssumption, CountAssumption
<1>2. Arrivals(S) = rest \union own
  BY <1>1 DEF Arrivals
<1>3. rest \intersect own = {}
  BY DEF Arrivals
<1>4. IsFiniteSet({p}) /\ Cardinality({p}) = 1
  BY FS_Singleton
<1>5. IsFiniteSet(1 .. Share[p]) /\ Cardinality(1 .. Share[p]) = Share[p]
  <2>1. 1 \in Int /\ Share[p] \in Int /\ ~(1 > Share[p]) /\ Share[p] - 1 + 1 = Share[p]
    BY <1>1
  <2> QED
    BY <2>1, FS_Interval
<1>6. IsFiniteSet(own) /\ Cardinality(own) = Share[p]
  <2>1. IsFiniteSet(own) /\ Cardinality(own) = Cardinality({p}) * Cardinality(1 .. Share[p])
    BY <1>4, <1>5, FS_Product
  <2>2. 1 * Share[p] = Share[p]
    BY <1>1
  <2> QED
    BY <1>4, <1>5, <2>1, <2>2
<1>7. S \ {p} \in SUBSET Threads
  OBVIOUS
<1>8. IsFiniteSet(rest) /\ Cardinality(rest) \in Nat
  BY <1>7, WeightType DEF Weight
<1>9. Cardinality({}) = 0
  BY FS_EmptySet
<1>10. Cardinality(rest \union own) = Cardinality(rest) + Cardinality(own) - Cardinality(rest \intersect own)
  <2> HIDE DEF rest, own
  <2> QED
    BY <1>6, <1>8, FS_Union
<1>11. Cardinality(rest \union own) = Cardinality(rest) + Share[p]
  <2> HIDE DEF rest, own
  <2>1. Cardinality(rest \union own) = Cardinality(rest) + Share[p] - 0
    BY <1>3, <1>6, <1>9, <1>10
  <2> QED
    BY <1>1, <1>8, <2>1
<1> QED
  BY <1>2, <1>11 DEF Weight

\* Only nobody has no share.
LEMMA WeightEmpty ==
    /\ Weight({}) = 0
    /\ \A S \in SUBSET Threads : Weight(S) = 0 => S = {}
<1>1. Weight({}) = 0
  <2>1. Arrivals({}) = {}
    BY DEF Arrivals
  <2> QED
    BY <2>1, FS_EmptySet DEF Weight
<1>2. ASSUME NEW S \in SUBSET Threads, Weight(S) = 0, S # {}
      PROVE  FALSE
  <2>1. PICK p \in S : TRUE
    BY <1>2
  <2>2. Weight(S) = Weight(S \ {p}) + Share[p]
    BY WeightRemove
  <2>3. Weight(S \ {p}) \in Nat
    BY WeightType
  <2>4. Share[p] \in 1 .. Count /\ Count \in Nat
    BY ShareAssumption, CountAssumption
  <2> QED
    BY <1>2, <2>2, <2>3, <2>4
<1> QED
  BY <1>1, <1>2

\* More threads have no smaller share.
LEMMA WeightMonotone ==
    ASSUME NEW S \in SUBSET Threads, NEW R \in SUBSET S
    PROVE  Weight(R) <= Weight(S)
<1>1. IsFiniteSet(Arrivals(S)) /\ Arrivals(R) \in SUBSET Arrivals(S)
  BY WeightType DEF Arrivals
<1> QED
  BY <1>1, FS_Subset DEF Weight

\* A thread's arrival counts its share, also when it drops.
LEMMA UpdateIsShare ==
    ASSUME Leaving, NEW p \in Threads
    PROVE  Update(p) = Share[p] /\ Update(p) \in Nat \ {0}
<1>1. Share[p] \in Nat \ {0} /\ (p \in Droppers => Share[p] = 1)
  BY ShareAssumption, CountAssumption, DroppersAssumption
<1> QED
  BY <1>1 DEF Leaving, Update

-----------------------------------------------------------------------------
(* The steps.                                                              *)

\* The constructor establishes the invariant.
LEMMA InitIInv ==
    ASSUME Init
    PROVE  IInv
<1> USE CountAssumption DEF Init
<1>1. TypeOK
  BY DEF TypeOK
<1>2. Missing = Threads
  BY DEF Missing
<1>3. \A p \in Threads : ~Completing(p)
  BY DEF Completing
<1>4. CountsMatch
  <2>1. Threads \ leaving = Threads
    OBVIOUS
  <2> QED
    BY <1>2, <2>1, SharesAssumption DEF CountsMatch
<1>5. Leaving /\ OneCompletes /\ LocalsCurrent /\ RoundsMatch
  BY <1>2, <1>3 DEF Leaving, OneCompletes, LocalsCurrent, RoundsMatch
<1> QED
  BY <1>1, <1>4, <1>5 DEF IInv

\* While a thread is missing, no other completes the phase.
LEMMA NobodyCompletes ==
    ASSUME IInv, NEW p \in Missing
    PROVE  /\ \A q \in Threads : ~Completing(q) /\ pc[q] # "store_phase"
           /\ ~HasRun /\ arrived = Weight(Missing)
<1>1. \A q \in Threads : ~Completing(q)
  BY DEF IInv, OneCompletes
<1>2. \A q \in Threads : pc[q] # "store_phase" /\ pc[q] # "store_arrived"
  BY <1>1 DEF Completing
<1> QED
  BY <1>1, <1>2 DEF IInv, CountsMatch, HasRun

\* The call of arrive, and its load of the phase.
LEMMA BeforeFetchSub ==
    ASSUME IInv, NEW p \in Threads, CallArrive(p) \/ LoadPhase(p)
    PROVE  IInv'
<1>1. /\ p \in Missing
      /\ UNCHANGED <<expected, arrived, phase, completions, leaving, new_expected, token, round>>
      /\ pc[p] \in {"idle", "arrive"}
  BY DEF CallArrive, LoadPhase, Missing
<1>2. PICK l \in {"arrive", "fetch_sub"} : pc' = [pc EXCEPT ![p] = l]
  BY DEF CallArrive, LoadPhase, Goto
<1>3. TypeOK /\ pc \in [Threads -> {"idle", "arrive", "fetch_sub", "load_expected", "wait", "dropped",
                           "last_load_expected", "completion", "store_arrived", "store_phase"}]
  BY DEF IInv, TypeOK
<1>4. TypeOK'
  BY <1>1, <1>2, <1>3 DEF TypeOK, CallArrive, LoadPhase
<1>5. Missing' = Missing
  BY <1>1, <1>2, <1>3 DEF Missing
<1>6. \A q \in Threads : ~Completing(q) /\ pc[q] # "store_phase"
  BY <1>1, NobodyCompletes
<1>7. \A q \in Threads : ~Completing(q)' /\ pc'[q] # "store_phase"
  BY <1>2, <1>3, <1>6 DEF Completing
<1>8. Leaving'
  BY <1>1, <1>2, <1>3 DEF IInv, Leaving
<1>9. CountsMatch'
  BY <1>1, <1>5, <1>6, <1>7 DEF IInv, CountsMatch, Weight, Arrivals
<1>10. OneCompletes'
  BY <1>7 DEF OneCompletes
<1>11. LocalsCurrent'
  <2>1. \A q \in Threads : pc'[q] \notin {"completion", "store_arrived"}
    BY <1>7 DEF Completing
  <2>2. ASSUME NEW q \in Threads, pc'[q] = "fetch_sub"
        PROVE  old_phase'[q] = phase'
    BY <1>1, <1>2, <1>3, <2>2 DEF IInv, LocalsCurrent, CallArrive, LoadPhase, TypeOK, Goto
  <2> QED
    BY <1>7, <2>1, <2>2 DEF LocalsCurrent
<1>12. ~HasRun /\ ~HasRun'
  BY <1>6, <1>7 DEF HasRun, Completing
<1>13. RoundsMatch'
  BY <1>1, <1>5, <1>12 DEF IInv, RoundsMatch
<1> QED
  BY <1>4, <1>8, <1>9, <1>10, <1>11, <1>13 DEF IInv

\* arrive_and_drop lowers the expected count by the share of the thread.
LEMMA DropStep ==
    ASSUME IInv, NEW p \in Threads, Drop(p)
    PROVE  IInv'
<1>0. TypeOK /\ Leaving /\ CountsMatch
  BY DEF IInv
<1>1. p \in Missing /\ p \notin leaving /\ p \in Droppers
  BY <1>0 DEF Drop, Missing, Leaving
<1>2. /\ pc' = [pc EXCEPT ![p] = "arrive"] /\ leaving' = leaving \union {p} /\ expected' = expected - 1
      /\ UNCHANGED <<arrived, phase, completions, old_phase, new_expected, token, round>>
  BY DEF Drop, Goto
<1>3. Share[p] = 1
  BY <1>1, DroppersAssumption
<1>4. expected' = Weight(Threads \ leaving') /\ expected' \in Nat
  <2>1. Weight(Threads \ leaving) = Weight((Threads \ leaving) \ {p}) + Share[p]
    BY <1>1, WeightRemove
  <2>2. Threads \ leaving' = (Threads \ leaving) \ {p}
    BY <1>2
  <2>3. Weight((Threads \ leaving) \ {p}) \in Nat
    BY WeightType
  <2>4. expected = Weight((Threads \ leaving) \ {p}) + 1
    BY <1>0, <1>3, <2>1 DEF CountsMatch
  <2>5. expected' = Weight((Threads \ leaving) \ {p})
    BY <1>2, <2>3, <2>4
  <2> QED
    BY <2>2, <2>3, <2>5
<1>5. TypeOK'
  BY <1>0, <1>2, <1>4 DEF TypeOK
<1>6. Missing' = Missing
  BY <1>0, <1>1, <1>2 DEF Missing, TypeOK
<1>7. \A q \in Threads : ~Completing(q) /\ pc[q] # "store_phase"
  BY <1>1, NobodyCompletes
<1>8. \A q \in Threads : ~Completing(q)' /\ pc'[q] # "store_phase"
  BY <1>0, <1>2, <1>7 DEF Completing, TypeOK
<1>9. Leaving'
  BY <1>0, <1>1, <1>2 DEF Leaving, TypeOK
<1>10. CountsMatch'
  BY <1>0, <1>2, <1>4, <1>6, <1>7, <1>8 DEF CountsMatch, Weight, Arrivals
<1>11. OneCompletes'
  BY <1>8 DEF OneCompletes
<1>12. LocalsCurrent'
  <2>1. \A q \in Threads : pc'[q] \notin {"completion", "store_arrived"}
    BY <1>8 DEF Completing
  <2> QED
    BY <1>0, <1>2, <1>8, <2>1 DEF IInv, LocalsCurrent, TypeOK
<1>13. ~HasRun /\ ~HasRun'
  BY <1>7, <1>8 DEF HasRun, Completing
<1>14. RoundsMatch'
  BY <1>2, <1>6, <1>13 DEF IInv, RoundsMatch
<1> QED
  BY <1>5, <1>9, <1>10, <1>11, <1>12, <1>14 DEF IInv

\* An arrival takes its share from what is missing.  It brings __arrived to
\* zero exactly when nobody else is missing.
LEMMA ArrivalCounts ==
    ASSUME IInv, NEW p \in Threads, FetchSub(p)
    PROVE  /\ p \in Missing /\ arrived = Weight(Missing) /\ Missing' = Missing \ {p}
           /\ arrived' = Weight(Missing \ {p}) /\ arrived = arrived' + Update(p)
           /\ arrived' \in Nat /\ (arrived' = 0 => Missing = {p})
           /\ arrived' # 0 => pc' = [pc EXCEPT ![p] = "load_expected"]
           /\ arrived' = 0 => pc' = [pc EXCEPT ![p] = "last_load_expected"] /\ token' = token
           /\ old_phase[p] = phase
<1>0. TypeOK /\ Leaving
  BY DEF IInv
<1>1. p \in Missing /\ arrived = Weight(Missing) /\ Missing \in SUBSET Threads
  <2>1. p \in Missing /\ Missing \in SUBSET Threads
    BY DEF FetchSub, Missing
  <2> QED
    BY <2>1, NobodyCompletes
<1>2. Update(p) = Share[p] /\ Update(p) \in Nat \ {0}
  BY <1>0, UpdateIsShare
<1>3. Weight(Missing) = Weight(Missing \ {p}) + Share[p]
  BY <1>1, WeightRemove
<1>4. Weight(Missing \ {p}) \in Nat /\ (Weight(Missing \ {p}) = 0 => Missing \ {p} = {})
  <2>1. Missing \ {p} \in SUBSET Threads
    BY <1>1
  <2> QED
    BY <2>1, WeightType, WeightEmpty
<1>5. arrived = Weight(Missing \ {p}) + Update(p)
  BY <1>1, <1>2, <1>3
<1>6. arrived' = arrived - Update(p)
  BY DEF FetchSub
<1>7. arrived' = Weight(Missing \ {p}) /\ arrived = arrived' + Update(p) /\ arrived' \in Nat
  BY <1>2, <1>4, <1>5, <1>6
<1>8. arrived' = 0 => Missing = {p}
  BY <1>1, <1>4, <1>7
<1>9. /\ arrived' # 0 => pc' = [pc EXCEPT ![p] = "load_expected"]
      /\ arrived' = 0 => pc' = [pc EXCEPT ![p] = "last_load_expected"] /\ token' = token
  BY DEF FetchSub, Goto
<1>10. old_phase[p] = phase
  BY DEF IInv, LocalsCurrent, FetchSub
<1>11. Missing' = Missing \ {p}
  <2>1. phase' = phase /\ leaving' = leaving /\ pc[p] = "fetch_sub"
    BY DEF FetchSub
  <2>2. CASE arrived' = 0
    BY <1>0, <1>9, <2>1, <2>2 DEF Missing, TypeOK
  <2>3. CASE arrived' # 0
    <3>1. token' = [token EXCEPT ![p] = IF p \in leaving THEN 0 ELSE phase]
      BY <1>10, <2>3 DEF FetchSub
    <3> QED
      BY <1>0, <1>9, <2>1, <2>3, <3>1 DEF Missing, TypeOK
  <2> QED
    BY <2>2, <2>3
<1> QED
  BY <1>1, <1>7, <1>8, <1>9, <1>10, <1>11

LEMMA FetchSubStep ==
    ASSUME IInv, NEW p \in Threads, FetchSub(p)
    PROVE  IInv'
<1>0. TypeOK /\ Leaving /\ RoundsMatch
  BY DEF IInv
<1>1. /\ p \in Missing /\ Missing' = Missing \ {p} /\ arrived' = Weight(Missing \ {p})
      /\ arrived' \in Nat /\ (arrived' = 0 => Missing = {p})
      /\ arrived' # 0 => pc' = [pc EXCEPT ![p] = "load_expected"]
      /\ arrived' = 0 => pc' = [pc EXCEPT ![p] = "last_load_expected"] /\ token' = token
      /\ old_phase[p] = phase
  BY ArrivalCounts
<1>2. /\ UNCHANGED <<expected, phase, completions, leaving, old_phase, new_expected>>
      /\ round' = [round EXCEPT ![p] = @ + 1] /\ pc[p] = "fetch_sub"
  BY DEF FetchSub
<1>3. PICK l \in {"load_expected", "last_load_expected"} :
        pc' = [pc EXCEPT ![p] = l] /\ (l = "last_load_expected" => arrived' = 0)
  BY <1>1
<1>4. token' \in [Threads -> {0, 1}]
  BY <1>0 DEF FetchSub, TypeOK
<1>5. TypeOK'
  <2>1. round' \in [Threads -> Nat]
    BY <1>0, <1>2 DEF TypeOK
  <2>2. arrived' \in Nat
    BY <1>1
  <2> QED
    BY <1>0, <1>2, <1>3, <1>4, <2>1, <2>2 DEF TypeOK
<1>6. \A q \in Threads : ~Completing(q) /\ pc[q] # "store_phase"
  BY <1>1, NobodyCompletes
<1>7. \A q \in Threads : /\ pc'[q] \notin {"completion", "store_arrived", "store_phase"}
                         /\ Completing(q)' => q = p /\ arrived' = 0
  <2>1. \A q \in Threads : pc'[q] = IF q = p THEN l ELSE pc[q]
    BY <1>0, <1>3 DEF TypeOK
  <2>2. \A q \in Threads : pc[q] \notin {"last_load_expected", "completion", "store_arrived", "store_phase"}
    BY <1>6 DEF Completing
  <2> QED
    BY <1>3, <2>1, <2>2 DEF Completing
<1>8. Leaving'
  BY <1>0, <1>2, <1>3 DEF Leaving, TypeOK
<1>9. CountsMatch'
  <2>1. expected' = Weight(Threads \ leaving')
    BY <1>2 DEF IInv, CountsMatch
  <2>2. arrived' = Weight(Missing')
    BY <1>1
  <2> QED
    BY <1>7, <2>1, <2>2 DEF CountsMatch
<1>10. OneCompletes'
  <2>1. arrived' = 0 => Missing' = {}
    BY <1>1
  <2> QED
    BY <1>7, <2>1 DEF OneCompletes
<1>11. LocalsCurrent'
  <2>1. ASSUME NEW q \in Threads, pc'[q] = "fetch_sub" \/ Completing(q)'
        PROVE  old_phase'[q] = phase'
    <3>1. q = p \/ pc[q] = "fetch_sub"
      BY <1>0, <1>3, <1>7, <2>1 DEF TypeOK
    <3> QED
      BY <1>1, <1>2, <3>1 DEF IInv, LocalsCurrent
  <2> QED
    BY <1>7, <2>1 DEF LocalsCurrent
<1>12. ~HasRun /\ ~HasRun'
  BY <1>6, <1>7 DEF HasRun, Completing
<1>13. RoundsMatch'
  <2>1. ASSUME NEW q \in Threads \ leaving
        PROVE  round'[q] = IF q \in Missing' THEN completions' ELSE completions' + 1
    <3>1. round[q] = IF q \in Missing THEN completions ELSE completions + 1
      BY <1>0, <1>12 DEF RoundsMatch
    <3> QED
      BY <1>0, <1>1, <1>2, <3>1 DEF TypeOK
  <2> QED
    BY <1>2, <1>12, <2>1 DEF RoundsMatch
<1> QED
  BY <1>5, <1>8, <1>9, <1>10, <1>11, <1>13 DEF IInv

\* The load of the expected count, by the last arrival of a phase or by
\* another.
LEMMA LoadExpectedStep ==
    ASSUME IInv, NEW p \in Threads, LoadExpected(p)
    PROVE  IInv'
<1>0. TypeOK /\ Leaving /\ CountsMatch /\ OneCompletes /\ LocalsCurrent /\ RoundsMatch
  BY DEF IInv
<1>1. /\ UNCHANGED <<expected, arrived, phase, completions, leaving, old_phase, token, round>>
      /\ new_expected' = [new_expected EXCEPT ![p] = expected]
  BY DEF LoadExpected
<1>2. PICK l : /\ pc' = [pc EXCEPT ![p] = l]
               /\ \/ pc[p] = "load_expected" /\ l = "wait" /\ p \notin leaving
                  \/ pc[p] = "load_expected" /\ l = "dropped" /\ p \in leaving
                  \/ pc[p] = "last_load_expected" /\ l = "completion"
  BY DEF LoadExpected, Goto, Returned
<1>3. TypeOK'
  BY <1>0, <1>1, <1>2 DEF TypeOK
<1>4. Missing' = Missing
  BY <1>0, <1>1, <1>2 DEF Missing, TypeOK
<1>5. \A q \in Threads : /\ Completing(q)' <=> Completing(q)
                         /\ pc'[q] = "store_phase" <=> pc[q] = "store_phase"
                         /\ pc'[q] = "store_arrived" <=> pc[q] = "store_arrived"
                         /\ pc'[q] = "fetch_sub" <=> pc[q] = "fetch_sub"
  BY <1>0, <1>2 DEF Completing, TypeOK
<1>6. Leaving'
  BY <1>0, <1>1, <1>2 DEF Leaving, TypeOK
<1>7. CountsMatch'
  BY <1>0, <1>1, <1>4, <1>5 DEF CountsMatch
<1>8. OneCompletes'
  BY <1>0, <1>4, <1>5 DEF OneCompletes
<1>9. LocalsCurrent'
  <2>1. \A q \in Threads : pc'[q] \in {"completion", "store_arrived"} =>
            q = p \/ pc[q] \in {"completion", "store_arrived"}
    BY <1>0, <1>2 DEF TypeOK
  <2> QED
    BY <1>0, <1>1, <1>5, <2>1 DEF LocalsCurrent, TypeOK
<1>10. HasRun' <=> HasRun
  BY <1>5 DEF HasRun
<1>11. RoundsMatch'
  BY <1>0, <1>1, <1>4, <1>10 DEF RoundsMatch
<1> QED
  BY <1>3, <1>6, <1>7, <1>8, <1>9, <1>11 DEF IInv

\* The completion function runs when everyone has arrived.
LEMMA CompletionStep ==
    ASSUME IInv, NEW p \in Threads, Completion(p)
    PROVE  IInv'
<1>0. TypeOK /\ Leaving /\ CountsMatch /\ OneCompletes /\ LocalsCurrent /\ RoundsMatch
  BY DEF IInv
<1>1. /\ UNCHANGED <<expected, arrived, phase, leaving, old_phase, new_expected, token, round>>
      /\ completions' = completions + 1 /\ pc[p] = "completion"
      /\ pc' = [pc EXCEPT ![p] = "store_arrived"]
  BY DEF Completion, Goto
<1>2. TypeOK'
  BY <1>0, <1>1 DEF TypeOK
<1>3. Missing' = Missing
  BY <1>0, <1>1 DEF Missing, TypeOK
<1>4. \A q \in Threads : /\ Completing(q)' <=> Completing(q)
                         /\ pc'[q] = "store_phase" <=> pc[q] = "store_phase"
                         /\ pc'[q] = "fetch_sub" <=> pc[q] = "fetch_sub"
  BY <1>0, <1>1 DEF Completing, TypeOK
<1>5. Completing(p) /\ Missing = {} /\ \A q \in Threads : Completing(q) => q = p
  BY <1>0, <1>1 DEF Completing, OneCompletes
<1>6. Leaving'
  BY <1>0, <1>1 DEF Leaving, TypeOK
<1>7. CountsMatch'
  BY <1>0, <1>1, <1>3, <1>4 DEF CountsMatch
<1>8. OneCompletes'
  BY <1>0, <1>3, <1>4 DEF OneCompletes
<1>9. LocalsCurrent'
  BY <1>0, <1>1, <1>4 DEF LocalsCurrent, TypeOK
<1>10. ~HasRun /\ HasRun'
  BY <1>0, <1>1, <1>5 DEF HasRun, Completing, TypeOK
<1>11. RoundsMatch'
  BY <1>0, <1>1, <1>5, <1>10 DEF RoundsMatch
<1> QED
  BY <1>2, <1>6, <1>7, <1>8, <1>9, <1>11 DEF IInv

\* The count is reset to the current expected count, not to a stale one.
LEMMA StoreArrivedStep ==
    ASSUME IInv, NEW p \in Threads, StoreArrived(p)
    PROVE  IInv'
<1>0. TypeOK /\ Leaving /\ CountsMatch /\ OneCompletes /\ LocalsCurrent /\ RoundsMatch
  BY DEF IInv
<1>1. /\ UNCHANGED <<expected, phase, completions, leaving, old_phase, new_expected, token, round>>
      /\ arrived' = expected /\ pc[p] = "store_arrived"
      /\ pc' = [pc EXCEPT ![p] = "store_phase"]
  BY <1>0 DEF StoreArrived, Goto, LocalsCurrent
<1>2. TypeOK'
  BY <1>0, <1>1 DEF TypeOK
<1>3. Missing' = Missing
  BY <1>0, <1>1 DEF Missing, TypeOK
<1>4. \A q \in Threads : /\ Completing(q)' <=> Completing(q)
                         /\ pc'[q] = "fetch_sub" <=> pc[q] = "fetch_sub"
                         /\ pc'[q] \in {"completion", "store_arrived"} =>
                                pc[q] \in {"completion", "store_arrived"}
  BY <1>0, <1>1 DEF Completing, TypeOK
<1>5. Leaving'
  BY <1>0, <1>1 DEF Leaving, TypeOK
<1>6. CountsMatch'
  <2>1. pc'[p] = "store_phase"
    BY <1>0, <1>1 DEF TypeOK
  <2> QED
    BY <1>0, <1>1, <2>1 DEF CountsMatch
<1>7. OneCompletes'
  BY <1>0, <1>3, <1>4 DEF OneCompletes
<1>8. LocalsCurrent'
  BY <1>0, <1>1, <1>4 DEF LocalsCurrent
<1>9. HasRun /\ HasRun'
  BY <1>0, <1>1 DEF HasRun, TypeOK
<1>10. RoundsMatch'
  BY <1>0, <1>1, <1>9 DEF RoundsMatch
<1> QED
  BY <1>2, <1>5, <1>6, <1>7, <1>8, <1>10 DEF IInv

\* The store to __phase makes everyone who stays missing again.
LEMMA StorePhaseStep ==
    ASSUME IInv, NEW p \in Threads, StorePhase(p)
    PROVE  IInv'
<1>0. TypeOK /\ Leaving /\ CountsMatch /\ OneCompletes /\ LocalsCurrent /\ RoundsMatch
  BY DEF IInv
<1>1. Completing(p) /\ Missing = {} /\ \A q \in Threads : Completing(q) => q = p
  BY <1>0 DEF StorePhase, Completing, OneCompletes
<1>2. old_phase[p] = phase /\ pc[p] = "store_phase"
  BY <1>0, <1>1 DEF LocalsCurrent, StorePhase
<1>3. /\ UNCHANGED <<expected, arrived, completions, leaving, old_phase, new_expected, round>>
      /\ phase' = 1 - phase
      /\ token' = [token EXCEPT ![p] = IF p \in leaving THEN 0 ELSE phase]
      /\ pc' = [pc EXCEPT ![p] = IF p \in leaving THEN "dropped" ELSE "wait"]
  BY <1>2 DEF StorePhase, Goto, Returned
<1>4. TypeOK'
  BY <1>0, <1>3 DEF TypeOK
<1>5. \A q \in Threads : pc[q] \notin {"idle", "arrive", "fetch_sub"}
  BY <1>1 DEF Missing
<1>6. \A q \in Threads \ leaving : q # p => pc[q] \in {"load_expected", "wait"} /\ token[q] = phase
  <2>1. \A q \in Threads \ leaving : q # p => pc[q] \in {"load_expected", "wait"}
    BY <1>0, <1>1, <1>5 DEF TypeOK, Completing, Leaving
  <2> QED
    BY <1>1, <2>1 DEF Missing
<1>7. Missing' = Threads \ leaving
  <2>1. \A q \in Threads : pc'[q] \notin {"idle", "arrive", "fetch_sub"}
    BY <1>0, <1>3, <1>5 DEF TypeOK
  <2>2. phase' # phase
    BY <1>0, <1>3 DEF TypeOK
  <2>3. \A q \in Threads \ leaving : pc'[q] \in {"load_expected", "wait"} /\ token'[q] = phase
    BY <1>0, <1>3, <1>6 DEF TypeOK
  <2> QED
    BY <1>3, <2>1, <2>2, <2>3 DEF Missing
<1>8. \A q \in Threads : ~Completing(q)'
  BY <1>0, <1>1, <1>3 DEF Completing, TypeOK
<1>9. Leaving'
  BY <1>0, <1>3 DEF Leaving, TypeOK
<1>10. \A q \in Threads : pc'[q] \notin {"fetch_sub", "completion", "store_arrived", "store_phase"}
  BY <1>0, <1>3, <1>5, <1>8 DEF Completing, TypeOK
<1>11. CountsMatch'
  <2>1. arrived = expected /\ expected = Weight(Threads \ leaving)
    BY <1>0, <1>2 DEF CountsMatch
  <2> QED
    BY <1>3, <1>7, <1>10, <2>1 DEF CountsMatch
<1>12. OneCompletes' /\ LocalsCurrent'
  BY <1>8, <1>10 DEF OneCompletes, LocalsCurrent
<1>13. HasRun
  BY <1>2 DEF HasRun
<1>14. RoundsMatch'
  BY <1>0, <1>3, <1>7, <1>13 DEF RoundsMatch
<1> QED
  BY <1>4, <1>9, <1>11, <1>12, <1>14 DEF IInv

\* A wait returns a thread to a phase that already counts it as missing.
LEMMA WaitStep ==
    ASSUME IInv, NEW p \in Threads, Wait(p)
    PROVE  IInv'
<1>0. TypeOK /\ Leaving /\ CountsMatch /\ OneCompletes /\ LocalsCurrent /\ RoundsMatch
  BY DEF IInv
<1>1. /\ UNCHANGED <<expected, arrived, phase, completions, leaving, old_phase,
                     new_expected, token, round>>
      /\ pc[p] = "wait" /\ token[p] # phase /\ p \notin leaving
      /\ pc' = [pc EXCEPT ![p] = "idle"]
  BY <1>0 DEF Wait, Goto, Leaving
<1>2. TypeOK'
  BY <1>0, <1>1 DEF TypeOK
<1>3. Missing' = Missing
  BY <1>0, <1>1 DEF Missing, TypeOK
<1>4. \A q \in Threads : /\ Completing(q)' <=> Completing(q)
                         /\ \A l \in {"fetch_sub", "completion", "store_arrived", "store_phase"} :
                                pc'[q] = l <=> pc[q] = l
  BY <1>0, <1>1 DEF Completing, TypeOK
<1>5. Leaving'
  BY <1>0, <1>1 DEF Leaving, TypeOK
<1>6. CountsMatch'
  BY <1>0, <1>1, <1>3, <1>4 DEF CountsMatch
<1>7. OneCompletes'
  BY <1>0, <1>3, <1>4 DEF OneCompletes
<1>8. LocalsCurrent'
  BY <1>0, <1>1, <1>4 DEF LocalsCurrent
<1>9. HasRun' <=> HasRun
  BY <1>4 DEF HasRun
<1>10. RoundsMatch'
  BY <1>0, <1>1, <1>3, <1>9 DEF RoundsMatch
<1> QED
  BY <1>2, <1>5, <1>6, <1>7, <1>8, <1>10 DEF IInv

LEMMA Stuttering ==
    ASSUME IInv, UNCHANGED vars
    PROVE  IInv'
BY DEF IInv, vars, TypeOK, Leaving, CountsMatch, OneCompletes, LocalsCurrent, RoundsMatch,
       Missing, HasRun, Completing, Weight, Arrivals

\* Every step of the barrier preserves the invariant.
LEMMA NextIInv ==
    ASSUME IInv, [Next]_vars
    PROVE  IInv'
<1>1. ASSUME NEW p \in Threads, Step(p)
      PROVE  IInv'
  <2>1. CASE CallArrive(p) \/ LoadPhase(p)
    BY <2>1, BeforeFetchSub
  <2>2. CASE Drop(p)
    BY <2>2, DropStep
  <2>3. CASE FetchSub(p)
    BY <2>3, FetchSubStep
  <2>4. CASE LoadExpected(p)
    BY <2>4, LoadExpectedStep
  <2>5. CASE Completion(p)
    BY <2>5, CompletionStep
  <2>6. CASE StoreArrived(p)
    BY <2>6, StoreArrivedStep
  <2>7. CASE StorePhase(p)
    BY <2>7, StorePhaseStep
  <2>8. CASE Wait(p)
    BY <2>8, WaitStep
  <2>9. CASE Spin(p)
    BY <2>9, Stuttering DEF Spin
  <2> QED
    BY <1>1, <2>1, <2>2, <2>3, <2>4, <2>5, <2>6, <2>7, <2>8, <2>9 DEF Step
<1>2. CASE Terminated
  BY <1>2, Stuttering DEF Terminated
<1>3. CASE UNCHANGED vars
  BY <1>3, Stuttering
<1> QED
  BY <1>1, <1>2, <1>3 DEF Next

\* The three atomics, the threads' locals and the rounds agree in every
\* reachable state: what is left in __arrived are the shares of the threads
\* still to come, and one thread at a time completes a phase.
THEOREM CompletionInvariant == Spec => []IInv
<1>1. Init => IInv
  BY InitIInv
<1>2. IInv /\ [Next]_vars => IInv'
  BY NextIInv
<1> QED
  BY <1>1, <1>2, PTL DEF Spec

\* The completion function runs once per phase, after everyone has arrived
\* at it and before anyone comes out of it.
THEOREM CompletionRunsBetween == Spec => []CompletionBetween
<1>1. IInv => CompletionBetween
  <2> SUFFICES ASSUME IInv, NEW p \in Threads
               PROVE  /\ p \notin leaving => completions <= round[p]
                      /\ pc[p] = "idle" => completions = round[p]
    BY DEF CompletionBetween
  <2>1. p \notin leaving => round[p] \in {completions, completions + 1}
    BY DEF IInv, RoundsMatch
  <2>2. pc[p] = "idle" => p \notin leaving /\ p \in Missing
    BY DEF IInv, Leaving, Missing
  <2>3. completions \in Nat
    BY DEF IInv, TypeOK
  <2> QED
    BY <2>1, <2>2, <2>3 DEF IInv, RoundsMatch
<1> QED
  BY <1>1, CompletionInvariant, PTL

-----------------------------------------------------------------------------
(* The refinement.                                                         *)

\* The constructor starts the abstract barrier.
LEMMA InitMaps ==
    ASSUME Init
    PROVE  Implemented!Init
<1>1. Outside = Threads /\ Lasts = {} /\ leaving \intersect Outside = {}
  BY DEF Init, Outside, Lasts, Completing
<1>2. Cardinality({}) = 0
  BY FS_EmptySet
<1>3. Remaining = Count
  BY <1>1 DEF Remaining, Init
<1>4. [p \in Threads |-> Position(p)] = [p \in Threads |-> "idle"]
  BY <1>1 DEF Position
<1>5. expected + Cardinality(leaving \intersect Outside) = Count
  BY <1>1, <1>2, CountAssumption DEF Init
<1> QED
  BY <1>3, <1>4, <1>5 DEF Init, Implemented!Init

\* A step that leaves everyone inside or outside the barrier, and the count
\* alone unless a thread is completing the phase, does not show.
LEMMA Unseen ==
    ASSUME Outside' = Outside, Lasts' = Lasts, arrived' = arrived \/ Lasts # {},
           UNCHANGED <<token, phase, leaving, expected>>
    PROVE  UNCHANGED Implemented!vars
<1>1. \A p \in Threads : Position(p)' = Position(p)
  BY DEF Position
<1>2. [p \in Threads |-> Position(p)]' = [p \in Threads |-> Position(p)]
  BY <1>1
<1>3. Remaining' = Remaining
  BY DEF Remaining, Update
<1> QED
  BY <1>2, <1>3 DEF Implemented!vars

\* The accesses before and after the arrival takes effect.
LEMMA HiddenStep ==
    ASSUME IInv, NEW p \in Threads,
           CallArrive(p) \/ LoadPhase(p) \/ LoadExpected(p) \/ Completion(p) \/ StoreArrived(p)
    PROVE  UNCHANGED Implemented!vars
<1>0. TypeOK
  BY DEF IInv
<1>1. /\ UNCHANGED <<token, phase, leaving, expected>>
      /\ arrived' = arrived \/ pc[p] = "store_arrived"
  BY DEF CallArrive, LoadPhase, LoadExpected, Completion, StoreArrived
<1>2. PICK l : /\ pc' = [pc EXCEPT ![p] = l]
               /\ \/ pc[p] \in {"idle", "arrive"} /\ l \in {"arrive", "fetch_sub"}
                  \/ pc[p] = "load_expected" /\ l \in {"wait", "dropped"}
                  \/ /\ pc[p] \in {"last_load_expected", "completion", "store_arrived"}
                     /\ l \in {"completion", "store_arrived", "store_phase"}
  BY DEF CallArrive, LoadPhase, LoadExpected, Completion, StoreArrived, Goto, Returned
<1>3. \A q \in Threads : /\ Completing(q)' <=> Completing(q)
                         /\ pc'[q] \in {"idle", "arrive", "fetch_sub"} <=>
                                pc[q] \in {"idle", "arrive", "fetch_sub"}
  BY <1>0, <1>2 DEF Completing, TypeOK
<1>4. Outside' = Outside /\ Lasts' = Lasts
  BY <1>3 DEF Outside, Lasts
<1>5. arrived' = arrived \/ Lasts # {}
  BY <1>1 DEF Lasts, Completing
<1> QED
  BY <1>1, <1>4, <1>5, Unseen

\* The threads inside arrive_and_drop that have yet to arrive are finitely many.
LEMMA DroppersOutside ==
    ASSUME TypeOK
    PROVE  /\ IsFiniteSet(leaving \intersect Outside)
           /\ Cardinality(leaving \intersect Outside) \in Nat
<1>1. leaving \intersect Outside \in SUBSET Threads
  BY DEF TypeOK
<1>2. IsFiniteSet(leaving \intersect Outside)
  BY <1>1, ThreadsAssumption, FS_Subset
<1> QED
  BY <1>2, FS_CardinalityType

\* arrive_and_drop has lowered the expected count before its arrival shows.
LEMMA DropMaps ==
    ASSUME IInv, NEW p \in Threads, Drop(p)
    PROVE  UNCHANGED Implemented!vars
<1>0. TypeOK /\ Leaving
  BY DEF IInv
<1>1. p \in Missing /\ p \notin leaving /\ pc[p] = "idle"
  BY <1>0 DEF Drop, Missing, Leaving
<1>2. /\ pc' = [pc EXCEPT ![p] = "arrive"] /\ leaving' = leaving \union {p} /\ expected' = expected - 1
      /\ UNCHANGED <<arrived, phase, token>>
  BY DEF Drop, Goto
<1>3. \A q \in Threads : ~Completing(q)
  BY <1>1, NobodyCompletes
<1>4. \A q \in Threads : ~Completing(q)'
  BY <1>0, <1>2, <1>3 DEF Completing, TypeOK
<1>5. Lasts = {} /\ Lasts' = {}
  BY <1>3, <1>4 DEF Lasts
<1>6. \A q \in Threads : pc'[q] \in {"idle", "arrive", "fetch_sub"} <=>
                             pc[q] \in {"idle", "arrive", "fetch_sub"}
  BY <1>0, <1>1, <1>2 DEF TypeOK
<1>7. Outside' = Outside /\ p \in Outside
  BY <1>1, <1>3, <1>4, <1>6 DEF Outside
<1>8. Remaining' = Remaining
  BY <1>2, <1>5 DEF Remaining
<1>9. \A q \in Threads : Position(q)' = Position(q)
  BY <1>2, <1>7 DEF Position
<1>10. [q \in Threads |-> Position(q)]' = [q \in Threads |-> Position(q)]
  BY <1>9
<1>11. (expected + Cardinality(leaving \intersect Outside))' = expected + Cardinality(leaving \intersect Outside)
  <2>1. leaving' \intersect Outside' = (leaving \intersect Outside) \union {p}
    BY <1>2, <1>7
  <2>2. p \notin leaving \intersect Outside
    BY <1>1
  <2>3. Cardinality(leaving' \intersect Outside') = Cardinality(leaving \intersect Outside) + 1
    BY <1>0, <2>1, <2>2, DroppersOutside, FS_AddElement
  <2>4. expected \in Nat /\ Cardinality(leaving \intersect Outside) \in Nat
    BY <1>0, DroppersOutside DEF TypeOK
  <2> QED
    BY <1>2, <2>3, <2>4
<1> QED
  BY <1>2, <1>8, <1>10, <1>11 DEF Implemented!vars

\* An arrival that shows: p goes inside the barrier with the old phase as
\* its token, and the count is what the abstract barrier makes it.
LEMMA ArrivalShows ==
    ASSUME IInv, NEW p \in Outside,
           Outside' = Outside \ {p}, leaving' = leaving, expected' = expected,
           token' = [token EXCEPT ![p] = IF p \in leaving THEN 0 ELSE phase],
           Update(p) <= Remaining,
           IF Update(p) = Remaining
           THEN /\ Remaining' = expected + Cardinality(leaving \intersect Outside')
                /\ phase' = 1 - phase
           ELSE Remaining' = Remaining - Update(p) /\ UNCHANGED phase
    PROVE  Implemented!Next
<1>0. TypeOK /\ Leaving
  BY DEF IInv
<1>1. p \in Threads
  BY DEF Outside
<1>2. Update(p) = Share[p] /\ (p \in leaving => Update(p) = 1)
  BY <1>0, <1>1, UpdateIsShare DEF Update
<1>3. Position(p) = "idle"
  BY DEF Position
<1>4. \A q \in Threads : Position(q)' = IF q = p THEN IF p \in leaving THEN "dropped" ELSE "wait"
                                                 ELSE Position(q)
  BY DEF Position
<1>5. [q \in Threads |-> Position(q)]' =
        [[q \in Threads |-> Position(q)] EXCEPT ![p] = IF p \in leaving THEN "dropped" ELSE "wait"]
  BY <1>4
<1>6. CASE p \notin leaving
  <2>1. leaving \intersect Outside' = leaving \intersect Outside
    BY <1>6
  <2>2. Implemented!CountDown(Share[p], expected + Cardinality(leaving \intersect Outside))
    BY <1>2, <2>1 DEF Implemented!CountDown
  <2>3. Implemented!Arrive(p)
    BY <1>1, <1>3, <1>5, <1>6, <2>2 DEF Implemented!Arrive
  <2> QED
    BY <1>1, <2>3 DEF Implemented!Next
<1>7. CASE p \in leaving
  <2>1. leaving \intersect Outside' = (leaving \intersect Outside) \ {p}
    BY <1>7
  <2>2. Cardinality(leaving \intersect Outside') = Cardinality(leaving \intersect Outside) - 1
    BY <1>0, <1>7, <2>1, DroppersOutside, FS_RemoveElement
  <2>3. expected \in Nat /\ Cardinality(leaving \intersect Outside) \in Nat
    BY <1>0, DroppersOutside DEF TypeOK
  <2>4. expected + Cardinality(leaving \intersect Outside') =
          (expected + Cardinality(leaving \intersect Outside)) - 1
    BY <2>2, <2>3
  <2>5. Implemented!CountDown(1, (expected + Cardinality(leaving \intersect Outside)) - 1)
    BY <1>2, <1>7, <2>4 DEF Implemented!CountDown
  <2>6. Implemented!ArriveAndDrop(p)
    BY <1>1, <1>3, <1>5, <1>7, <2>5 DEF Implemented!ArriveAndDrop
  <2> QED
    BY <1>1, <2>6 DEF Implemented!Next
<1> QED
  BY <1>6, <1>7

\* The fetch_sub is an arrival, unless it is the last of its phase.
LEMMA FetchSubMaps ==
    ASSUME IInv, NEW p \in Threads, FetchSub(p)
    PROVE  Implemented!Next \/ UNCHANGED Implemented!vars
<1>0. TypeOK /\ Leaving
  BY DEF IInv
<1>1. /\ p \in Missing /\ arrived = arrived' + Update(p) /\ arrived' \in Nat
      /\ arrived' # 0 => pc' = [pc EXCEPT ![p] = "load_expected"]
      /\ arrived' = 0 => pc' = [pc EXCEPT ![p] = "last_load_expected"] /\ token' = token
      /\ old_phase[p] = phase
  BY ArrivalCounts
<1>2. UNCHANGED <<expected, phase, leaving>> /\ pc[p] = "fetch_sub"
  BY DEF FetchSub
<1>3. \A q \in Threads : ~Completing(q)
  BY <1>1, NobodyCompletes
<1>4. Lasts = {} /\ Remaining = arrived
  BY <1>3 DEF Lasts, Remaining
<1>5. Update(p) \in Nat \ {0}
  BY <1>0, UpdateIsShare
<1>6. p \in Outside
  BY <1>2 DEF Outside
<1>7. CASE arrived' = 0
  <2>1. \A q \in Threads : pc'[q] = IF q = p THEN "last_load_expected" ELSE pc[q]
    BY <1>0, <1>1, <1>7 DEF TypeOK
  <2>2. Lasts' = {p}
    BY <1>3, <2>1 DEF Lasts, Completing
  <2>3. Outside' = Outside
    BY <1>2, <2>1 DEF Outside, Completing
  <2>4. Remaining' = Update(p)
    <3>1. (CHOOSE q \in Lasts' : TRUE) = p
      BY <2>2
    <3> QED
      BY <1>2, <2>2, <3>1 DEF Remaining, Update
  <2>5. Remaining' = Remaining
    BY <1>1, <1>4, <1>5, <1>7, <2>4
  <2>6. \A q \in Threads : Position(q)' = Position(q)
    BY <1>2, <2>3 DEF Position
  <2>7. [q \in Threads |-> Position(q)]' = [q \in Threads |-> Position(q)]
    BY <2>6
  <2> QED
    BY <1>1, <1>2, <1>7, <2>3, <2>5, <2>7 DEF Implemented!vars
<1>8. CASE arrived' # 0
  <2>1. \A q \in Threads : pc'[q] = IF q = p THEN "load_expected" ELSE pc[q]
    BY <1>0, <1>1, <1>8 DEF TypeOK
  <2>2. Lasts' = {}
    BY <1>3, <2>1 DEF Lasts, Completing
  <2>3. Outside' = Outside \ {p}
    BY <1>2, <2>1 DEF Outside, Completing
  <2>4. Remaining' = arrived'
    BY <2>2 DEF Remaining
  <2>5. /\ Update(p) <= Remaining /\ Update(p) # Remaining
        /\ Remaining' = Remaining - Update(p)
    BY <1>1, <1>4, <1>5, <1>8, <2>4
  <2>6. token' = [token EXCEPT ![p] = IF p \in leaving THEN 0 ELSE phase]
    BY <1>1, <1>8 DEF FetchSub
  <2>7. Implemented!Next
    BY <1>2, <1>6, <2>3, <2>5, <2>6, ArrivalShows
  <2> QED
    BY <2>7
<1> QED
  BY <1>7, <1>8

\* The last arrival of a phase shows when it turns __phase, with the count
\* already reset.
LEMMA StorePhaseMaps ==
    ASSUME IInv, NEW p \in Threads, StorePhase(p)
    PROVE  Implemented!Next
<1>0. TypeOK /\ Leaving /\ CountsMatch /\ LocalsCurrent
  BY DEF IInv
<1>1. Completing(p) /\ Missing = {} /\ \A q \in Threads : Completing(q) => q = p
  BY DEF StorePhase, Completing, OneCompletes, IInv
<1>2. old_phase[p] = phase /\ pc[p] = "store_phase"
  BY <1>0, <1>1 DEF LocalsCurrent, StorePhase
<1>3. /\ UNCHANGED <<expected, arrived, leaving>>
      /\ phase' = 1 - phase
      /\ token' = [token EXCEPT ![p] = IF p \in leaving THEN 0 ELSE phase]
      /\ pc' = [pc EXCEPT ![p] = IF p \in leaving THEN "dropped" ELSE "wait"]
  BY <1>2 DEF StorePhase, Goto, Returned
<1>4. arrived = expected
  BY <1>0, <1>2 DEF CountsMatch
<1>5. Lasts = {p} /\ Outside = {p}
  BY <1>1 DEF Lasts, Outside, Missing
<1>6. Remaining = Update(p)
  <2>1. (CHOOSE q \in Lasts : TRUE) = p
    BY <1>5
  <2> QED
    BY <1>5, <2>1 DEF Remaining
<1>7. Update(p) \in Nat
  BY <1>0, UpdateIsShare
<1>8. \A q \in Threads : ~Completing(q)' /\ pc'[q] \notin {"idle", "arrive", "fetch_sub"}
  BY <1>0, <1>1, <1>3 DEF Completing, TypeOK, Missing
<1>9. Lasts' = {} /\ Outside' = {}
  BY <1>8 DEF Lasts, Outside
<1>10. Remaining' = expected
  BY <1>3, <1>4, <1>9 DEF Remaining
<1>11. expected + Cardinality(leaving \intersect Outside') = expected
  <2>1. leaving \intersect Outside' = {} /\ Cardinality({}) = 0
    BY <1>9, FS_EmptySet
  <2>2. expected \in Nat
    BY <1>0 DEF TypeOK
  <2>3. Cardinality(leaving \intersect Outside') = 0
    BY <2>1
  <2> QED
    BY <2>2, <2>3
<1>12. Outside' = Outside \ {p} /\ p \in Outside /\ Update(p) <= Remaining
  BY <1>5, <1>6, <1>7, <1>9
<1> QED
  BY <1>3, <1>6, <1>10, <1>11, <1>12, ArrivalShows

\* A wait returns when the phase of its token is over.
LEMMA WaitMaps ==
    ASSUME IInv, NEW p \in Threads, Wait(p)
    PROVE  Implemented!Next
<1>0. TypeOK /\ Leaving
  BY DEF IInv
<1>1. /\ UNCHANGED <<expected, arrived, phase, leaving, token>>
      /\ pc[p] = "wait" /\ token[p] # phase /\ p \notin leaving
      /\ pc' = [pc EXCEPT ![p] = "idle"]
  BY <1>0 DEF Wait, Goto, Leaving
<1>2. \A q \in Threads : pc'[q] = IF q = p THEN "idle" ELSE pc[q]
  BY <1>0, <1>1 DEF TypeOK
<1>3. Lasts' = Lasts
  BY <1>1, <1>2 DEF Lasts, Completing
<1>4. Outside' = Outside \union {p} /\ p \notin Outside
  BY <1>1, <1>2 DEF Outside, Completing
<1>5. leaving' \intersect Outside' = leaving \intersect Outside
  BY <1>1, <1>4
<1>6. Remaining' = Remaining
  BY <1>1, <1>3 DEF Remaining, Update
<1>7. Position(p) = "wait"
  BY <1>1, <1>4 DEF Position
<1>8. \A q \in Threads : Position(q)' = IF q = p THEN "idle" ELSE Position(q)
  BY <1>1, <1>4 DEF Position
<1>9. [q \in Threads |-> Position(q)]' = [[q \in Threads |-> Position(q)] EXCEPT ![p] = "idle"]
  BY <1>8
<1>10. Implemented!Wait(p)
  BY <1>1, <1>5, <1>6, <1>7, <1>9 DEF Implemented!Wait
<1> QED
  BY <1>10 DEF Implemented!Next

\* Every step is a step of the abstract barrier or does not show.
LEMMA NextMaps ==
    ASSUME IInv, [Next]_vars
    PROVE  [Implemented!Next]_(Implemented!vars)
<1>1. CASE UNCHANGED vars
  <2>1. UNCHANGED <<expected, arrived, phase, pc, leaving, token>>
    BY <1>1 DEF vars
  <2>2. Outside' = Outside /\ Lasts' = Lasts
    BY <2>1 DEF Outside, Lasts, Completing
  <2> QED
    BY <2>1, <2>2, Unseen
<1>2. ASSUME NEW p \in Threads, Step(p), ~UNCHANGED vars
      PROVE  Implemented!Next \/ UNCHANGED Implemented!vars
  <2>1. CASE CallArrive(p) \/ LoadPhase(p) \/ LoadExpected(p) \/ Completion(p) \/ StoreArrived(p)
    BY <2>1, HiddenStep
  <2>2. CASE Drop(p)
    BY <2>2, DropMaps
  <2>3. CASE FetchSub(p)
    BY <2>3, FetchSubMaps
  <2>4. CASE StorePhase(p)
    BY <2>4, StorePhaseMaps
  <2>5. CASE Wait(p)
    BY <2>5, WaitMaps
  <2>6. ~Spin(p)
    BY <1>2 DEF Spin
  <2> QED
    BY <1>2, <2>1, <2>2, <2>3, <2>4, <2>5, <2>6 DEF Step
<1> QED
  BY <1>1, <1>2 DEF Next, Terminated

\* The barrier with a completion function implements PhaseBarrier: its three
\* atomics change as if every arrival were a single step.
THEOREM CompletionRefinement == Spec => ImplementsPhaseBarrier
<1>1. Init => Implemented!Init
  BY InitMaps
<1>2. IInv /\ [Next]_vars => [Implemented!Next]_(Implemented!vars)
  BY NextMaps
<1> QED
  BY <1>1, <1>2, CompletionInvariant, PTL DEF Spec, ImplementsPhaseBarrier, Implemented!Spec

-----------------------------------------------------------------------------
(* The barrier in one word.                                                *)

\* The count fits the upper half.
CountFits == Half \in Nat /\ Count \in 1 .. Half - 1

LEMMA WordFits == CountFits
BY HalfAssumption, CountAssumption DEF CountFits

\* An instance's finite sets are the finite sets.
LEMMA PackedSize == \A S : Packed!Cardinality(S) = Cardinality(S)
BY DEF Packed!Cardinality, Cardinality

\* PackedWord's names mean the same with and without the prefix.
LEMMA WordNames ==
    /\ PhaseBit = Packed!PhaseBit /\ Arrived = Packed!Arrived
    /\ Gone = Packed!Gone /\ Rearming = Packed!Rearming /\ Expected = Packed!Expected
<1>1. PhaseBit = Packed!PhaseBit /\ Arrived = Packed!Arrived
  BY DEF PhaseBit, Packed!PhaseBit, Arrived, Packed!Arrived
<1>2. Gone = Packed!Gone /\ Rearming = Packed!Rearming
  BY DEF Gone, Packed!Gone, Rearming, Packed!Rearming
<1>3. Expected = Packed!Expected
  BY PackedSize DEF Expected, Packed!Expected
<1> QED
  BY <1>1, <1>2, <1>3

\* And the weights of sets of threads are the same.
LEMMA PackedWeight == \A S : Packed!Weight(S) = Weight(S)
BY PackedSize DEF Packed!Weight, Packed!Arrivals, Weight, Arrivals

\* The client for which the theorems hold: no arrive_and_drop is the arrival
\* that completes a phase.
LastArrivalStays == DropsComplete = FALSE

-----------------------------------------------------------------------------
(* The word.                                                               *)

\* Taking the upper half apart.
LEMMA UpperHalf ==
    ASSUME CountFits, Packed!TypeOK
    PROVE  /\ Packed!PhaseBit \in {0, 1} /\ Packed!Arrived \in 0 .. Half - 1
           /\ Packed!PhaseBit = 1 => upper = Packed!Arrived + Half
           /\ Packed!PhaseBit = 0 => upper = Packed!Arrived
BY DEF CountFits, Packed!TypeOK, Packed!WordInRange, Packed!PhaseBit, Packed!Arrived

\* An addition that leaves room in the count does not touch the phase bit.
LEMMA AddWithin ==
    ASSUME CountFits, Packed!TypeOK, NEW u \in 0 .. Half, Packed!Arrived + u < Half,
           upper' = Packed!Add(u)
    PROVE  /\ ~Packed!Flips(u) /\ upper' \in 0 .. 2 * Half - 1
           /\ Packed!PhaseBit' = Packed!PhaseBit /\ Packed!Arrived' = Packed!Arrived + u
BY DEF CountFits, Packed!TypeOK, Packed!WordInRange, Packed!PhaseBit, Packed!Arrived, Packed!Add, Packed!Flips

\* The arrival that fills the count turns the phase bit and leaves zero.
LEMMA AddCompletes ==
    ASSUME CountFits, Packed!TypeOK, NEW u \in 1 .. Half, Packed!Arrived + u = Half,
           upper' = Packed!Add(u)
    PROVE  /\ Packed!Flips(u) /\ upper' \in 0 .. 2 * Half - 1
           /\ Packed!PhaseBit' # Packed!PhaseBit /\ Packed!Arrived' = 0
BY DEF CountFits, Packed!TypeOK, Packed!WordInRange, Packed!PhaseBit, Packed!Arrived, Packed!Add, Packed!Flips

-----------------------------------------------------------------------------
(* Sets of threads.                                                        *)

\* The threads whose arrivals the word counts, and how many arrivals these are.
LEMMA ThreadSets ==
    /\ Packed!Missing \in SUBSET Threads /\ Packed!Active \in SUBSET Threads
    /\ Weight(Packed!Missing) \in Nat /\ Weight(Packed!Active) \in Nat
<1>1. Packed!Missing \in SUBSET Threads /\ Packed!Active \in SUBSET Threads
  BY DEF Packed!Missing, Packed!Active
<1> QED
  BY <1>1, WeightType

\* How the arrival of p, which is missing, changes what is missing.
LEMMA OneMissing ==
    ASSUME NEW p \in Packed!Missing
    PROVE  /\ Share[p] \in 1 .. Count /\ Share[p] \in Nat
           /\ Weight(Packed!Missing) \in Nat /\ Weight(Packed!Missing) >= 1
           /\ Weight(Packed!Missing \ {p}) = Weight(Packed!Missing) - Share[p]
           /\ Packed!Missing = {p} => Weight(Packed!Missing) = Share[p]
           /\ Packed!Missing # {p} => Weight(Packed!Missing) > Share[p]
<1>1. Packed!Missing \in SUBSET Threads /\ Packed!Missing \ {p} \in SUBSET Threads /\ p \in Threads
  BY ThreadSets
<1>2. Weight(Packed!Missing \ {p}) \in Nat
  BY <1>1, WeightType
<1>3. Weight(Packed!Missing) = Weight(Packed!Missing \ {p}) + Share[p]
  BY <1>1, WeightRemove
<1>4. Weight(Packed!Missing \ {p}) = 0 <=> Packed!Missing \ {p} = {}
  BY <1>1, WeightEmpty
<1>5. Share[p] \in 1 .. Count /\ Share[p] \in Nat /\ Share[p] >= 1
  BY <1>1, ShareAssumption, CountAssumption
<1>6. Packed!Missing \ {p} = {} <=> Packed!Missing = {p}
  OBVIOUS
<1> QED
  BY <1>2, <1>3, <1>4, <1>5, <1>6

-----------------------------------------------------------------------------
(* The steps.                                                              *)

\* The constructor establishes the invariant.
LEMMA PackedInitIInv ==
    ASSUME CountFits, LastArrivalStays, Packed!Init
    PROVE  Packed!IInv
<1> USE BoundAssumption DEF CountFits
<1>1. Packed!TypeOK
  BY DEF Packed!Init, Packed!TypeOK, Packed!WordInRange, Packed!Locations
<1>2. Packed!Missing = Threads /\ Packed!Active = Threads /\ Packed!Rearming = {}
      /\ Packed!Gone = {}
  BY DEF Packed!Init, Packed!Missing, Packed!Active, Packed!Rearming, Packed!Gone
<1>3. Packed!Arrived = Half - Count
  BY DEF Packed!Init, Packed!Arrived
<1>4. Packed!CountsMatch
  BY <1>2, <1>3, PackedWeight, SharesAssumption DEF Packed!CountsMatch, Packed!Init
<1>5. Packed!RearmingStays /\ Packed!RoundsMatch /\ Packed!DropsOne
  BY <1>2 DEF Packed!RearmingStays, Packed!RoundsMatch, Packed!DropsOne, Packed!Init
<1>6. Threads # {}
  BY WeightEmpty, SharesAssumption
<1>7. Packed!SomeoneMissing
  BY <1>2, <1>6 DEF Packed!SomeoneMissing, Packed!Init
<1> QED
  BY <1>1, <1>4, <1>5, <1>7 DEF Packed!IInv

\* The count has room for the arrival of p, unless p is the only one missing.
LEMMA RoomInCount ==
    ASSUME CountFits, Packed!IInv, NEW p \in Packed!Missing
    PROVE  /\ Packed!Missing # {p} => Packed!Arrived + Share[p] < Half
           /\ Packed!Missing = {p} /\ p \notin Packed!Rearming =>
                Packed!Arrived + Share[p] = Half /\ Packed!Rearming = {}
<1> USE DEF CountFits
<1>1. /\ Share[p] \in 1 .. Count
      /\ Weight(Packed!Missing) \in Nat /\ Weight(Packed!Missing) >= 1
      /\ Packed!Missing # {p} => Weight(Packed!Missing) > Share[p]
      /\ Packed!Missing = {p} => Weight(Packed!Missing) = Share[p]
  BY OneMissing
<1>2. Packed!Rearming \subseteq Packed!Missing
  BY DEF Packed!IInv, Packed!RearmingStays, Packed!Rearming, Packed!Missing
<1>3. Packed!Arrived \in 0 .. Half - 1
  BY UpperHalf DEF Packed!IInv
<1>4. CASE Packed!Rearming = {}
  <2>1. Packed!Arrived + Weight(Packed!Missing) = Half
    BY <1>4, PackedWeight DEF Packed!IInv, Packed!CountsMatch
  <2> QED
    BY <1>1, <1>3, <1>4, <2>1
<1>5. CASE Packed!Rearming # {}
  <2>1. PICK q \in Packed!Rearming : TRUE
    BY <1>5
  <2>2. Packed!Arrived + rearm[q] + Weight(Packed!Missing) = Half /\ rearm[q] >= 1 /\ rearm[q] \in Nat
    BY <2>1, PackedWeight
    DEF Packed!IInv, Packed!CountsMatch, Packed!RearmingStays, Packed!TypeOK, Packed!WordInRange, Packed!Rearming
  <2> QED
    BY <1>1, <1>2, <1>3, <2>1, <2>2
<1> QED
  BY <1>4, <1>5

\* p arrives and the phase goes on; p leaves the missing threads, and its
\* location is one of those that count as arrived.
LEMMA ArriveWithin ==
    ASSUME CountFits, LastArrivalStays, Packed!IInv, NEW p \in Threads, NEW next \in {"wait",
           "dropped"}, NEW re,
           pc[p] = IF next = "wait" THEN "idle" ELSE "drop",
           Packed!SomeoneStays(p), Packed!FetchAdd(p, Share[p], next, re)
    PROVE  /\ Packed!IInv' /\ Packed!PhaseBit' = Packed!PhaseBit
           /\ Packed!Missing' = Packed!Missing \ {p} /\ pc' = [pc EXCEPT ![p] = next]
<1> USE DEF CountFits
<1>0. Packed!TypeOK
  BY DEF Packed!IInv
<1>1. p \in Packed!Missing /\ p \notin Packed!Rearming /\ p \notin Packed!Gone
  BY DEF Packed!Missing, Packed!Rearming, Packed!Gone
<1>2. PICK s \in Packed!Missing \ {p} : pc[s] # "drop"
  BY DEF Packed!SomeoneStays
<1>3. /\ Packed!Arrived + Share[p] < Half /\ upper' = Packed!Add(Share[p])
      /\ Share[p] \in 0 .. Half /\ Share[p] \in Nat
  <2>1. Packed!Missing # {p}
    BY <1>2
  <2>2. Packed!Arrived + Share[p] < Half
    BY <1>1, <2>1, RoomInCount
  <2>3. Share[p] \in 1 .. Count /\ Share[p] \in Nat
    BY <1>1, OneMissing
  <2> QED
    BY <2>2, <2>3 DEF Packed!FetchAdd
<1>4. ~Packed!Flips(Share[p]) /\ upper' \in 0 .. 2 * Half - 1 /\ Packed!PhaseBit' = Packed!PhaseBit
      /\ Packed!Arrived' = Packed!Arrived + Share[p]
  BY <1>0, <1>3, AddWithin
<1>5. /\ pc' = [pc EXCEPT ![p] = next] /\ rearm' = rearm /\ lower' = lower
      /\ token' = [token EXCEPT ![p] = Packed!PhaseBit]
      /\ round' = [round EXCEPT ![p] = @ + 1]
  BY <1>4 DEF Packed!FetchAdd
<1>6. Packed!TypeOK'
  BY <1>0, <1>4, <1>5, UpperHalf DEF Packed!TypeOK, Packed!WordInRange, Packed!Locations
<1>7. Packed!Missing' = Packed!Missing \ {p}
  BY <1>0, <1>4, <1>5 DEF Packed!TypeOK, Packed!WordInRange, Packed!Missing
<1>8. Packed!Rearming' = Packed!Rearming
  BY <1>0, <1>1, <1>5 DEF Packed!TypeOK, Packed!WordInRange, Packed!Rearming
<1>9. Packed!Active' = Packed!Active
  BY <1>0, <1>5 DEF Packed!TypeOK, Packed!WordInRange, Packed!Active
<1>10. Weight(Packed!Missing') = Weight(Packed!Missing) - Share[p]
       /\ Weight(Packed!Missing) \in Nat
  BY <1>1, <1>7, OneMissing, ThreadSets
<1>11. Packed!CountsMatch'
  <2>1. ASSUME NEW r \in Packed!Rearming PROVE rearm'[r] = rearm[r] /\ rearm[r] \in Int
    BY <1>0, <1>5 DEF Packed!TypeOK, Packed!WordInRange, Packed!Rearming
  <2>2. Packed!Arrived \in Int
    BY <1>0, UpperHalf
  <2> QED
    BY <1>3, <1>4, <1>5, <1>8, <1>9, <1>10, <2>1, <2>2, PackedWeight DEF Packed!IInv, Packed!CountsMatch
<1>12. Packed!RearmingStays'
  <2>1. ASSUME NEW r \in Packed!Rearming
        PROVE  r # p /\ pc'[r] = pc[r] /\ token'[r] = token[r] /\ rearm'[r] = rearm[r]
    BY <1>0, <1>1, <1>5 DEF Packed!TypeOK, Packed!WordInRange, Packed!Rearming
  <2> QED
    BY <1>4, <1>8, <2>1 DEF Packed!IInv, Packed!RearmingStays
<1>13. Packed!RoundsMatch'
  <2>1. Packed!Gone' = IF next = "dropped" THEN Packed!Gone \union {p} ELSE Packed!Gone
    BY <1>0, <1>1, <1>5 DEF Packed!TypeOK, Packed!WordInRange, Packed!Gone
  <2>2. \A q \in Threads : q # p => round'[q] = round[q]
    BY <1>0, <1>5 DEF Packed!TypeOK, Packed!WordInRange
  <2>3. round'[p] = round[p] + 1
    BY <1>0, <1>5 DEF Packed!TypeOK, Packed!WordInRange
  <2>4. \A q, r \in Packed!Missing' : round'[q] = round'[r]
    BY <1>7, <2>2 DEF Packed!IInv, Packed!RoundsMatch, Packed!Missing
  <2>5. ASSUME NEW q \in Packed!Missing', NEW r \in Threads \ (Packed!Gone' \union Packed!Missing')
        PROVE  round'[r] = round'[q] + 1
    <3>1. q \in Packed!Missing /\ q # p /\ round'[q] = round[q]
      BY <1>7, <2>2 DEF Packed!Missing
    <3>2. CASE r = p
      BY <1>1, <2>3, <3>1, <3>2 DEF Packed!IInv, Packed!RoundsMatch
    <3>3. CASE r # p
      BY <1>7, <2>1, <2>2, <3>1, <3>3 DEF Packed!IInv, Packed!RoundsMatch
    <3> QED
      BY <3>2, <3>3
  <2> QED
    BY <2>4, <2>5 DEF Packed!RoundsMatch
<1>14. Packed!SomeoneMissing'
  <2>1. s \in Packed!Missing' /\ pc'[s] = pc[s]
    BY <1>0, <1>2, <1>5, <1>7 DEF Packed!TypeOK, Packed!WordInRange, Packed!Missing
  <2> QED
    BY <1>2, <2>1 DEF Packed!SomeoneMissing
<1>15. Packed!DropsOne'
  BY <1>0, <1>5 DEF Packed!IInv, Packed!DropsOne, Packed!TypeOK, Packed!WordInRange
<1> QED
  BY <1>4, <1>5, <1>6, <1>7, <1>11, <1>12, <1>13, <1>14, <1>15 DEF Packed!IInv

\* p is the last one missing: it completes the phase and is about to re-arm.
LEMMA ArriveCompletes ==
    ASSUME CountFits, LastArrivalStays, Packed!IInv, NEW p \in Threads, pc[p] = "idle",
           Packed!Missing = {p},
           Packed!FetchAdd(p, Share[p], "wait", "rearm")
    PROVE  /\ Packed!IInv' /\ Packed!PhaseBit' # Packed!PhaseBit
           /\ Packed!Missing' = Packed!Active /\ pc' = [pc EXCEPT ![p] = "rearm"]
<1> USE DEF CountFits
<1>0. Packed!TypeOK
  BY DEF Packed!IInv
<1>1. p \in Packed!Missing /\ p \notin Packed!Rearming /\ p \notin Packed!Gone
  BY DEF Packed!Missing, Packed!Rearming, Packed!Gone
<1>2. /\ Packed!Arrived + Share[p] = Half /\ Packed!Rearming = {}
      /\ upper' = Packed!Add(Share[p]) /\ Share[p] \in 1 .. Half
  BY <1>1, RoomInCount, OneMissing DEF Packed!FetchAdd
<1>3. Packed!Flips(Share[p]) /\ upper' \in 0 .. 2 * Half - 1 /\ Packed!PhaseBit' # Packed!PhaseBit
      /\ Packed!Arrived' = 0
  BY <1>0, <1>2, AddCompletes
<1>4. /\ pc' = [pc EXCEPT ![p] = "rearm"] /\ rearm' = [rearm EXCEPT ![p] = lower]
      /\ lower' = lower
      /\ token' = [token EXCEPT ![p] = Packed!PhaseBit]
      /\ round' = [round EXCEPT ![p] = @ + 1]
  BY <1>3 DEF Packed!FetchAdd
<1>5. Packed!TypeOK'
  BY <1>0, <1>3, <1>4, UpperHalf DEF Packed!TypeOK, Packed!WordInRange, Packed!Locations
<1>6. ASSUME NEW q \in Threads, q # p
      PROVE  pc[q] \in {"wait", "dropped"} /\ (pc[q] = "wait" => token[q] = Packed!PhaseBit)
  BY <1>0, <1>2, <1>6 DEF Packed!TypeOK, Packed!WordInRange, Packed!Locations, Packed!Missing, Packed!Rearming
<1>7. Packed!Active' = Packed!Active
  BY <1>0, <1>4 DEF Packed!TypeOK, Packed!WordInRange, Packed!Active
<1>8. Packed!Missing' = Packed!Active
  <2>1. ASSUME NEW q \in Threads PROVE q \in Packed!Missing' <=> q \in Packed!Active
    <3>1. CASE q = p
      BY <1>0, <1>3, <1>4, <3>1 DEF Packed!TypeOK, Packed!WordInRange, Packed!Missing, Packed!Active
    <3>2. CASE q # p
      BY <1>0, <1>3, <1>4, <1>6, <3>2 DEF Packed!TypeOK, Packed!WordInRange, Packed!Missing, Packed!Active
    <3> QED
      BY <3>1, <3>2
  <2> QED
    BY <2>1 DEF Packed!Missing, Packed!Active
<1>9. Packed!Rearming' = {p}
  BY <1>0, <1>2, <1>4 DEF Packed!TypeOK, Packed!WordInRange, Packed!Rearming
<1>10. Weight(Packed!Active) \in Nat /\ Weight(Packed!Active) <= Count
  <2>1. Weight(Packed!Active) <= Weight(Threads)
    BY ThreadSets, WeightMonotone
  <2> QED
    BY <2>1, ThreadSets, SharesAssumption
<1>11. lower + Weight(Packed!Active) = Half /\ rearm'[p] = lower /\ lower \in Int
  BY <1>0, <1>4, PackedWeight DEF Packed!IInv, Packed!CountsMatch, Packed!TypeOK, Packed!WordInRange
<1>12. Packed!CountsMatch'
  BY <1>3, <1>4, <1>7, <1>8, <1>9, <1>10, <1>11, PackedWeight DEF Packed!CountsMatch
<1>13. Packed!RearmingStays'
  <2>1. pc'[p] = "rearm" /\ token'[p] = Packed!PhaseBit /\ rearm'[p] >= 1
    BY <1>0, <1>4, <1>10, <1>11 DEF Packed!TypeOK, Packed!WordInRange
  <2> QED
    BY <1>3, <1>9, <2>1 DEF Packed!RearmingStays
<1>14. Packed!RoundsMatch'
  <2>1. ASSUME NEW q \in Packed!Active PROVE round'[q] = round[p] + 1
    <3>1. CASE q = p
      BY <1>0, <1>4, <3>1 DEF Packed!TypeOK, Packed!WordInRange
    <3>2. CASE q # p
      <4>1. q \in Threads \ (Packed!Gone \union Packed!Missing)
        BY <3>2, <1>6 DEF Packed!Active, Packed!Gone
      <4>2. round'[q] = round[q]
        BY <1>0, <1>4, <3>2 DEF Packed!TypeOK, Packed!WordInRange, Packed!Active
      <4> QED
        BY <1>1, <4>1, <4>2 DEF Packed!IInv, Packed!RoundsMatch
    <3> QED
      BY <3>1, <3>2
  <2>2. Threads \ (Packed!Gone' \union Packed!Missing') = {}
    <3>1. ASSUME NEW q \in Threads, q \notin Packed!Active PROVE q \in Packed!Gone'
      BY <1>0, <1>4, <1>6, <3>1 DEF Packed!TypeOK, Packed!WordInRange, Packed!Active, Packed!Gone
    <3> QED
      BY <1>8, <3>1
  <2> QED
    BY <1>8, <2>1, <2>2 DEF Packed!RoundsMatch
<1>15. Packed!SomeoneMissing'
  <2>1. p \in Packed!Active /\ pc'[p] = "rearm"
    BY <1>0, <1>4 DEF Packed!Active, Packed!TypeOK, Packed!WordInRange
  <2> QED
    BY <1>8, <2>1 DEF Packed!SomeoneMissing
<1>16. Packed!DropsOne'
  BY <1>0, <1>4 DEF Packed!IInv, Packed!DropsOne, Packed!TypeOK, Packed!WordInRange
<1> QED
  BY <1>3, <1>4, <1>5, <1>8, <1>12, <1>13, <1>14, <1>15, <1>16 DEF Packed!IInv

\* The head of arrive_and_drop: p is still missing, but no longer counts among
\* those the next phase expects.
LEMMA PackedDropStep ==
    ASSUME CountFits, LastArrivalStays, Packed!IInv, NEW p \in Threads, Packed!Drop(p)
    PROVE  Packed!IInv' /\ Packed!PhaseBit' = Packed!PhaseBit
<1> USE DEF CountFits
<1>0. Packed!TypeOK
  BY DEF Packed!IInv
<1>1. /\ pc[p] = "idle" /\ pc' = [pc EXCEPT ![p] = "drop"] /\ lower' = lower + 1
      /\ upper' = upper /\ token' = token /\ rearm' = rearm /\ round' = round
  BY DEF Packed!Drop
<1>2. Packed!PhaseBit' = Packed!PhaseBit /\ Packed!Arrived' = Packed!Arrived
  BY <1>1 DEF Packed!PhaseBit, Packed!Arrived
<1>3. PICK s \in Packed!Missing \ {p} : pc[s] # "drop"
  BY DEF Packed!Drop, LastArrivalStays, Packed!SomeoneStays
<1>4. Packed!Missing' = Packed!Missing
  BY <1>0, <1>1, <1>2 DEF Packed!TypeOK, Packed!WordInRange, Packed!Missing
<1>5. Packed!Rearming' = Packed!Rearming /\ Packed!Gone' = Packed!Gone
  BY <1>0, <1>1 DEF Packed!TypeOK, Packed!WordInRange, Packed!Rearming, Packed!Gone
<1>6. Packed!Active' = Packed!Active \ {p} /\ p \in Packed!Active
  BY <1>0, <1>1 DEF Packed!TypeOK, Packed!WordInRange, Packed!Active
<1>7. /\ Weight(Packed!Active') = Weight(Packed!Active) - 1
      /\ Weight(Packed!Active) \in Nat /\ Weight(Packed!Active') \in Nat
  <2>1. p \in Droppers /\ Share[p] = 1
    BY DroppersAssumption DEF Packed!Drop
  <2>2. Packed!Active \in SUBSET Threads /\ Packed!Active \ {p} \in SUBSET Threads
    BY ThreadSets
  <2>3. Weight(Packed!Active) = Weight(Packed!Active \ {p}) + Share[p]
    BY <1>6, <2>2, WeightRemove
  <2>4. Weight(Packed!Active \ {p}) \in Nat
    BY <2>2, WeightType
  <2> QED
    BY <1>6, <2>1, <2>3, <2>4
<1>8. lower + Weight(Packed!Active) = Half /\ lower \in 0 .. Half
  BY <1>0, PackedWeight DEF Packed!IInv, Packed!CountsMatch, Packed!TypeOK, Packed!WordInRange
<1>9. Packed!TypeOK'
  BY <1>0, <1>1, <1>7, <1>8 DEF Packed!TypeOK, Packed!WordInRange, Packed!Locations
<1>10. Packed!CountsMatch'
  BY <1>1, <1>2, <1>4, <1>5, <1>7, <1>8, PackedWeight DEF Packed!IInv, Packed!CountsMatch
<1>11. Packed!RearmingStays'
  <2>1. ASSUME NEW r \in Packed!Rearming PROVE pc'[r] = pc[r]
    BY <1>0, <1>1 DEF Packed!TypeOK, Packed!WordInRange, Packed!Rearming
  <2> QED
    BY <1>1, <1>2, <1>5, <2>1 DEF Packed!IInv, Packed!RearmingStays
<1>12. Packed!RoundsMatch'
  BY <1>1, <1>4, <1>5 DEF Packed!IInv, Packed!RoundsMatch
<1>13. Packed!SomeoneMissing'
  <2>1. s \in Packed!Missing' /\ pc'[s] = pc[s]
    BY <1>0, <1>1, <1>3, <1>4 DEF Packed!TypeOK, Packed!WordInRange, Packed!Missing
  <2> QED
    BY <1>3, <2>1 DEF Packed!SomeoneMissing
<1>14. Packed!DropsOne'
  BY <1>0, <1>1 DEF Packed!Drop, Packed!IInv, Packed!DropsOne, Packed!TypeOK, Packed!WordInRange
<1> QED
  BY <1>2, <1>9, <1>10, <1>11, <1>12, <1>13, <1>14 DEF Packed!IInv

\* The re-arm never carries into the phase bit: its own thread is missing.
LEMMA RearmStep ==
    ASSUME CountFits, Packed!IInv, NEW p \in Threads, Packed!Rearm(p)
    PROVE  Packed!IInv' /\ Packed!PhaseBit' = Packed!PhaseBit
<1> USE DEF CountFits
<1>0. Packed!TypeOK
  BY DEF Packed!IInv
<1>1. p \in Packed!Rearming
  BY DEF Packed!Rearm, Packed!Rearming
<1>2. /\ pc[p] = "rearm" /\ token[p] # Packed!PhaseBit /\ rearm[p] \in 0 .. Half
      /\ Packed!Rearming = {p}
      /\ Packed!Arrived + rearm[p] + Weight(Packed!Missing) = Half
  BY <1>0, <1>1, PackedWeight DEF Packed!IInv, Packed!RearmingStays, Packed!CountsMatch, Packed!TypeOK, Packed!WordInRange
<1>3. /\ pc' = [pc EXCEPT ![p] = "wait"] /\ lower' = lower
      /\ upper' = Packed!Add(rearm[p]) /\ token' = token /\ rearm' = rearm /\ round' = round
  BY <1>2 DEF Packed!Rearm
<1>4. p \in Packed!Missing
  BY <1>2 DEF Packed!Missing
<1>5. Weight(Packed!Missing) \in Nat /\ Weight(Packed!Missing) >= 1
  BY <1>4, ThreadSets, OneMissing
<1>6. Packed!Arrived + rearm[p] < Half
  BY <1>0, <1>2, <1>5, UpperHalf
<1>7. /\ upper' \in 0 .. 2 * Half - 1
      /\ Packed!PhaseBit' = Packed!PhaseBit /\ Packed!Arrived' = Packed!Arrived + rearm[p]
  BY <1>0, <1>2, <1>3, <1>6, AddWithin
<1>8. Packed!TypeOK'
  BY <1>0, <1>3, <1>7 DEF Packed!TypeOK, Packed!WordInRange, Packed!Locations
<1>9. Packed!Missing' = Packed!Missing
  BY <1>0, <1>2, <1>3, <1>7 DEF Packed!TypeOK, Packed!WordInRange, Packed!Missing
<1>10. Packed!Rearming' = {}
  BY <1>0, <1>2, <1>3 DEF Packed!TypeOK, Packed!WordInRange, Packed!Rearming
<1>11. Packed!Active' = Packed!Active /\ Packed!Gone' = Packed!Gone
  BY <1>0, <1>2, <1>3 DEF Packed!TypeOK, Packed!WordInRange, Packed!Active, Packed!Gone
<1>12. Packed!CountsMatch'
  BY <1>2, <1>3, <1>7, <1>9, <1>10, <1>11, PackedWeight DEF Packed!IInv, Packed!CountsMatch
<1>13. Packed!RearmingStays'
  BY <1>10 DEF Packed!RearmingStays
<1>14. Packed!RoundsMatch'
  BY <1>3, <1>9, <1>11 DEF Packed!IInv, Packed!RoundsMatch
<1>15. Packed!SomeoneMissing'
  BY <1>0, <1>3, <1>4, <1>9 DEF Packed!SomeoneMissing, Packed!TypeOK, Packed!WordInRange
<1>16. Packed!DropsOne'
  BY <1>0, <1>3 DEF Packed!IInv, Packed!DropsOne, Packed!TypeOK, Packed!WordInRange
<1> QED
  BY <1>7, <1>8, <1>12, <1>13, <1>14, <1>15, <1>16 DEF Packed!IInv

\* A wait that returns leaves its thread missing in the phase that has begun.
LEMMA PackedWaitStep ==
    ASSUME CountFits, Packed!IInv, NEW p \in Threads, Packed!Wait(p)
    PROVE  Packed!IInv' /\ Packed!PhaseBit' = Packed!PhaseBit
<1>0. Packed!TypeOK
  BY DEF Packed!IInv
<1>1. /\ pc[p] = "wait" /\ Packed!PhaseBit # token[p] /\ pc' = [pc EXCEPT ![p] = "idle"]
      /\ upper' = upper /\ lower' = lower
      /\ token' = token /\ rearm' = rearm /\ round' = round
  BY DEF Packed!Wait
<1>2. Packed!PhaseBit' = Packed!PhaseBit /\ Packed!Arrived' = Packed!Arrived
  BY <1>1 DEF Packed!PhaseBit, Packed!Arrived
<1>3. Packed!Missing' = Packed!Missing
  BY <1>0, <1>1, <1>2 DEF Packed!TypeOK, Packed!WordInRange, Packed!Missing
<1>4. Packed!Rearming' = Packed!Rearming /\ Packed!Gone' = Packed!Gone
      /\ Packed!Active' = Packed!Active
  BY <1>0, <1>1 DEF Packed!TypeOK, Packed!WordInRange, Packed!Rearming, Packed!Gone, Packed!Active
<1>5. Packed!TypeOK'
  BY <1>0, <1>1 DEF Packed!TypeOK, Packed!WordInRange, Packed!Locations
<1>6. Packed!CountsMatch' /\ Packed!RoundsMatch'
  BY <1>1, <1>2, <1>3, <1>4, PackedWeight DEF Packed!IInv, Packed!CountsMatch, Packed!RoundsMatch
<1>7. Packed!RearmingStays'
  <2>1. ASSUME NEW r \in Packed!Rearming PROVE pc'[r] = pc[r]
    BY <1>0, <1>1 DEF Packed!TypeOK, Packed!WordInRange, Packed!Rearming
  <2> QED
    BY <1>1, <1>2, <1>4, <2>1 DEF Packed!IInv, Packed!RearmingStays
<1>8. Packed!SomeoneMissing'
  BY <1>0, <1>1, <1>3 DEF Packed!IInv, Packed!SomeoneMissing, Packed!TypeOK, Packed!WordInRange, Packed!Missing
<1>9. Packed!DropsOne'
  BY <1>0, <1>1 DEF Packed!IInv, Packed!DropsOne, Packed!TypeOK, Packed!WordInRange
<1> QED
  BY <1>2, <1>5, <1>6, <1>7, <1>8, <1>9 DEF Packed!IInv

\* A poll that fails, and the end of the program, change nothing.
LEMMA StutterStep ==
    ASSUME CountFits, Packed!IInv, UNCHANGED Packed!vars
    PROVE  Packed!IInv' /\ Packed!PhaseBit' = Packed!PhaseBit
BY PackedWeight
DEF Packed!IInv, Packed!vars, Packed!TypeOK, Packed!WordInRange, Packed!CountsMatch, Packed!RearmingStays,
    Packed!RoundsMatch, Packed!SomeoneMissing, Packed!DropsOne,
       Packed!Missing, Packed!Rearming, Packed!Active, Packed!Gone, Packed!PhaseBit, Packed!Arrived

\* Every step keeps the invariant, and only the arrival of the last missing
\* thread turns the phase.
LEMMA PackedNextIInv ==
    ASSUME CountFits, LastArrivalStays, Packed!IInv, [Packed!Next]_(Packed!vars)
    PROVE  /\ Packed!IInv'
           /\ Packed!PhaseBit' = Packed!PhaseBit \/ \E p \in Threads : pc[p] = "idle" /\ Packed!Missing = {p}
<1>1. ASSUME NEW p \in Threads, Packed!Arrive(p)
      PROVE  Packed!IInv' /\ (Packed!PhaseBit' = Packed!PhaseBit \/ (pc[p] = "idle" /\ Packed!Missing = {p}))
  <2>1. pc[p] = "idle" /\ Packed!FetchAdd(p, Share[p], "wait", "rearm")
      /\ (Packed!SomeoneStays(p) \/ Packed!Missing = {p})
    BY <1>1 DEF Packed!Arrive, LastArrivalStays
  <2>2. CASE Packed!SomeoneStays(p)
    BY <2>1, <2>2, ArriveWithin
  <2>3. CASE Packed!Missing = {p}
    BY <2>1, <2>3, ArriveCompletes
  <2> QED
    BY <2>1, <2>2, <2>3
<1>2. ASSUME NEW p \in Threads, Packed!DropArrive(p)
      PROVE  Packed!IInv' /\ Packed!PhaseBit' = Packed!PhaseBit
  <2>1. pc[p] = "drop" /\ Packed!FetchAdd(p, Share[p], "dropped", "rearm_drop")
    BY <1>2, DroppersAssumption DEF Packed!DropArrive, Packed!IInv, Packed!DropsOne
  <2>2. Packed!SomeoneStays(p)
    BY <2>1 DEF Packed!IInv, Packed!SomeoneMissing, Packed!SomeoneStays
  <2> QED
    BY <2>1, <2>2, ArriveWithin
<1>3. ASSUME NEW p \in Threads, Packed!Step(p)
      PROVE  Packed!IInv' /\ (Packed!PhaseBit' = Packed!PhaseBit \/ (pc[p] = "idle" /\ Packed!Missing = {p}))
  BY <1>1, <1>2, <1>3, PackedDropStep, RearmStep, PackedWaitStep, StutterStep
  DEF Packed!Step, Packed!Spin
<1> QED
  BY <1>3, StutterStep DEF Packed!Next, Packed!Terminated

-----------------------------------------------------------------------------
(* The expected count.                                                     *)

\* The threads between the two fetch_adds of arrive_and_drop.
Dropping == {p \in Threads : pc[p] = "drop"}

\* The expected count of a phase is what the word says and who is dropping.
LEMMA ExpectedCounts ==
    /\ Packed!Expected = Half - lower + Cardinality(Dropping)
    /\ IsFiniteSet(Dropping) /\ Cardinality(Dropping) \in Nat
<1>1. Dropping \in SUBSET Threads
  BY DEF Dropping
<1>2. IsFiniteSet(Dropping) /\ Cardinality(Dropping) \in Nat
  BY <1>1, ThreadsAssumption, FS_Subset, FS_CardinalityType
<1> QED
  BY <1>2, PackedSize DEF Packed!Expected, Dropping

\* A thread that drops arrives for one.
LEMMA DroppingWeight ==
    ASSUME Packed!IInv, NEW S \in SUBSET Threads, S \intersect Dropping = {}
    PROVE  Weight(S \union Dropping) = Weight(S) + Cardinality(Dropping)
<1>1. \A p \in Dropping : Share[p] = 1
  BY DroppersAssumption DEF Dropping, Packed!IInv, Packed!DropsOne
<1>2. Dropping \in SUBSET Threads /\ IsFiniteSet(Dropping) /\ Cardinality(Dropping) \in Nat
  BY ExpectedCounts DEF Dropping
<1>3. Arrivals(Dropping) = Dropping \X {1}
  BY <1>1, CountAssumption DEF Arrivals
<1>4. IsFiniteSet({1}) /\ Cardinality({1}) = 1
  BY FS_Singleton
<1>5. Cardinality(Dropping \X {1}) = Cardinality(Dropping) * Cardinality({1})
  BY <1>2, <1>4, FS_Product
<1>6. Weight(Dropping) = Cardinality(Dropping)
  BY <1>2, <1>3, <1>4, <1>5 DEF Weight
<1>7. Arrivals(S \union Dropping) = Arrivals(S) \union Arrivals(Dropping)
      /\ Arrivals(S) \intersect Arrivals(Dropping) = {}
  BY DEF Arrivals
<1>8. /\ IsFiniteSet(Arrivals(S)) /\ Weight(S) \in Nat
      /\ IsFiniteSet(Arrivals(Dropping)) /\ Cardinality({}) = 0
  BY <1>2, WeightType, FS_EmptySet
<1>9. Cardinality(Arrivals(S) \union Arrivals(Dropping)) =
        Cardinality(Arrivals(S)) + Cardinality(Arrivals(Dropping)) - Cardinality(Arrivals(S) \intersect Arrivals(Dropping))
  BY <1>8, FS_Union
<1>10. Weight(S \union Dropping) = Weight(S) + Weight(Dropping) - 0
  BY <1>7, <1>8, <1>9 DEF Weight
<1> QED
  BY <1>2, <1>6, <1>8, <1>10

-----------------------------------------------------------------------------
(* The theorems.                                                           *)

\* The invariant holds in every behaviour of the barrier under this client.
THEOREM PackedInvariant == ASSUME LastArrivalStays PROVE Packed!Spec => []Packed!IInv
<1> USE WordFits
<1>1. Packed!Init => Packed!IInv
  BY PackedInitIInv
<1>2. Packed!IInv /\ [Packed!Next]_(Packed!vars) => Packed!IInv'
  BY PackedNextIInv
<1> QED
  BY <1>1, <1>2, PTL DEF Packed!Spec

\* The second fetch_add of a completing arrive re-arms the phase in progress
\* and never ends it: the arrivals already made and the expected count it adds
\* leave room for the thread that the phase still waits for.
THEOREM PackedRearmFits == ASSUME LastArrivalStays PROVE Packed!Spec => []RearmFits
<1>1. Packed!IInv => RearmFits
  <2> USE WordFits
  <2> SUFFICES ASSUME Packed!IInv, NEW p \in Packed!Rearming PROVE Packed!Arrived + rearm[p] < Half
    BY WordNames DEF RearmFits
  <2>1. PICK q \in Packed!Missing : TRUE
    BY DEF Packed!IInv, Packed!SomeoneMissing
  <2>2. Weight(Packed!Missing) \in Nat /\ Weight(Packed!Missing) >= 1
    BY <2>1, OneMissing, ThreadSets
  <2>3. /\ Packed!Arrived + rearm[p] + Weight(Packed!Missing) = Half
        /\ Packed!Arrived \in Int /\ rearm[p] \in Int /\ Half \in Int
    BY UpperHalf, PackedWeight
    DEF CountFits, Packed!IInv, Packed!CountsMatch, Packed!TypeOK, Packed!WordInRange, Packed!Rearming
  <2> QED
    BY <2>2, <2>3
<1> QED
  BY <1>1, PackedInvariant, PTL

\* Nobody comes out of a phase that some participant has not arrived at, and
\* one phase bit is enough to tell a waiter's phase from the current one.
THEOREM PackedSynchronizes ==
    ASSUME LastArrivalStays
    PROVE  Packed!Spec => [](NoEarlyRelease /\ NoLapping)
<1>1. Packed!IInv => NoEarlyRelease /\ NoLapping
  <2> SUFFICES ASSUME Packed!IInv, NEW p \in Threads \ Packed!Gone, NEW q \in Threads \ Packed!Gone
               PROVE  (pc[p] = "idle" => round[p] <= round[q]) /\ round[p] <= round[q] + 1
    BY DEF NoEarlyRelease, NoLapping, Gone, Packed!Gone
  <2>1. round[p] \in Nat /\ round[q] \in Nat
    BY DEF Packed!IInv, Packed!TypeOK, Packed!WordInRange
  <2>2. pc[p] = "idle" => p \in Packed!Missing
    BY DEF Packed!Missing
  <2>3. CASE p \in Packed!Missing
    BY <2>1, <2>3 DEF Packed!IInv, Packed!RoundsMatch
  <2>4. CASE p \notin Packed!Missing
    <3>1. PICK s \in Packed!Missing : TRUE
      BY DEF Packed!IInv, Packed!SomeoneMissing
    <3>2. round[s] \in Nat /\ round[p] = round[s] + 1
      BY <2>4 DEF Packed!IInv, Packed!RoundsMatch, Packed!TypeOK, Packed!WordInRange, Packed!Missing
    <3>3. round[q] = round[s] \/ round[q] = round[s] + 1
      BY DEF Packed!IInv, Packed!RoundsMatch
    <3> QED
      BY <2>1, <2>2, <2>4, <3>2, <3>3
  <2> QED
    BY <2>3, <2>4
<1> QED
  BY <1>1, PackedInvariant, PTL

\* Whenever no arrival is halfway, the count has been reset: the phase needs
\* at least one arrival and at most as many as are expected of it.
THEOREM PackedCountReset == ASSUME LastArrivalStays PROVE Packed!Spec => []CountReset
<1>1. Packed!IInv => CountReset
  <2> USE WordFits
  <2> SUFFICES ASSUME Packed!IInv, Packed!Rearming = {} PROVE Half - Packed!Arrived \in 1 .. Packed!Expected
    BY WordNames DEF CountReset
  <2>1. /\ Packed!Missing \subseteq Packed!Active \union Dropping /\ Packed!Active \intersect Dropping = {}
        /\ Packed!Active \in SUBSET Threads /\ Dropping \in SUBSET Threads
    BY DEF Packed!Active, Packed!Missing, Dropping
  <2>2. Weight(Packed!Active \union Dropping) = Weight(Packed!Active) + Cardinality(Dropping)
    BY <2>1, DroppingWeight
  <2>3. Weight(Packed!Missing) <= Weight(Packed!Active \union Dropping)
    BY <2>1, WeightMonotone
  <2>4. PICK p \in Packed!Missing : TRUE
    BY DEF Packed!IInv, Packed!SomeoneMissing
  <2>5. Weight(Packed!Missing) \in Nat /\ Weight(Packed!Missing) >= 1 /\ Weight(Packed!Active) \in Nat
    BY <2>4, OneMissing, ThreadSets
  <2>6. /\ Packed!Arrived + Weight(Packed!Missing) = Half /\ Packed!Arrived \in Int /\ Half \in Int
        /\ lower + Weight(Packed!Active) = Half /\ lower \in Int
    BY UpperHalf, PackedWeight DEF CountFits, Packed!IInv, Packed!CountsMatch, Packed!TypeOK, Packed!WordInRange
  <2>7. Packed!Expected = Half - lower + Cardinality(Dropping) /\ Cardinality(Dropping) \in Nat
    BY ExpectedCounts
  <2> QED
    BY <2>2, <2>3, <2>5, <2>6, <2>7
<1> QED
  BY <1>1, PackedInvariant, PTL

\* A thread whose phase is over stays released until it is scheduled: the
\* next phase cannot end without it.
THEOREM PackedNoMissedPhase ==
    ASSUME LastArrivalStays
    PROVE  Packed!Spec => NoMissedPhase
<1> USE WordFits
<1> DEFINE Kept ==
      \A p \in Threads :
        pc[p] = "wait" /\ PhaseBit # token[p] /\ pc'[p] = "wait" => PhaseBit' # token'[p]
<1>1. Packed!IInv /\ [Packed!Next]_(Packed!vars) => Kept
  <2> SUFFICES ASSUME Packed!IInv, [Packed!Next]_(Packed!vars), NEW p \in Threads,
                      pc[p] = "wait", Packed!PhaseBit # token[p], pc'[p] = "wait"
               PROVE  Packed!PhaseBit' # token'[p]
    BY DEF PhaseBit, Packed!PhaseBit
  <2>1. p \in Packed!Missing
    BY DEF Packed!Missing
  <2>2. Packed!PhaseBit' = Packed!PhaseBit
    BY <2>1, PackedNextIInv
  <2>3. token'[p] = token[p]
    BY DEF Packed!IInv, Packed!TypeOK, Packed!WordInRange, Packed!Next, Packed!Step, Packed!Arrive, Packed!Drop,
           Packed!DropArrive, Packed!Rearm, Packed!Wait, Packed!Spin,
           Packed!Terminated, Packed!FetchAdd, Packed!vars
  <2> QED
    BY <2>2, <2>3
<1>2. Kept => [Kept]_<<upper, pc, token>>
  OBVIOUS
<1> QED
  BY <1>1, <1>2, PackedInvariant, PTL DEF Packed!Spec, NoMissedPhase

-----------------------------------------------------------------------------
(* The refinement.                                                         *)

\* What the word says is missing, a pending re-arm included, is missing.
LEMMA RemainingIsMissing ==
    ASSUME Packed!IInv, CountFits
    PROVE  Packed!Remaining = Weight(Packed!Missing)
<1>1. Packed!Arrived \in Int /\ Half \in Int /\ Weight(Packed!Missing) \in Nat
  BY UpperHalf, ThreadSets DEF Packed!IInv, CountFits
<1>2. CASE Packed!Rearming = {}
  <2>1. Packed!Arrived + Weight(Packed!Missing) = Half
    BY <1>2, PackedWeight DEF Packed!IInv, Packed!CountsMatch
  <2> QED
    BY <1>1, <1>2, <2>1 DEF Packed!Remaining
<1>3. CASE Packed!Rearming # {}
  <2> DEFINE r == CHOOSE p \in Packed!Rearming : TRUE
  <2>1. r \in Packed!Rearming
    BY <1>3
  <2>2. Packed!Remaining = Half - Packed!Arrived - rearm[r]
    BY <1>3 DEF Packed!Remaining
  <2> HIDE DEF r
  <2>3. Packed!Arrived + rearm[r] + Weight(Packed!Missing) = Half /\ rearm[r] \in Int
    BY <2>1, PackedWeight DEF Packed!IInv, Packed!CountsMatch, Packed!TypeOK, Packed!WordInRange, Packed!Rearming
  <2> QED
    BY <1>1, <2>2, <2>3
<1> QED
  BY <1>2, <1>3

\* The same of the state after a step.
LEMMA RemainingIsMissingThen ==
    ASSUME Packed!IInv', CountFits
    PROVE  Packed!Remaining' = Weight(Packed!Missing')
<1>1. Packed!Arrived' \in Int /\ Half \in Int /\ Weight(Packed!Missing') \in Nat
  <2>1. Packed!Missing' \in SUBSET Threads
    BY DEF Packed!Missing
  <2>2. Packed!Arrived' \in Int
    BY DEF Packed!IInv, Packed!TypeOK, Packed!WordInRange, Packed!Arrived, CountFits
  <2> QED
    BY <2>1, <2>2, WeightType DEF CountFits
<1>2. CASE Packed!Rearming' = {}
  <2>1. Packed!Arrived' + Weight(Packed!Missing') = Half
    BY <1>2, PackedWeight DEF Packed!IInv, Packed!CountsMatch
  <2> QED
    BY <1>1, <1>2, <2>1 DEF Packed!Remaining
<1>3. CASE Packed!Rearming' # {}
  <2> DEFINE r == CHOOSE p \in Packed!Rearming' : TRUE
  <2>1. r \in Packed!Rearming'
    BY <1>3
  <2>2. Packed!Remaining' = Half - Packed!Arrived' - rearm'[r]
    BY <1>3 DEF Packed!Remaining
  <2> HIDE DEF r
  <2>3. Packed!Arrived' + rearm'[r] + Weight(Packed!Missing') = Half /\ rearm'[r] \in Int
    BY <2>1, PackedWeight DEF Packed!IInv, Packed!CountsMatch, Packed!TypeOK, Packed!WordInRange, Packed!Rearming
  <2> QED
    BY <1>1, <2>2, <2>3
<1> QED
  BY <1>2, <1>3

\* The constructor starts the abstract barrier.
LEMMA PackedInitMaps ==
    ASSUME CountFits, LastArrivalStays, Packed!Init
    PROVE  Packed!Implemented!Init
<1>1. Packed!Missing = Threads /\ Dropping = {} /\ Packed!Gone = {}
  BY DEF Packed!Init, Packed!Missing, Dropping, Packed!Gone
<1>2. Packed!Remaining = Count
  BY <1>1, PackedInitIInv, RemainingIsMissing, SharesAssumption
<1>3. Packed!Expected = Count
  <2>1. Cardinality(Dropping) = 0
    BY <1>1, FS_EmptySet
  <2>2. lower = Half - Count /\ Half \in Int /\ Count \in Int
    BY DEF Packed!Init, CountFits
  <2> QED
    BY <2>1, <2>2, ExpectedCounts
<1>4. Packed!PhaseBit = 0
  BY DEF Packed!Init, Packed!PhaseBit, CountFits
<1>5. [p \in Threads |-> Packed!Position(p)] = [p \in Threads |-> "idle"]
  BY DEF Packed!Position, Packed!Init
<1>6. [p \in Threads |-> IF p \in Packed!Gone THEN 0 ELSE token[p]] = [p \in Threads |-> 0]
  BY <1>1 DEF Packed!Init
<1> QED
  BY <1>2, <1>3, <1>4, <1>5, <1>6 DEF Packed!Implemented!Init

\* A step that moves p alone to l moves the abstract thread p alone.
LEMMA MoveShows ==
    ASSUME Packed!TypeOK, NEW p \in Threads, NEW l, pc' = [pc EXCEPT ![p] = l]
    PROVE  [q \in Threads |-> Packed!Position(q)]' =
             [[q \in Threads |-> Packed!Position(q)] EXCEPT
                ![p] = CASE l \in {"idle", "drop"}  -> "idle"
                         [] l \in {"wait", "rearm"} -> "wait"
                         [] OTHER                   -> "dropped"]
<1>1. \A q \in Threads : pc'[q] = IF q = p THEN l ELSE pc[q]
  BY DEF Packed!TypeOK, Packed!WordInRange
<1>2. \A q \in Threads : q # p => Packed!Position(q)' = Packed!Position(q)
  BY <1>1 DEF Packed!Position
<1>3. Packed!Position(p)' = CASE l \in {"idle", "drop"}  -> "idle"
                              [] l \in {"wait", "rearm"} -> "wait"
                              [] OTHER                   -> "dropped"
  BY <1>1 DEF Packed!Position
<1> QED
  BY <1>2, <1>3

\* arrive takes effect with its first fetch_add, also when it is the last
\* arrival of its phase and has yet to re-arm.
LEMMA ArriveMaps ==
    ASSUME CountFits, LastArrivalStays, Packed!IInv, NEW p \in Threads, Packed!Arrive(p)
    PROVE  Packed!Implemented!Next
<1>0. Packed!TypeOK
  BY DEF Packed!IInv
<1>1. /\ pc[p] = "idle" /\ Packed!FetchAdd(p, Share[p], "wait", "rearm")
      /\ Packed!SomeoneStays(p) \/ Packed!Missing = {p}
  BY DEF Packed!Arrive, LastArrivalStays
<1>2. p \in Packed!Missing /\ p \notin Packed!Gone
  BY <1>1 DEF Packed!Missing, Packed!Gone
<1>3. lower' = lower /\ token' = [token EXCEPT ![p] = Packed!PhaseBit]
  BY <1>1 DEF Packed!FetchAdd
<1>4. PICK l \in {"wait", "rearm"} : pc' = [pc EXCEPT ![p] = l]
  BY <1>1 DEF Packed!FetchAdd
<1>5. Dropping' = Dropping /\ Packed!Gone' = Packed!Gone
  BY <1>0, <1>1, <1>4 DEF Dropping, Packed!Gone, Packed!TypeOK, Packed!WordInRange
<1>6. Packed!Expected' = Packed!Expected
  <2>1. Packed!Expected' = Half - lower' + Cardinality(Dropping')
    BY PackedSize DEF Packed!Expected, Dropping
  <2> QED
    BY <1>3, <1>5, <2>1, ExpectedCounts
<1>7. [q \in Threads |-> Packed!Position(q)]' = [[q \in Threads |-> Packed!Position(q)] EXCEPT ![p] = "wait"]
  BY <1>0, <1>4, MoveShows
<1>8. [q \in Threads |-> IF q \in Packed!Gone THEN 0 ELSE token[q]]' =
        [[q \in Threads |-> IF q \in Packed!Gone THEN 0 ELSE token[q]] EXCEPT ![p] = Packed!PhaseBit]
  BY <1>0, <1>2, <1>3, <1>5 DEF Packed!TypeOK, Packed!WordInRange
<1>9. Packed!Position(p) = "idle"
  BY <1>1 DEF Packed!Position
<1>10. Packed!Remaining = Weight(Packed!Missing)
  BY RemainingIsMissing
<1>11. /\ Share[p] \in Nat /\ Weight(Packed!Missing) \in Nat
       /\ Weight(Packed!Missing \ {p}) = Weight(Packed!Missing) - Share[p]
       /\ Packed!Missing = {p} => Weight(Packed!Missing) = Share[p]
       /\ Packed!Missing # {p} => Weight(Packed!Missing) > Share[p]
  BY <1>2, OneMissing
<1>12. Packed!Implemented!CountDown(Share[p], Packed!Expected)
  <2>1. CASE Packed!SomeoneStays(p)
    <3>1. Packed!Missing # {p}
      BY <2>1 DEF Packed!SomeoneStays
    <3>2. /\ Packed!IInv' /\ Packed!PhaseBit' = Packed!PhaseBit
          /\ Packed!Missing' = Packed!Missing \ {p}
      BY <1>1, <2>1, ArriveWithin
    <3>3. Packed!Remaining' = Weight(Packed!Missing')
      BY <3>2, RemainingIsMissingThen
    <3>4. /\ Share[p] <= Packed!Remaining /\ Share[p] # Packed!Remaining
          /\ Packed!Remaining' = Packed!Remaining - Share[p]
      BY <1>10, <1>11, <3>1, <3>2, <3>3
    <3> QED
      BY <1>6, <3>2, <3>4 DEF Packed!Implemented!CountDown
  <2>2. CASE Packed!Missing = {p}
    <3>1. /\ Packed!IInv' /\ Packed!PhaseBit' # Packed!PhaseBit
          /\ Packed!Missing' = Packed!Active
      BY <1>1, <2>2, ArriveCompletes
    <3>2. Packed!Remaining' = Weight(Packed!Active)
      BY <3>1, RemainingIsMissingThen
    <3>3. Dropping = {} /\ Cardinality({}) = 0
      BY <1>1, <2>2, FS_EmptySet DEF Dropping, Packed!Missing
    <3>4. lower + Weight(Packed!Active) = Half /\ lower \in Int /\ Weight(Packed!Active) \in Nat /\ Half \in Int
      BY <1>0, PackedWeight, ThreadSets DEF Packed!IInv, Packed!CountsMatch, Packed!TypeOK, Packed!WordInRange, CountFits
    <3>5. Packed!Expected = Weight(Packed!Active)
      <4>1. Packed!Expected = Half - lower + 0
        BY <3>3, ExpectedCounts
      <4> QED
        BY <3>4, <4>1
    <3>6. Packed!PhaseBit \in {0, 1} /\ Packed!PhaseBit' \in {0, 1}
      BY DEF Packed!PhaseBit
    <3>7. Packed!PhaseBit' = 1 - Packed!PhaseBit
      BY <3>1, <3>6
    <3>8. Share[p] <= Packed!Remaining /\ Share[p] = Packed!Remaining
      BY <1>10, <1>11, <2>2
    <3> QED
      BY <1>6, <3>2, <3>5, <3>7, <3>8 DEF Packed!Implemented!CountDown
  <2> QED
    BY <1>1, <2>1, <2>2
<1>13. Packed!Implemented!Arrive(p)
  BY <1>7, <1>8, <1>9, <1>12 DEF Packed!Implemented!Arrive
<1> QED
  BY <1>13 DEF Packed!Implemented!Next

\* arrive_and_drop takes effect with its second fetch_add.
LEMMA DropArriveMaps ==
    ASSUME CountFits, LastArrivalStays, Packed!IInv, NEW p \in Threads, Packed!DropArrive(p)
    PROVE  Packed!Implemented!Next
<1>0. Packed!TypeOK
  BY DEF Packed!IInv
<1>1. Share[p] = 1
  BY DroppersAssumption DEF Packed!DropArrive, Packed!IInv, Packed!DropsOne
<1>2. pc[p] = "drop" /\ Packed!FetchAdd(p, Share[p], "dropped", "rearm_drop")
  BY <1>1 DEF Packed!DropArrive
<1>3. Packed!SomeoneStays(p)
  BY <1>2 DEF Packed!IInv, Packed!SomeoneMissing, Packed!SomeoneStays
<1>4. /\ Packed!IInv' /\ Packed!PhaseBit' = Packed!PhaseBit
      /\ Packed!Missing' = Packed!Missing \ {p} /\ pc' = [pc EXCEPT ![p] = "dropped"]
  BY <1>2, <1>3, ArriveWithin
<1>5. p \in Packed!Missing /\ p \in Dropping
  BY <1>2 DEF Packed!Missing, Dropping
<1>6. lower' = lower /\ token' = [token EXCEPT ![p] = Packed!PhaseBit]
  BY <1>2 DEF Packed!FetchAdd
<1>7. Dropping' = Dropping \ {p} /\ Packed!Gone' = Packed!Gone \union {p}
  BY <1>0, <1>2, <1>4 DEF Dropping, Packed!Gone, Packed!TypeOK, Packed!WordInRange
<1>8. Packed!Expected' = Packed!Expected - 1
  <2>1. Packed!Expected' = Half - lower' + Cardinality(Dropping')
    BY PackedSize DEF Packed!Expected, Dropping
  <2>2. IsFiniteSet(Dropping) /\ Cardinality(Dropping) \in Nat
    BY ExpectedCounts
  <2>3. Cardinality(Dropping') = Cardinality(Dropping) - 1
    BY <1>5, <1>7, <2>2, FS_RemoveElement
  <2>4. lower \in Int /\ Half \in Int
    BY <1>0 DEF Packed!TypeOK, Packed!WordInRange, CountFits
  <2> QED
    BY <1>6, <2>1, <2>2, <2>3, <2>4, ExpectedCounts
<1>9. [q \in Threads |-> Packed!Position(q)]' = [[q \in Threads |-> Packed!Position(q)] EXCEPT ![p] = "dropped"]
  BY <1>0, <1>4, MoveShows
<1>10. [q \in Threads |-> IF q \in Packed!Gone THEN 0 ELSE token[q]]' =
         [[q \in Threads |-> IF q \in Packed!Gone THEN 0 ELSE token[q]] EXCEPT ![p] = 0]
  BY <1>0, <1>6, <1>7 DEF Packed!TypeOK, Packed!WordInRange
<1>11. Packed!Position(p) = "idle"
  BY <1>2 DEF Packed!Position
<1>12. Packed!Remaining = Weight(Packed!Missing) /\ Packed!Remaining' = Weight(Packed!Missing \ {p})
  BY <1>4, RemainingIsMissing, RemainingIsMissingThen
<1>13. /\ Weight(Packed!Missing) \in Nat /\ Weight(Packed!Missing) > 1
       /\ Weight(Packed!Missing \ {p}) = Weight(Packed!Missing) - 1
  <2>1. Packed!Missing # {p}
    BY <1>3 DEF Packed!SomeoneStays
  <2> QED
    BY <1>1, <1>5, <2>1, OneMissing
<1>14. Packed!Implemented!CountDown(1, Packed!Expected - 1)
  <2>1. 1 <= Packed!Remaining /\ 1 # Packed!Remaining /\ Packed!Remaining' = Packed!Remaining - 1
    BY <1>12, <1>13
  <2> QED
    BY <1>4, <1>8, <2>1 DEF Packed!Implemented!CountDown
<1>15. Packed!Implemented!ArriveAndDrop(p)
  BY <1>9, <1>10, <1>11, <1>14 DEF Packed!Implemented!ArriveAndDrop
<1> QED
  BY <1>15 DEF Packed!Implemented!Next

\* The head of arrive_and_drop and the re-arm do not show.
LEMMA UnseenMaps ==
    ASSUME CountFits, LastArrivalStays, Packed!IInv, NEW p \in Threads,
           Packed!Drop(p) \/ Packed!Rearm(p)
    PROVE  UNCHANGED Packed!Implemented!vars
<1>0. Packed!TypeOK
  BY DEF Packed!IInv
<1>1. Packed!IInv' /\ Packed!PhaseBit' = Packed!PhaseBit
  BY PackedDropStep, RearmStep
<1>2. PICK l : /\ pc' = [pc EXCEPT ![p] = l] /\ token' = token
               /\ \/ pc[p] = "idle" /\ l = "drop" /\ lower' = lower + 1
                  \/ pc[p] = "rearm" /\ l = "wait" /\ lower' = lower
  <2>1. CASE Packed!Drop(p)
    BY <2>1 DEF Packed!Drop
  <2>2. CASE Packed!Rearm(p)
    <3>1. pc[p] = "rearm"
      BY <2>2 DEF Packed!Rearm, Packed!IInv, Packed!RearmingStays, Packed!Rearming
    <3> QED
      BY <2>2, <3>1 DEF Packed!Rearm
  <2> QED
    BY <2>1, <2>2
<1>3. \A q \in Threads : pc'[q] = IF q = p THEN l ELSE pc[q]
  BY <1>0, <1>2 DEF Packed!TypeOK, Packed!WordInRange
<1>4. Packed!Gone' = Packed!Gone
  BY <1>2, <1>3 DEF Packed!Gone
<1>5. Packed!Missing' = Packed!Missing
  <2>1. \A q \in Threads : q \in Packed!Missing' <=> q \in Packed!Missing
    <3>1. p \in Packed!Rearming => token[p] # Packed!PhaseBit
      BY DEF Packed!IInv, Packed!RearmingStays
    <3> QED
      BY <1>1, <1>2, <1>3, <3>1 DEF Packed!Missing, Packed!Rearming
  <2> QED
    BY <2>1 DEF Packed!Missing
<1>6. Packed!Remaining' = Packed!Remaining
  BY <1>1, <1>5, RemainingIsMissing, RemainingIsMissingThen
<1>7. Packed!Expected' = Packed!Expected
  <2>1. Packed!Expected' = Half - lower' + Cardinality(Dropping')
    BY PackedSize DEF Packed!Expected, Dropping
  <2>2. IsFiniteSet(Dropping) /\ Cardinality(Dropping) \in Nat /\ lower \in Int /\ Half \in Int
    BY <1>0, ExpectedCounts DEF Packed!TypeOK, Packed!WordInRange, CountFits
  <2>3. CASE l = "drop"
    <3>1. Dropping' = Dropping \union {p} /\ p \notin Dropping /\ lower' = lower + 1
      BY <1>2, <1>3, <2>3 DEF Dropping
    <3>2. Cardinality(Dropping') = Cardinality(Dropping) + 1
      BY <2>2, <3>1, FS_AddElement
    <3> QED
      BY <2>1, <2>2, <3>1, <3>2, ExpectedCounts
  <2>4. CASE l = "wait"
    <3>1. Dropping' = Dropping /\ lower' = lower
      BY <1>2, <1>3, <2>4 DEF Dropping
    <3> QED
      BY <2>1, <3>1, ExpectedCounts
  <2> QED
    BY <1>2, <2>3, <2>4
<1>8. \A q \in Threads : Packed!Position(q)' = Packed!Position(q)
  BY <1>2, <1>3 DEF Packed!Position
<1>9. [q \in Threads |-> Packed!Position(q)]' = [q \in Threads |-> Packed!Position(q)]
  BY <1>8
<1>10. [q \in Threads |-> IF q \in Packed!Gone THEN 0 ELSE token[q]]' =
         [q \in Threads |-> IF q \in Packed!Gone THEN 0 ELSE token[q]]
  BY <1>2, <1>4
<1> QED
  BY <1>1, <1>6, <1>7, <1>9, <1>10 DEF Packed!Implemented!vars

\* A wait returns when the phase of its token is over.
LEMMA PackedWaitMaps ==
    ASSUME CountFits, Packed!IInv, NEW p \in Threads, Packed!Wait(p)
    PROVE  Packed!Implemented!Next
<1>0. Packed!TypeOK
  BY DEF Packed!IInv
<1>1. /\ pc[p] = "wait" /\ Packed!PhaseBit # token[p] /\ pc' = [pc EXCEPT ![p] = "idle"]
      /\ UNCHANGED <<upper, lower, token, rearm>>
  BY DEF Packed!Wait
<1>2. \A q \in Threads : pc'[q] = IF q = p THEN "idle" ELSE pc[q]
  BY <1>0, <1>1 DEF Packed!TypeOK, Packed!WordInRange
<1>3. Packed!Gone' = Packed!Gone /\ Packed!Rearming' = Packed!Rearming /\ Dropping' = Dropping /\ p \notin Packed!Gone
  BY <1>1, <1>2 DEF Packed!Gone, Packed!Rearming, Dropping
<1>4. Packed!PhaseBit' = Packed!PhaseBit /\ Packed!Remaining' = Packed!Remaining
  BY <1>1, <1>3 DEF Packed!PhaseBit, Packed!Remaining, Packed!Arrived
<1>5. Packed!Expected' = Packed!Expected
  BY <1>1, <1>3 DEF Packed!Expected, Dropping
<1>6. [q \in Threads |-> Packed!Position(q)]' = [[q \in Threads |-> Packed!Position(q)] EXCEPT ![p] = "idle"]
  BY <1>0, <1>1, MoveShows
<1>7. [q \in Threads |-> IF q \in Packed!Gone THEN 0 ELSE token[q]]' =
        [q \in Threads |-> IF q \in Packed!Gone THEN 0 ELSE token[q]]
  BY <1>1, <1>3
<1>8. Packed!Position(p) = "wait"
  BY <1>1 DEF Packed!Position
<1>9. Packed!Implemented!Wait(p)
  BY <1>1, <1>3, <1>4, <1>5, <1>6, <1>7, <1>8 DEF Packed!Implemented!Wait
<1> QED
  BY <1>9 DEF Packed!Implemented!Next

\* Every step is a step of the abstract barrier or does not show.
LEMMA PackedNextMaps ==
    ASSUME CountFits, LastArrivalStays, Packed!IInv, [Packed!Next]_(Packed!vars)
    PROVE  [Packed!Implemented!Next]_(Packed!Implemented!vars)
<1>1. CASE UNCHANGED Packed!vars
  <2>1. UNCHANGED <<upper, lower, pc, token, rearm>>
    BY <1>1 DEF Packed!vars
  <2>2. /\ Packed!Gone' = Packed!Gone /\ Packed!Rearming' = Packed!Rearming
        /\ Packed!PhaseBit' = Packed!PhaseBit /\ Packed!Arrived' = Packed!Arrived
    BY <2>1 DEF Packed!Gone, Packed!Rearming, Packed!PhaseBit, Packed!Arrived
  <2>3. Packed!Remaining' = Packed!Remaining /\ Packed!Expected' = Packed!Expected
    BY <2>1, <2>2 DEF Packed!Remaining, Packed!Expected
  <2>4. [q \in Threads |-> Packed!Position(q)]' = [q \in Threads |-> Packed!Position(q)]
    BY <2>1 DEF Packed!Position
  <2> QED
    BY <2>1, <2>2, <2>3, <2>4 DEF Packed!Implemented!vars
<1>2. ASSUME NEW p \in Threads, Packed!Step(p), ~UNCHANGED Packed!vars
      PROVE  Packed!Implemented!Next \/ UNCHANGED Packed!Implemented!vars
  BY <1>2, ArriveMaps, DropArriveMaps, UnseenMaps, PackedWaitMaps DEF Packed!Step, Packed!Spin
<1> QED
  BY <1>1, <1>2 DEF Packed!Next, Packed!Terminated

\* The packed barrier implements PhaseBarrier, although a phase is open
\* before its count is re-armed.
THEOREM PackedRefinement ==
    ASSUME LastArrivalStays
    PROVE  Packed!Spec => Packed!ImplementsPhaseBarrier
<1> USE WordFits
<1>1. Packed!Init => Packed!Implemented!Init
  BY PackedInitMaps
<1>2. Packed!IInv /\ [Packed!Next]_(Packed!vars) => [Packed!Implemented!Next]_(Packed!Implemented!vars)
  BY PackedNextMaps
<1> QED
  BY <1>1, <1>2, PackedInvariant, PTL
  DEF Packed!Spec, Packed!ImplementsPhaseBarrier, Packed!Implemented!Spec

-----------------------------------------------------------------------------
(* The semaphores.                                                         *)

\* What Semaphore assumes of its sizes.
SemaphoreSizes == MaxUnits \in Nat \ {0} /\ Calls \in Nat /\ PollingCount \in Nat

\* An instance's finite sets are the finite sets.
LEMMA HeldSize ==
    \A S : (Sem!IsFiniteSet(S) <=> IsFiniteSet(S)) /\ Sem!Cardinality(S) = Cardinality(S)
<1>1. \A S : Sem!IsFiniteSet(S) <=> IsFiniteSet(S)
  BY DEF Sem!IsFiniteSet, IsFiniteSet
<1>2. \A S : Sem!Cardinality(S) = Cardinality(S)
  BY DEF Sem!Cardinality, Cardinality
<1> QED
  BY <1>1, <1>2


\* The total is the maximum of the template, at least one unit.
LEMMA UnitsType ==
    ASSUME SemaphoreSizes, Sem!TypeOK
    PROVE  Sem!Units \in Nat /\ (binary => Sem!Units = 1)
BY HeldSize DEF SemaphoreSizes, Sem!TypeOK, Sem!Units

\* How taking and returning a unit changes the number of units held.
LEMMA HeldCount ==
    ASSUME Sem!TypeOK, NEW t \in Threads
    PROVE  /\ Cardinality(held) \in Nat
           /\ IsFiniteSet(held \union {t}) /\ IsFiniteSet(held \ {t})
           /\ t \notin held => Cardinality(held \union {t}) = Cardinality(held) + 1
           /\ t \in held => /\ Cardinality(held \ {t}) = Cardinality(held) - 1
                            /\ Cardinality(held) >= 1
<1>1. IsFiniteSet(held)
  BY HeldSize DEF Sem!TypeOK
<1>2. Cardinality(held) \in Nat
  BY <1>1, FS_CardinalityType
<1>3. IsFiniteSet(held \union {t}) /\ IsFiniteSet(held \ {t})
  BY <1>1, FS_AddElement, FS_RemoveElement
<1>4. t \notin held => Cardinality(held \union {t}) = Cardinality(held) + 1
  BY <1>1, FS_AddElement
<1>5. t \in held => Cardinality(held \ {t}) = Cardinality(held) - 1
  BY <1>1, FS_RemoveElement
<1>6. Cardinality(held \ {t}) \in Nat
  BY <1>3, FS_CardinalityType
<1> QED
  BY <1>2, <1>3, <1>4, <1>5, <1>6

\* There are never more units in the count than there are in all.
LEMMA CountBound ==
    ASSUME SemaphoreSizes, Sem!IInv
    PROVE  /\ Cardinality(held) \in Nat
           /\ count + Cardinality(held) + fresh = Sem!Units
           /\ binary => count \in {0, 1}
<1>1. Cardinality(held) \in Nat
  BY FS_CardinalityType, HeldSize DEF Sem!IInv, Sem!TypeOK
<1> QED
  BY <1>1, UnitsType, HeldSize DEF Sem!IInv, Sem!TypeOK, Sem!UnitsConserved

\* A failed attempt leads on according to the operation.
LEMMA AfterFailureType ==
    ASSUME Sem!TypeOK, NEW t \in Threads
    PROVE  /\ op[t] = "acquire" => Sem!AfterFailure(t) = "wait"
           /\ op[t] = "try_acquire" => Sem!AfterFailure(t) = "failed"
           /\ op[t] \notin {"acquire", "try_acquire"} => Sem!AfterFailure(t) \in {"poll", "polled"}
           /\ op[t] \in {"acquire", "try_acquire", "try_acquire_for", "try_acquire_for_zero"}
BY HeldSize DEF Sem!TypeOK, Sem!AfterFailure, Sem!Operations, Sem!Timed

\* The history variable grows during a call and notices every empty moment.
LEMMA RecordStep ==
    ASSUME Sem!TypeOK, Sem!Record
    PROVE  /\ zeroSeen' \in [Threads -> BOOLEAN]
           /\ \A t \in Threads : pc'[t] # "idle" /\ op'[t] # "acquire" =>
                zeroSeen'[t] = (zeroSeen[t] \/ count' = 0)
BY HeldSize DEF Sem!TypeOK, Sem!Record

\* The invariant holds at the start.
LEMMA SemaphoreInitIInv ==
    ASSUME SemaphoreSizes
    PROVE  Sem!Init => Sem!IInv
<1> SUFFICES ASSUME Sem!Init PROVE Sem!IInv
  OBVIOUS
<1> USE DEF SemaphoreSizes
<1>1. Sem!Units \in Nat
  BY DEF Sem!Init, Sem!Units
<1>2. Sem!TypeOK
  BY <1>1, FS_EmptySet, HeldSize DEF Sem!Init, Sem!TypeOK, Sem!Operations, Sem!Timed
<1>3. Sem!UnitsConserved
  BY <1>1, FS_EmptySet, HeldSize DEF Sem!Init, Sem!UnitsConserved
<1>4. \A t \in Threads : Sem!CallSound(t)
  BY DEF Sem!Init, Sem!CallSound, Sem!InCall
<1> QED
  BY <1>2, <1>3, <1>4 DEF Sem!IInv

-----------------------------------------------------------------------------
(* The steps.                                                              *)

\* A call begins.
LEMMA BeginStep ==
    ASSUME SemaphoreSizes, Sem!IInv, Sem!Record, NEW t \in Threads, Sem!Begin(t)
    PROVE  Sem!IInv'
<1> USE DEF SemaphoreSizes, Sem!IInv
<1>1. Sem!TypeOK'
  BY RecordStep, HeldSize DEF Sem!TypeOK, Sem!Begin
<1>2. Sem!UnitsConserved'
  BY HeldSize DEF Sem!Begin, Sem!UnitsConserved, Sem!Units
<1>3. \A u \in Threads : Sem!CallSound(u)'
  BY RecordStep, HeldSize DEF Sem!TypeOK, Sem!Begin, Sem!CallSound, Sem!InCall
<1> QED
  BY <1>1, <1>2, <1>3

\* exchange(0) takes the unit, or finds that there is none.
LEMMA ExchangeStep ==
    ASSUME SemaphoreSizes, Sem!IInv, Sem!Record, NEW t \in Threads, Sem!Exchange(t)
    PROVE  Sem!IInv'
<1>0. binary /\ pc[t] \in {"try", "poll"} /\ t \notin held /\ count \in {0, 1}
  BY CountBound DEF Sem!IInv, Sem!Exchange, Sem!CallSound, Sem!InCall
<1>1. CASE count = 1
  <2>1. count' = 0 /\ held' = held \union {t} /\ pc' = [pc EXCEPT ![t] = "got"]
    BY <1>1 DEF Sem!Exchange
  <2>2. Sem!TypeOK'
    BY <2>1, HeldCount, RecordStep, HeldSize DEF Sem!IInv, Sem!TypeOK, Sem!Exchange
  <2>3. Sem!UnitsConserved'
    <3>1. Cardinality(held') = Cardinality(held) + 1
      BY <1>0, <2>1, HeldCount DEF Sem!IInv
    <3>2. Sem!Units' = Sem!Units /\ fresh' = fresh /\ fresh \in Nat
      BY HeldSize DEF Sem!IInv, Sem!TypeOK, Sem!Exchange, Sem!Units
    <3> QED
      BY <1>1, <2>1, <3>1, <3>2, CountBound, HeldSize DEF Sem!UnitsConserved
  <2>4. \A u \in Threads : Sem!CallSound(u)'
    BY <2>1, RecordStep, HeldSize DEF Sem!IInv, Sem!TypeOK, Sem!Exchange, Sem!CallSound, Sem!InCall
  <2> QED
    BY <2>2, <2>3, <2>4 DEF Sem!IInv
<1>2. CASE count = 0
  <2>1. count' = 0 /\ held' = held /\ pc' = [pc EXCEPT ![t] = Sem!AfterFailure(t)]
    BY <1>2 DEF Sem!Exchange
  <2>2. Sem!TypeOK'
    BY <2>1, AfterFailureType, RecordStep, HeldSize DEF Sem!IInv, Sem!TypeOK, Sem!Exchange
  <2>3. Sem!UnitsConserved'
    BY <1>2, <2>1, HeldSize DEF Sem!IInv, Sem!Exchange, Sem!UnitsConserved, Sem!Units
  <2>4. \A u \in Threads : Sem!CallSound(u)'
    BY <1>0, <2>1, AfterFailureType, RecordStep, HeldSize
    DEF Sem!IInv, Sem!TypeOK, Sem!Exchange, Sem!CallSound, Sem!InCall
  <2> QED
    BY <2>2, <2>3, <2>4 DEF Sem!IInv
<1> QED
  BY <1>0, <1>1, <1>2

\* The load of an attempt on the counting semaphore.
LEMMA LoadStep ==
    ASSUME SemaphoreSizes, Sem!IInv, Sem!Record, NEW t \in Threads, Sem!Load(t)
    PROVE  Sem!IInv'
<1>0. pc[t] \in {"try", "poll"} /\ t \notin held
  BY DEF Sem!IInv, Sem!Load, Sem!CallSound, Sem!InCall
<1>1. Sem!UnitsConserved'
  BY HeldSize DEF Sem!IInv, Sem!Load, Sem!UnitsConserved, Sem!Units
<1>2. CASE count = 0
  <2>1. pc' = [pc EXCEPT ![t] = Sem!AfterFailure(t)]
    BY <1>2 DEF Sem!Load
  <2>2. Sem!TypeOK'
    BY <2>1, AfterFailureType, RecordStep, HeldSize DEF Sem!IInv, Sem!TypeOK, Sem!Load
  <2>3. \A u \in Threads : Sem!CallSound(u)'
    BY <1>0, <1>2, <2>1, AfterFailureType, RecordStep, HeldSize
    DEF Sem!IInv, Sem!TypeOK, Sem!Load, Sem!CallSound, Sem!InCall
  <2> QED
    BY <1>1, <2>2, <2>3 DEF Sem!IInv
<1>3. CASE count # 0
  <2>1. pc' = [pc EXCEPT ![t] = IF pc[t] = "try" THEN "cas" ELSE "poll_cas"]
    BY <1>3 DEF Sem!Load
  <2>2. Sem!TypeOK'
    BY <2>1, RecordStep, HeldSize DEF Sem!IInv, Sem!TypeOK, Sem!Load
  <2>3. \A u \in Threads : Sem!CallSound(u)'
    BY <1>0, <1>3, <2>1, RecordStep, HeldSize
    DEF Sem!IInv, Sem!TypeOK, Sem!Load, Sem!CallSound, Sem!InCall
  <2> QED
    BY <1>1, <2>2, <2>3 DEF Sem!IInv
<1> QED
  BY <1>2, <1>3

\* The compare-exchange takes a unit, or starts over with the value it found.
LEMMA CompareExchangeStep ==
    ASSUME SemaphoreSizes, Sem!IInv, Sem!Record, NEW t \in Threads, Sem!CompareExchange(t)
    PROVE  Sem!IInv'
<1>0. pc[t] \in {"cas", "poll_cas"} /\ t \notin held /\ old[t] > 0 /\ old[t] \in Nat
  BY HeldSize DEF Sem!IInv, Sem!TypeOK, Sem!CompareExchange, Sem!CallSound, Sem!InCall
<1>1. CASE count = old[t]
  <2>1. /\ count' = count - 1 /\ held' = held \union {t} /\ old' = old
        /\ pc' = [pc EXCEPT ![t] = "got"]
    BY <1>1 DEF Sem!CompareExchange
  <2>2. Sem!TypeOK'
    BY <1>0, <1>1, <2>1, HeldCount, RecordStep, HeldSize
    DEF Sem!IInv, Sem!TypeOK, Sem!CompareExchange
  <2>3. Sem!UnitsConserved'
    <3>1. Cardinality(held') = Cardinality(held) + 1
      BY <1>0, <2>1, HeldCount DEF Sem!IInv
    <3>2. Sem!Units' = Sem!Units /\ fresh' = fresh /\ fresh \in Nat
      BY HeldSize DEF Sem!IInv, Sem!TypeOK, Sem!CompareExchange, Sem!Units
    <3> QED
      BY <1>0, <1>1, <2>1, <3>1, <3>2, CountBound, HeldSize DEF Sem!UnitsConserved
  <2>4. \A u \in Threads : Sem!CallSound(u)'
    BY <2>1, RecordStep, HeldSize
    DEF Sem!IInv, Sem!TypeOK, Sem!CompareExchange, Sem!CallSound, Sem!InCall
  <2> QED
    BY <2>2, <2>3, <2>4 DEF Sem!IInv
<1>2. CASE count # old[t]
  <2>1. /\ count' = count /\ held' = held /\ old' = [old EXCEPT ![t] = count]
        /\ pc' = [pc EXCEPT ![t] = IF count = 0 THEN Sem!AfterFailure(t) ELSE @]
    BY <1>2 DEF Sem!CompareExchange
  <2>2. Sem!TypeOK'
    BY <1>0, <2>1, AfterFailureType, RecordStep, HeldSize
    DEF Sem!IInv, Sem!TypeOK, Sem!CompareExchange
  <2>3. Sem!UnitsConserved'
    BY <2>1, HeldSize DEF Sem!IInv, Sem!CompareExchange, Sem!UnitsConserved, Sem!Units
  <2>4. \A u \in Threads : Sem!CallSound(u)'
    BY <1>0, <2>1, AfterFailureType, RecordStep
   , HeldSize DEF Sem!IInv, Sem!TypeOK, Sem!CompareExchange, Sem!CallSound, Sem!InCall
  <2> QED
    BY <2>2, <2>3, <2>4 DEF Sem!IInv
<1> QED
  BY <1>1, <1>2

\* Waiting, polling, the clock and the return of a call move no unit.
LEMMA QuietStep ==
    ASSUME SemaphoreSizes, Sem!IInv, Sem!Record, NEW t \in Threads,
           Sem!Wait(t) \/ Sem!BackOff(t) \/ Sem!Expire(t) \/ Sem!End(t)
    PROVE  Sem!IInv'
<1> USE DEF SemaphoreSizes, Sem!IInv
<1>1. Sem!UnitsConserved'
  BY HeldSize DEF Sem!Wait, Sem!BackOff, Sem!Expire, Sem!End, Sem!UnitsConserved, Sem!Units
<1>2. CASE Sem!Wait(t)
  <2>1. Sem!TypeOK'
    BY <1>2, RecordStep, HeldSize DEF Sem!TypeOK, Sem!Wait
  <2>2. \A u \in Threads : Sem!CallSound(u)'
    BY <1>2, RecordStep, HeldSize DEF Sem!TypeOK, Sem!Wait, Sem!CallSound, Sem!InCall
  <2> QED
    BY <1>1, <2>1, <2>2
<1>3. CASE Sem!BackOff(t)
  <2>1. Sem!TypeOK'
    BY <1>3, RecordStep, HeldSize DEF Sem!TypeOK, Sem!BackOff
  <2>2. \A u \in Threads : Sem!CallSound(u)'
    BY <1>3, RecordStep, HeldSize DEF Sem!TypeOK, Sem!BackOff, Sem!CallSound, Sem!InCall
  <2> QED
    BY <1>1, <2>1, <2>2
<1>4. CASE Sem!Expire(t)
  <2>1. Sem!TypeOK'
    BY <1>4, RecordStep, HeldSize DEF Sem!TypeOK, Sem!Expire
  <2>2. \A u \in Threads : Sem!CallSound(u)'
    BY <1>4, RecordStep, HeldSize DEF Sem!TypeOK, Sem!Expire, Sem!CallSound, Sem!InCall
  <2> QED
    BY <1>1, <2>1, <2>2
<1>5. CASE Sem!End(t)
  <2>1. Sem!TypeOK'
    BY <1>5, RecordStep, HeldSize DEF Sem!TypeOK, Sem!End, Sem!Operations, Sem!Timed
  <2>2. \A u \in Threads : Sem!CallSound(u)'
    BY <1>5, RecordStep, HeldSize DEF Sem!TypeOK, Sem!End, Sem!CallSound, Sem!InCall
  <2> QED
    BY <1>1, <2>1, <2>2
<1> QED
  BY <1>2, <1>3, <1>4, <1>5

\* release(1) by a thread that has a unit.  A binary semaphore in use is empty,
\* so that storing 1 is adding 1.
LEMMA GiveBackStep ==
    ASSUME SemaphoreSizes, Sem!IInv, Sem!Record, NEW t \in Threads, Sem!GiveBack(t)
    PROVE  Sem!IInv'
<1>0. t \in held /\ held' = held \ {t}
  BY DEF Sem!GiveBack
<1>1. count' = count + 1
  <2>1. CASE binary
    <3>1. Cardinality(held) >= 1 /\ Sem!Units = 1 /\ count \in Nat /\ fresh \in Nat
      BY <1>0, <2>1, HeldCount, UnitsType, HeldSize DEF Sem!IInv, Sem!TypeOK
    <3>2. count = 0
      BY <3>1, CountBound
    <3> QED
      BY <2>1, <3>2 DEF Sem!GiveBack, Sem!Released
  <2>2. CASE ~binary
    BY <2>2 DEF Sem!GiveBack, Sem!Released
  <2> QED
    BY <2>1, <2>2
<1>2. Sem!TypeOK'
  BY <1>0, <1>1, HeldCount, RecordStep, HeldSize DEF Sem!IInv, Sem!TypeOK, Sem!GiveBack
<1>3. Sem!UnitsConserved'
  <2>1. Cardinality(held') = Cardinality(held) - 1
    BY <1>0, HeldCount DEF Sem!IInv
  <2>2. Sem!Units' = Sem!Units /\ fresh' = fresh /\ fresh \in Nat /\ count \in Nat
    BY HeldSize DEF Sem!IInv, Sem!TypeOK, Sem!GiveBack, Sem!Units
  <2> QED
    BY <1>1, <2>1, <2>2, CountBound, HeldSize DEF Sem!UnitsConserved
<1>4. \A u \in Threads : Sem!CallSound(u)'
  BY <1>0, RecordStep, HeldSize DEF Sem!IInv, Sem!TypeOK, Sem!GiveBack, Sem!CallSound, Sem!InCall
<1> QED
  BY <1>2, <1>3, <1>4 DEF Sem!IInv

\* release(n) by the signaller: there are n units that nobody has.
LEMMA SignalStep ==
    ASSUME SemaphoreSizes, Sem!IInv, Sem!Record, Sem!Signal
    PROVE  Sem!IInv'
<1>0. PICK n \in 1 .. fresh : Sem!Released(n) /\ fresh' = fresh - n
  BY DEF Sem!Signal
<1>1. n \in Nat /\ fresh' \in Nat
  BY <1>0, HeldSize DEF Sem!IInv, Sem!TypeOK
<1>2. count' = count + n
  <2>1. CASE binary
    BY <1>0, <2>1, CountBound, UnitsType, HeldSize DEF Sem!IInv, Sem!TypeOK, Sem!Released
  <2>2. CASE ~binary
    BY <1>0, <2>2 DEF Sem!Released
  <2> QED
    BY <2>1, <2>2
<1>3. Sem!TypeOK'
  BY <1>1, <1>2, RecordStep, HeldSize DEF Sem!IInv, Sem!TypeOK, Sem!Signal
<1>4. Sem!UnitsConserved'
  BY <1>0, <1>1, <1>2, CountBound, HeldSize
  DEF Sem!IInv, Sem!TypeOK, Sem!Signal, Sem!UnitsConserved, Sem!Units
<1>5. \A u \in Threads : Sem!CallSound(u)'
  BY RecordStep, HeldSize DEF Sem!IInv, Sem!TypeOK, Sem!Signal, Sem!CallSound, Sem!InCall
<1> QED
  BY <1>3, <1>4, <1>5 DEF Sem!IInv

\* Every step preserves the invariant.
LEMMA SemaphoreNextIInv ==
    ASSUME SemaphoreSizes
    PROVE  Sem!IInv /\ [Sem!Next]_(Sem!vars) => Sem!IInv'
<1> SUFFICES ASSUME Sem!IInv, [Sem!Next]_(Sem!vars) PROVE Sem!IInv'
  OBVIOUS
<1>1. CASE UNCHANGED Sem!vars
  BY <1>1, HeldSize
  DEF Sem!vars, Sem!IInv, Sem!TypeOK, Sem!UnitsConserved, Sem!Units, Sem!CallSound, Sem!InCall
<1>2. CASE Sem!Signal /\ Sem!Record
  BY <1>2, SignalStep
<1>3. ASSUME NEW t \in Threads, Sem!Begin(t) \/ Sem!Step(t) \/ Sem!Expire(t) \/ Sem!GiveBack(t), Sem!Record
      PROVE  Sem!IInv'
  BY <1>3, BeginStep, ExchangeStep, LoadStep, CompareExchangeStep, QuietStep, GiveBackStep
  DEF Sem!Step
<1> QED
  BY <1>1, <1>2, <1>3 DEF Sem!Next, Sem!Finished

-----------------------------------------------------------------------------
(* The theorems.                                                           *)

\* The inductive invariant holds in every reachable state.
THEOREM SemaphoreInvariant ==
    ASSUME SemaphoreSizes
    PROVE  Sem!Spec => []Sem!IInv
BY SemaphoreInitIInv, SemaphoreNextIInv, PTL DEF Sem!Spec

\* Acquisitions and releases of both semaphores neither lose a unit nor hand
\* one out twice, however the loads, compare-exchanges and additions of their
\* threads interleave.
THEOREM SemaphoreConserves ==
    ASSUME SemaphoreSizes
    PROVE  Sem!Spec => []UnitsConserved
<1>1. Sem!IInv => UnitsConserved
  BY HeldSize DEF Sem!IInv, Sem!UnitsConserved, Sem!Units, UnitsConserved, Units
<1> QED
  BY <1>1, SemaphoreInvariant, PTL

\* try_acquire and the timed calls fail only if the semaphore was empty at some
\* moment of the call: losing a race, or the clock alone, fails none.
THEOREM SemaphoreFailsEmpty ==
    ASSUME SemaphoreSizes
    PROVE  Sem!Spec => []FailsOnlyIfEmpty
<1>1. Sem!IInv => FailsOnlyIfEmpty
  BY DEF Sem!IInv, Sem!CallSound, FailsOnlyIfEmpty
<1> QED
  BY <1>1, SemaphoreInvariant, PTL
=============================================================================
