------------------------------ MODULE RunLoop ------------------------------
(***************************************************************************)
(* cudax run_loop on its atomic intrusive queue.  Any thread pushes an     *)
(* operation state by a compare-exchange of the list's head; the one       *)
(* consumer takes the whole list by an exchange, reverses it and executes  *)
(* it, until finish() has raised __finishing_ and the queue is drained.    *)
(*                                                                         *)
(* A node of the list is the operation state of a producer: it is pushed   *)
(* by start(), and its storage is started again once it has completed, so  *)
(* that the same address comes back while others still remember it.  The   *)
(* list is modelled by its pointers, head and next.  The clients are those *)
(* of the repository: thread_context, whose join() returns from finish()   *)
(* and joins the thread before the loop dies, and sync_wait, whose loop    *)
(* dies as soon as run() returns.  Sequentially consistent.                *)
(***************************************************************************)
EXTENDS Naturals, FiniteSets, Sequences, SequencesExt

CONSTANTS
    Producers,      \* threads that schedule work; each owns the node of its name
    Then,           \* Then[p]: node the loop pushes while it executes p's, or Null
    Finishers,      \* threads that call finish()
    Loop,           \* the thread inside run()
    Noop,           \* &__noop_task
    Null,           \* nullptr
    Rounds,         \* Rounds[p]: how often producer p starts its operation
    JoinsFirst      \* TRUE: thread_context, FALSE: sync_wait

Chaining == {p \in Producers : Then[p] # Null}
Chained == {Then[p] : p \in Chaining}
Nodes == Producers \union Chained \union {Noop}
Threads == Producers \union Finishers \union {Loop}

ASSUME RunLoopConstants ==
    /\ Rounds \in [Producers -> Nat]
    /\ JoinsFirst \in BOOLEAN
    /\ DOMAIN Then = Producers
    /\ IsFiniteSet(Producers)
    /\ Null \notin Nodes
    /\ Producers \intersect Finishers = {} /\ Loop \notin Producers \union Finishers
    /\ Producers \intersect Chained = {} /\ Noop \notin Producers \union Chained
    /\ \A p, q \in Chaining : Then[p] = Then[q] => p = q

VARIABLES
    head,           \* __atomic_intrusive_queue::__head_
    next,           \* __task::__next_ of every node
    finishing,      \* __run_loop_base::__finishing_
    pc,             \* where each thread is
    node,           \* the argument of the thread's push
    old_head,       \* the local of push
    it,             \* the iterator of __execute_all
    prev,           \* and the node it executes
    draining,       \* the consumer is in the second loop of run()
    started,        \* how often each producer has started its operation
    destroyed,      \* the loop is gone
    pushed,         \* history: the nodes in the order their pushes took effect
    executed,       \* history: the nodes in the order they were executed
    beforeFinish    \* history: how many pushes precede finish()

queue == <<head, next, node, old_head, pushed>>
consumer == <<it, prev, draining, executed>>
vars == <<head, next, finishing, pc, node, old_head, it, prev, draining, started,
          destroyed, pushed, executed, beforeFinish>>

Init ==
    /\ head = Null
    /\ next = [n \in Nodes |-> Null]
    /\ finishing = FALSE
    /\ pc = [t \in Threads |-> IF t = Loop THEN "check" ELSE "idle"]
    /\ node = [t \in Threads |-> Null]
    /\ old_head = [t \in Threads |-> Null]
    /\ it = Null
    /\ prev = Null
    /\ draining = FALSE
    /\ started = [p \in Producers |-> 0]
    /\ destroyed = FALSE
    /\ pushed = <<>>
    /\ executed = <<>>
    /\ beforeFinish = 0

Times(n, s) == Cardinality({i \in DOMAIN s : s[i] = n})

\* The node a producer's operation ends with: its own, or the one that its
\* continuation schedules.
LastNode(p) == IF p \in Chaining THEN Then[p] ELSE p

\* The producer's operation has completed as often as it was started.
Completed(p) == Times(LastNode(p), executed) = started[p]

\* The locations inside push().
Pushing == {"push_load", "push_cas"}

-----------------------------------------------------------------------------
\* __opstate_t::start on a producer's thread.
Start(p) ==
    /\ pc[p] = "idle"
    /\ ~destroyed
    /\ started[p] < Rounds[p]
    /\ Completed(p)
    /\ started' = [started EXCEPT ![p] = @ + 1]
    /\ node' = [node EXCEPT ![p] = p]
    /\ pc' = [pc EXCEPT ![p] = "push_load"]
    /\ UNCHANGED <<head, next, finishing, old_head, destroyed, pushed, beforeFinish, consumer>>

\* push: remember the head and link the node in front of it.
PushLoad(t) ==
    /\ pc[t] = "push_load"
    /\ old_head' = [old_head EXCEPT ![t] = head]
    /\ next' = [next EXCEPT ![node[t]] = head]
    /\ pc' = [pc EXCEPT ![t] = "push_cas"]
    /\ UNCHANGED <<head, finishing, node, started, destroyed, pushed, beforeFinish, consumer>>

AfterPush(t) == IF t \in Producers THEN "idle" ELSE IF t = Loop THEN "more" ELSE "finished"

PushCas_blind(t) ==
    /\ pc[t] = "push_cas"
    /\ head' = node[t]
    /\ pushed' = Append(pushed, node[t])
    /\ pc' = [pc EXCEPT ![t] = AfterPush(t)]
    /\ UNCHANGED <<next, node, old_head, finishing, started, destroyed, beforeFinish, consumer>>

\* push: the compare-exchange installs the node, or the head has moved and
\* the node is linked again.  (notify_one does nothing: waiting is polling.)
PushCas(t) ==
    /\ pc[t] = "push_cas"
    /\ \/ /\ head = old_head[t]
          /\ head' = node[t]
          /\ pushed' = Append(pushed, node[t])
          /\ pc' = [pc EXCEPT ![t] = AfterPush(t)]
          /\ old_head' = [old_head EXCEPT ![t] = Null]
          /\ node' = [node EXCEPT ![t] = Null]
          /\ UNCHANGED next
       \/ /\ head # old_head[t]
          /\ old_head' = [old_head EXCEPT ![t] = head]
          /\ next' = [next EXCEPT ![node[t]] = head]
          /\ UNCHANGED <<head, pushed, pc, node>>
    /\ UNCHANGED <<finishing, started, destroyed, beforeFinish, consumer>>

Finish_without_wake(f) ==
    /\ pc[f] = "idle"
    /\ ~destroyed
    /\ finishing' = TRUE
    /\ beforeFinish' = IF finishing THEN beforeFinish ELSE Len(pushed)
    /\ pc' = [pc EXCEPT ![f] = "finished"]
    /\ UNCHANGED <<node, head, next, old_head, started, destroyed, pushed, consumer>>

\* finish: the first caller raises __finishing_ and goes on to push the empty
\* work item that wakes up the consumer.
Finish(f) ==
    /\ pc[f] = "idle"
    /\ ~destroyed
    /\ finishing' = TRUE
    /\ IF finishing
       THEN /\ pc' = [pc EXCEPT ![f] = "finished"]
            /\ UNCHANGED <<node, beforeFinish>>
       ELSE /\ node' = [node EXCEPT ![f] = Noop]
            /\ beforeFinish' = Len(pushed)
            /\ pc' = [pc EXCEPT ![f] = "push_load"]
    /\ UNCHANGED <<head, next, old_head, started, destroyed, pushed, consumer>>

-----------------------------------------------------------------------------
RunCheck_no_drain ==
    /\ pc[Loop] = "check"
    /\ pc' = [pc EXCEPT ![Loop] = IF finishing THEN "returned" ELSE "wait"]
    /\ UNCHANGED <<finishing, started, destroyed, beforeFinish, queue, consumer>>

\* run: the test of the first loop; once it fails, the queue is drained.
RunCheck ==
    /\ pc[Loop] = "check"
    /\ draining' = finishing
    /\ pc' = [pc EXCEPT ![Loop] = IF finishing THEN "pop" ELSE "wait"]
    /\ UNCHANGED <<it, prev, executed, finishing, started, destroyed, beforeFinish, queue>>

\* wait_for_item: poll until the head is not null.
WaitForItem ==
    /\ pc[Loop] = "wait"
    /\ pc' = [pc EXCEPT ![Loop] = IF head = Null THEN "wait" ELSE "pop"]
    /\ UNCHANGED <<finishing, started, destroyed, beforeFinish, queue, consumer>>

\* The nodes that follow h, itself included, in the order of the list.
ListFrom(h) ==
    LET N == Cardinality(Nodes)
        node_at[i \in 1 .. N] ==
            IF i = 1 THEN h
            ELSE IF node_at[i - 1] = Null THEN Null ELSE next[node_at[i - 1]]
    IN  [i \in 1 .. Cardinality({j \in 1 .. N : node_at[j] # Null}) |-> node_at[i]]

\* pop_all and make_reversed: take the whole list and turn it round, so that
\* it runs from the oldest push to the newest.  An empty list ends
\* __execute_all, and the second loop of run().
PopAll ==
    /\ pc[Loop] = "pop"
    /\ head' = Null
    /\ LET taken == ListFrom(head)
           behind(n) == CHOOSE i \in DOMAIN taken : taken[i] = n
       IN  /\ it' = IF taken = <<>> THEN Null ELSE Last(taken)
           /\ next' = [n \in Nodes |->
                         IF ~Contains(taken, n) THEN next[n]
                         ELSE IF n = Head(taken) THEN Null ELSE taken[behind(n) - 1]]
    /\ pc' = [pc EXCEPT ![Loop] = IF head # Null THEN "advance"
                                  ELSE IF draining THEN "returned" ELSE "check"]
    /\ UNCHANGED <<prev, executed, draining, node, old_head, pushed,
                   finishing, started, destroyed, beforeFinish>>

\* __execute_all: the iterator moves on before the node is executed.
Advance ==
    /\ pc[Loop] = "advance"
    /\ prev' = it
    /\ it' = next[it]
    /\ pc' = [pc EXCEPT ![Loop] = "execute"]
    /\ UNCHANGED <<draining, executed, finishing, started, destroyed, beforeFinish, queue>>

\* __execute of prev: its receiver is completed, and with that its storage
\* may be started again at once; the continuation may schedule another
\* operation on the loop.
Execute ==
    /\ pc[Loop] = "execute"
    /\ executed' = Append(executed, prev)
    /\ IF prev \in Chaining
       THEN /\ node' = [node EXCEPT ![Loop] = Then[prev]]
            /\ pc' = [pc EXCEPT ![Loop] = "push_load"]
       ELSE /\ pc' = [pc EXCEPT ![Loop] = "more"]
            /\ UNCHANGED node
    /\ UNCHANGED <<it, prev, draining, head, next, old_head, pushed,
                   finishing, started, destroyed, beforeFinish>>

More_stop_at_last_batch ==
    /\ pc[Loop] = "more"
    /\ pc' = [pc EXCEPT ![Loop] = IF it # Null THEN "advance"
                                  ELSE IF draining THEN "returned" ELSE "check"]
    /\ UNCHANGED <<finishing, started, destroyed, beforeFinish, queue, consumer>>

\* The end of a turn of __execute_all: the next node of the list, or the
\* caller's loop again.
More ==
    /\ pc[Loop] = "more"
    /\ prev' = Null
    /\ pc' = [pc EXCEPT ![Loop] = IF it # Null THEN "advance"
                                  ELSE IF draining THEN "pop" ELSE "check"]
    /\ UNCHANGED <<it, draining, executed, finishing, started, destroyed, beforeFinish, queue>>

\* The end of the loop's life.  join() has returned from finish() and has
\* joined the thread, and no thread schedules on a context that is being
\* destroyed; sync_wait leaves the scope of its loop when run() returns.
Destroy ==
    /\ pc[Loop] = "returned"
    /\ ~destroyed
    /\ JoinsFirst => /\ \A f \in Finishers : pc[f] = "finished"
                     /\ \A p \in Producers : pc[p] = "idle"
    /\ destroyed' = TRUE
    /\ UNCHANGED <<pc, finishing, started, beforeFinish, queue, consumer>>

Done == destroyed /\ UNCHANGED vars

Run == RunCheck \/ WaitForItem \/ PopAll \/ Advance \/ Execute \/ More \/ Destroy
Push(t) == PushLoad(t) \/ PushCas(t)

Next ==
    \/ Run
    \/ \E t \in Threads : Push(t)
    \/ \E p \in Producers : Start(p)
    \/ \E f \in Finishers : Finish(f)
    \/ Done

Spec == Init /\ [][Next]_vars

\* Threads inside a call keep running.  Whether and when a client starts an
\* operation or calls finish() is its own affair.
FairSpec ==
    /\ Spec
    /\ WF_vars(Run)
    /\ \A t \in Threads : WF_vars(Push(t))

-----------------------------------------------------------------------------
\* The most pushes there can be: every round, its chained operation, Noop.
MaxPushes == 1 + SumFunctionOnSet(Rounds, Producers) + SumFunctionOnSet(Rounds, Chaining)

\* What the consumer still holds of the list it took.
Taken == (IF pc[Loop] = "execute" THEN <<prev>> ELSE <<>>) \o ListFrom(it)

\* The queue is first-in first-out and neither loses nor repeats an
\* operation: what was executed, what the consumer has in hand and what the
\* list holds are together, in this order, the successful pushes.  This is
\* about push's compare-exchange against addresses that come back, about
\* make_reversed, and about __execute_all reading a node's link before the
\* node is reused.
QueueIsFifo == pushed = executed \o Taken \o Reverse(ListFrom(head))

\* When run() returns, every operation that was scheduled before finish() has
\* been executed, and so has every operation that one of these scheduled in
\* turn while the queue was being drained.
DrainedAtReturn ==
    pc[Loop] = "returned" =>
        /\ Len(executed) >= beforeFinish
        /\ \A p \in Chaining : Times(Then[p], executed) = Times(p, executed)

-----------------------------------------------------------------------------
(* The inductive invariant behind QueueIsFifo and DrainedAtReturn.         *)

TypeOK ==
    /\ head \in Nodes \union {Null}
    /\ next \in [Nodes -> Nodes \union {Null}]
    /\ finishing \in BOOLEAN /\ draining \in BOOLEAN /\ destroyed \in BOOLEAN
    /\ pc \in [Threads -> {"idle", "push_load", "push_cas", "finished", "check", "wait", "pop",
                           "advance", "execute", "more", "returned"}]
    /\ node \in [Threads -> Nodes \union {Null}]
    /\ old_head \in [Threads -> Nodes \union {Null}]
    /\ it \in Nodes \union {Null} /\ prev \in Nodes \union {Null}
    /\ started \in [Producers -> Nat]
    /\ pushed \in Seq(Nodes) /\ executed \in Seq(Nodes)
    /\ beforeFinish \in Nat

\* Who is where, and which node each thread pushes.
Roles ==
    /\ \A p \in Producers : /\ pc[p] \in {"idle"} \union Pushing
                            /\ pc[p] \in Pushing => node[p] = p
    /\ \A f \in Finishers : /\ pc[f] \in {"idle", "finished"} \union Pushing
                            /\ pc[f] \in Pushing => node[f] = Noop
    /\ pc[Loop] \notin {"idle", "finished"}
    /\ pc[Loop] \in Pushing => prev \in Chaining /\ node[Loop] = Then[prev]
    /\ \A t \in Threads : pc[t] = "push_cas" => next[node[t]] = old_head[t]

\* How often each node has been pushed: a producer's once per start, a chained
\* one once per execution of the node before it, Noop once.  A producer starts
\* again only after its last node was executed.
Accounts ==
    /\ \A p \in Producers :
         /\ Times(p, pushed) + (IF pc[p] \in Pushing THEN 1 ELSE 0) = started[p]
         /\ started[p] <= Times(LastNode(p), executed) + 1
    /\ \A p \in Chaining :
         Times(Then[p], pushed) + (IF pc[Loop] \in Pushing /\ prev = p THEN 1 ELSE 0)
           = Times(p, executed)
    /\ \A f \in Finishers :
         /\ pc[f] # "idle" => finishing
         /\ pc[f] \in Pushing => /\ Times(Noop, pushed) = 0
                                 /\ \A g \in Finishers \ {f} : pc[g] \notin Pushing
    /\ ~finishing => Times(Noop, pushed) = 0

\* The pushes that were not executed yet.
Pending == Len(executed) + 1 .. Len(pushed)

\* A node is pending at most once, and is not pushed again meanwhile.
PendingOnce ==
    /\ Len(executed) <= Len(pushed)
    /\ \A i \in 1 .. Len(executed) : executed[i] = pushed[i]
    /\ \A i, j \in Pending : pushed[i] = pushed[j] => i = j
    /\ \A t \in Threads : pc[t] \in Pushing => \A i \in Pending : pushed[i] # node[t]

\* The position of the consumer: how many nodes it has executed or is executing.
Reached == IF pc[Loop] = "execute" THEN Len(executed) + 1 ELSE Len(executed)

\* The first k pushes are those the consumer has taken: it holds them linked
\* from the oldest to the newest, the list holds the others the other way
\* round.
TakenUpTo(k) ==
    /\ Reached <= k /\ k <= Len(pushed)
    /\ head = IF k = Len(pushed) THEN Null ELSE pushed[Len(pushed)]
    /\ \A i \in k + 1 .. Len(pushed) :
         next[pushed[i]] = IF i = k + 1 THEN Null ELSE pushed[i - 1]
    /\ it = IF k = Reached THEN Null ELSE pushed[Reached + 1]
    /\ \A i \in Reached + 1 .. k : next[pushed[i]] = IF i = k THEN Null ELSE pushed[i + 1]

\* What the consumer has in hand at each point of run(), and what finish()
\* has told it.
Phases ==
    /\ pc[Loop] \in {"check", "wait", "pop", "returned"} => it = Null
    /\ pc[Loop] = "advance" => it # Null
    /\ pc[Loop] = "execute" => prev = pushed[Len(executed) + 1]
    /\ pc[Loop] \in Pushing \union {"more"} => prev # Null
    /\ draining => finishing
    /\ pc[Loop] = "returned" => draining
    /\ beforeFinish <= Len(pushed)

IInv ==
    /\ TypeOK /\ Roles /\ Accounts /\ PendingOnce /\ Phases
    /\ \E k \in Nat : TakenUpTo(k)
    /\ DrainedAtReturn

-----------------------------------------------------------------------------
\* An operation scheduled before finish() is executed, finish() or not.
ScheduledIsExecuted ==
    \A k \in 1 .. MaxPushes :
        (Len(pushed) >= k /\ ~finishing) ~> (Len(executed) >= k)

\* run() returns after finish(), even when finish() finds the consumer
\* waiting on an empty queue.
RunReturns == finishing ~> (pc[Loop] = "returned")

\* run() returns only once finish() has pushed the work item that lets it
\* finish: nobody is left inside finish() when the loop is destroyed.
FinishOverBeforeDestroy ==
    destroyed => \A t \in Threads : pc[t] \notin Pushing
=============================================================================
