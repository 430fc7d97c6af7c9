----------------------------- MODULE Semaphore -----------------------------
(***************************************************************************)
(* cuda::std::counting_semaphore and binary_semaphore (__atomic_semaphore  *)
(* and its specialization for a least_max_value of 1).  The counting one   *)
(* takes a unit by a load and a compare-exchange loop that gives up when   *)
(* it reads zero; the binary one by an exchange.  Blocking and timed       *)
(* acquisition poll; the notifications do nothing.                         *)
(*                                                                         *)
(* The clients hold at most one unit each, return it some time, and one of *)
(* them hands in units that nobody had taken, as a signaller does; there   *)
(* are never more units than the semaphore's maximum.  Sequentially        *)
(* consistent.                                                             *)
(***************************************************************************)
EXTENDS SemaphorePromise

CONSTANTS
    Calls,          \* bound: how many acquisitions each thread attempts
    ZeroCallers,    \* bound: the threads whose rest of time may be zero
    PollingCount    \* _LIBCUDACXX_POLLING_COUNT

ASSUME SemaphoreConstants ==
    /\ MaxUnits \in Nat \ {0}
    /\ Calls \in Nat
    /\ ZeroCallers \subseteq Threads
    /\ PollingCount \in Nat

VARIABLES
    op,             \* acquire, try_acquire or a timed call
    old,            \* the local __old
    polls,          \* __count of the polling loop
    expired,        \* the time-out of the thread's call has passed
    calls           \* acquisitions each thread has attempted

vars == <<binary, count, fresh, held, pc, op, old, polls, expired, calls, zeroSeen>>

\* try_acquire_for and try_acquire_until with some time left or overdue, and
\* with a rest of time that is zero.
Timed == {"try_acquire_for", "try_acquire_for_zero"}

Operations == {"acquire", "try_acquire"} \union Timed

Init ==
    /\ binary \in BOOLEAN
    /\ count \in 0 .. Units
    /\ fresh = Units - count
    /\ held = {}
    /\ pc = [t \in Threads |-> "idle"]
    /\ op = [t \in Threads |-> "acquire"]
    /\ old = [t \in Threads |-> 0]
    /\ polls = [t \in Threads |-> 0]
    /\ expired = [t \in Threads |-> FALSE]
    /\ calls = [t \in Threads |-> 0]
    /\ zeroSeen = [t \in Threads |-> FALSE]

\* Inside a call: not idle, and not about to look at its result.
InCall(t) == pc[t] \notin {"idle", "got", "failed"}

-----------------------------------------------------------------------------
\* A client calls one of the operations; all of them begin with try_acquire.
Begin(t) ==
    /\ pc[t] = "idle"
    /\ t \notin held
    /\ calls[t] < Calls
    /\ \E o \in Operations :
         /\ o = "try_acquire_for_zero" => t \in ZeroCallers
         /\ op' = [op EXCEPT ![t] = o]
    /\ calls' = [calls EXCEPT ![t] = @ + 1]
    /\ pc' = [pc EXCEPT ![t] = "try"]
    /\ UNCHANGED <<binary, count, fresh, held, old, polls, expired>>

\* An attempt has failed: try_acquire says so, acquire waits, a timed call
\* starts to poll, or finds itself in its polling loop.
AfterFailure(t) ==
    CASE op[t] = "try_acquire" -> "failed"
      [] op[t] = "acquire"     -> "wait"
      [] op[t] \in Timed       -> IF pc[t] \in {"poll", "poll_cas"} THEN "polled" ELSE "poll"

\* The binary semaphore's try_acquire: exchange(0).
Exchange(t) ==
    /\ binary
    /\ pc[t] \in {"try", "poll"}
    /\ count' = 0
    /\ pc' = [pc EXCEPT ![t] = IF count = 1 THEN "got" ELSE AfterFailure(t)]
    /\ held' = IF count = 1 THEN held \union {t} ELSE held
    /\ UNCHANGED <<binary, fresh, op, old, polls, expired, calls>>

\* __fetch_sub_if, and the function __acquire_slow_timed polls with: the load.
Load(t) ==
    /\ ~binary
    /\ pc[t] \in {"try", "poll"}
    /\ old' = [old EXCEPT ![t] = count]
    /\ pc' = [pc EXCEPT ![t] = IF count = 0 THEN AfterFailure(t)
                               ELSE IF pc[t] = "try" THEN "cas" ELSE "poll_cas"]
    /\ UNCHANGED <<binary, count, fresh, held, op, polls, expired, calls>>

CompareExchange_blind(t) ==
    /\ pc[t] \in {"cas", "poll_cas"}
    /\ count' = old[t] - 1
    /\ held' = held \union {t}
    /\ pc' = [pc EXCEPT ![t] = "got"]
    /\ UNCHANGED <<old, binary, fresh, op, polls, expired, calls>>

CompareExchange_once(t) ==
    /\ pc[t] \in {"cas", "poll_cas"}
    /\ \/ /\ count = old[t]
          /\ count' = old[t] - 1
          /\ held' = held \union {t}
          /\ pc' = [pc EXCEPT ![t] = "got"]
          /\ UNCHANGED old
       \/ /\ count # old[t]
          /\ old' = [old EXCEPT ![t] = count]
          /\ pc' = [pc EXCEPT ![t] = AfterFailure(t)]
          /\ UNCHANGED <<count, held>>
    /\ UNCHANGED <<binary, fresh, op, polls, expired, calls>>

\* compare_exchange_weak of __fetch_sub_if and of __fetch_sub_if_slow: take a
\* unit, or start over with the value found, and give up when that is zero.
\* (A spurious failure finds the same value and changes nothing.)
CompareExchange(t) ==
    /\ pc[t] \in {"cas", "poll_cas"}
    /\ \/ /\ count = old[t]
          /\ count' = old[t] - 1
          /\ held' = held \union {t}
          /\ pc' = [pc EXCEPT ![t] = "got"]
          /\ UNCHANGED old
       \/ /\ count # old[t]
          /\ old' = [old EXCEPT ![t] = count]
          /\ pc' = [pc EXCEPT ![t] = IF count = 0 THEN AfterFailure(t) ELSE @]
          /\ UNCHANGED <<count, held>>
    /\ UNCHANGED <<binary, fresh, op, polls, expired, calls>>

Wait_for_two(t) ==
    /\ pc[t] = "wait"
    /\ pc' = [pc EXCEPT ![t] = IF count > 1 THEN "try" ELSE "wait"]
    /\ UNCHANGED <<binary, count, fresh, held, op, old, polls, expired, calls>>

\* __wait_slow, or the wait of the binary semaphore: poll until the count is
\* not zero, then try again.
Wait(t) ==
    /\ pc[t] = "wait"
    /\ pc' = [pc EXCEPT ![t] = IF count # 0 THEN "try" ELSE "wait"]
    /\ UNCHANGED <<binary, count, fresh, held, op, old, polls, expired, calls>>

BackOff_for_ever(t) ==
    /\ pc[t] = "polled"
    /\ polls' = [polls EXCEPT ![t] = IF @ < PollingCount THEN @ + 1 ELSE @]
    /\ pc' = [pc EXCEPT ![t] = "poll"]
    /\ UNCHANGED <<binary, count, fresh, held, op, old, expired, calls>>

\* __cccl_thread_poll_with_backoff after a failed attempt: the first
\* PollingCount times at once, then with a look at the clock and a pause.  At
\* that look the call fails if __max is over and is not zero: a zero stands
\* for no time-out.
BackOff(t) ==
    /\ pc[t] = "polled"
    /\ polls' = [polls EXCEPT ![t] = IF @ < PollingCount THEN @ + 1 ELSE @]
    /\ pc' = [pc EXCEPT ![t] =
                 IF polls[t] = PollingCount /\ op[t] # "try_acquire_for_zero" /\ expired[t]
                 THEN "failed" ELSE "poll"]
    /\ UNCHANGED <<binary, count, fresh, held, op, old, expired, calls>>

\* Time passes (external): more than __max has elapsed since the polling began.
Expire(t) ==
    /\ pc[t] \in {"poll", "poll_cas", "polled"} /\ ~expired[t]
    /\ expired' = [expired EXCEPT ![t] = TRUE]
    /\ UNCHANGED <<binary, count, fresh, held, pc, op, old, polls, calls>>

\* The call has returned; its locals are gone.
End(t) ==
    /\ pc[t] \in {"got", "failed"}
    /\ pc' = [pc EXCEPT ![t] = "idle"]
    /\ op' = [op EXCEPT ![t] = "acquire"]
    /\ old' = [old EXCEPT ![t] = 0]
    /\ polls' = [polls EXCEPT ![t] = 0]
    /\ expired' = [expired EXCEPT ![t] = FALSE]
    /\ UNCHANGED <<binary, count, fresh, held, calls>>

\* release(n): fetch_add, or store(1).
Released(n) == count' = IF binary THEN 1 ELSE count + n

\* A client returns its unit.
GiveBack(t) ==
    /\ pc[t] = "idle"
    /\ t \in held
    /\ held' = held \ {t}
    /\ Released(1)
    /\ UNCHANGED <<binary, fresh, pc, op, old, polls, expired, calls>>

\* The signaller releases units that nobody had acquired.
Signal ==
    /\ \E n \in 1 .. fresh : Released(n) /\ fresh' = fresh - n
    /\ UNCHANGED <<binary, held, pc, op, old, polls, expired, calls>>

-----------------------------------------------------------------------------
Step(t) ==
    \/ Exchange(t) \/ Load(t) \/ CompareExchange(t) \/ Wait(t) \/ BackOff(t)
    \/ End(t)

\* Keep track of the moments without a unit, for the calls that can fail.
Record ==
    zeroSeen' = [t \in Threads |-> /\ pc'[t] # "idle" /\ op'[t] # "acquire"
                                   /\ zeroSeen[t] \/ count' = 0]

Finished ==
    /\ \A t \in Threads : pc[t] = "idle" /\ calls[t] = Calls
    /\ held = {} /\ fresh = 0
    /\ UNCHANGED vars

Next ==
    \/ /\ \/ Signal
          \/ \E t \in Threads : Begin(t) \/ Step(t) \/ Expire(t) \/ GiveBack(t)
       /\ Record
    \/ Finished

Spec == Init /\ [][Next]_vars

\* Threads run and time passes.  Whether clients return their units is their
\* affair.
FairSpec ==
    /\ Spec
    /\ \A t \in Threads : WF_vars(Step(t) /\ Record) /\ WF_vars(Expire(t) /\ Record)

-----------------------------------------------------------------------------
TypeOK ==
    /\ binary \in BOOLEAN /\ count \in Nat /\ fresh \in Nat
    /\ held \subseteq Threads /\ IsFiniteSet(held)
    /\ pc \in [Threads -> {"idle", "try", "cas", "wait", "poll", "poll_cas", "polled",
                           "got", "failed"}]
    /\ op \in [Threads -> Operations]
    /\ old \in [Threads -> Nat] /\ polls \in [Threads -> 0 .. PollingCount]
    /\ expired \in [Threads -> BOOLEAN]
    /\ calls \in [Threads -> 0 .. Calls]
    /\ zeroSeen \in [Threads -> BOOLEAN]

\* What an acquisition in progress relies on: its thread holds nothing, a
\* compare-exchange expects a unit to be there, and whoever polls or has failed
\* is a call that may fail and has met the count at zero.
CallSound(t) ==
    /\ InCall(t) => t \notin held
    /\ pc[t] \in {"cas", "poll_cas"} => old[t] > 0
    /\ pc[t] \in {"poll", "poll_cas", "polled", "failed"} => op[t] # "acquire" /\ zeroSeen[t]

\* The inductive invariant.
IInv == TypeOK /\ UnitsConserved /\ \A t \in Threads : CallSound(t)

\* A call of try_acquire_for or try_acquire_until returns, even if no unit ever
\* comes, unless the rest of time it polls with is exactly zero: then
\* __cccl_thread_poll_with_backoff has no time-out, and the call blocks as
\* acquire does.
TimedReturns ==
    \A t \in Threads : (op[t] = "try_acquire_for" /\ InCall(t)) ~> ~InCall(t)

\* If the clients return their units, everyone who waits gets one, in acquire or
\* in a timed call without a time-out: no wake-up is lost, although nobody is
\* ever notified.
AcquireReturns ==
    WF_vars(Signal /\ Record) /\ (\A t \in Threads : WF_vars(GiveBack(t) /\ Record))
        => \A t \in Threads :
             (pc[t] = "wait" \/ (pc[t] = "poll" /\ op[t] = "try_acquire_for_zero")) ~> pc[t] = "got"
=============================================================================
