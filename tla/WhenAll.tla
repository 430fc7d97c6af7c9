------------------------------ MODULE WhenAll ------------------------------
(***************************************************************************)
(* cudax when_all: the operation state that starts its child operations,   *)
(* collects their values, the first error or a stop, cancels the others    *)
(* through a stop source of its own, which a callback on the receiver's    *)
(* stop token forwards to, and completes the receiver when the last child  *)
(* has arrived.  The receiver may destroy the operation state from within  *)
(* its completion: nobody may touch it after that.                         *)
(*                                                                         *)
(* The children are external.  An "inline" child completes inside start(). *)
(* An "async" one completes on a thread of its own, and its stop callback  *)
(* only leaves a note; an "eager" one lets its stop callback complete it,  *)
(* on the thread that requests the stop.                                   *)
(***************************************************************************)
EXTENDS StopSource, FiniteSets

CONSTANTS
    ChildOrder,     \* the child operations, in the order they are started
    Starter,        \* the thread that calls start()
    Stopper,        \* the thread that may request the stop
    Outer,          \* the stop source behind the receiver's token
    Inner,          \* __state_t::__stop_source_
    OnStop,         \* __state_t::__on_stop_
    Kinds           \* the kinds of children

Children == Range(ChildOrder)

ASSUME WhenAllConstants ==
    /\ ChildOrder \in Seq(Children) \ {<<>>} /\ IsInjective(ChildOrder)
    /\ Threads = Children \union {Starter, Stopper}
    /\ Starter # Stopper /\ Children \intersect {Starter, Stopper} = {}
    /\ "undecided" \notin Threads
    /\ None \notin {"undecided", "set_value", "set_error", "set_stopped"}
    /\ Sources = {Outer, Inner} /\ Outer # Inner
    /\ Callbacks = Children \union {OnStop} /\ OnStop \notin Children
    /\ SourceOf = [c \in Callbacks |-> IF c = OnStop THEN Outer ELSE Inner]
    /\ Kinds \subseteq {"inline", "async", "eager"}

VARIABLES
    stoppable,      \* the receiver's token is an inplace_stop_token
    kind,           \* what sort of sender each child is
    asked,          \* the stop has been requested from outside
    owner,          \* who completes each child: undecided while it runs
    cancelled,      \* the note a stop callback leaves for its child
    count,          \* __count_
    state,          \* __state_
    errors,         \* the child whose error is in __errors_
    values,         \* the children whose values are in __values_
    sent,           \* history: the completion signal of each child
    result          \* history: the completions of the receiver

config == <<stoppable, kind>>
child == <<owner, cancelled>>
op == <<count, state, errors, values>>
vars == <<src, cb, stack, stoppable, kind, asked, owner, cancelled,
          count, state, errors, values, sent, result>>

Init ==
    /\ StopInit
    /\ stoppable \in BOOLEAN
    /\ kind \in [Children -> Kinds]
    /\ asked = FALSE
    /\ owner = [c \in Children |-> None]
    /\ cancelled = [c \in Children |-> FALSE]
    /\ count = Len(ChildOrder)
    /\ state = "started"
    /\ errors = None
    /\ values = {}
    /\ sent = [c \in Children |-> None]
    /\ result = <<>>
    /\ stack = [t \in Threads |-> IF t = Starter THEN <<Frame("start", OnStop)>> ELSE <<>>]

-----------------------------------------------------------------------------
\* Somebody else requests the stop of the receiver's operation.
AskStop ==
    /\ stoppable /\ ~asked
    /\ asked' = TRUE
    /\ stack' = [stack EXCEPT ![Stopper] = <<Frame("request_stop", Outer)>>]
    /\ UNCHANGED <<src, cb, config, child, op, sent, result>>

\* start: construct __on_stop_ on the receiver's token.  The callback of a
\* never_stop_token does nothing.
Start(t) ==
    /\ At(t, "start")
    /\ IF stoppable
       THEN /\ cb' = [cb EXCEPT ![OnStop] = Born]
            /\ Call(t, Frame("add", OnStop), "check")
       ELSE /\ Goto(t, "check")
            /\ UNCHANGED cb
    /\ UNCHANGED <<src, asked, config, child, op, sent, result>>

\* start: with the stop already requested the children are not started, and
\* the callback is destroyed here; else start the first child.
CheckStopped(t) ==
    /\ At(t, "check")
    /\ IF src[Inner].requested
       THEN Call(t, Frame("remove", OnStop), "abandon")
       ELSE Become(t, Frame("start_child", ChildOrder[1]))
    /\ UNCHANGED <<src, cb, asked, config, child, op, sent, result>>

Abandon(t) ==
    /\ At(t, "abandon")
    /\ result' = Append(result, "set_stopped")
    /\ Return(t)
    /\ UNCHANGED <<src, cb, asked, config, child, op, sent>>

\* start of a child (external): complete it here, or register its stop
\* callback with the token of the operation.
StartChild(t) ==
    /\ At(t, "start_child")
    /\ LET c == Of(t)
       IN  \/ /\ kind[c] = "inline"
              /\ \E signal \in {"set_value", "set_error", "set_stopped"} :
                    Call(t, Frame(signal, c), "started")
              /\ UNCHANGED cb
           \/ /\ kind[c] # "inline"
              /\ cb' = [cb EXCEPT ![c] = Born]
              /\ Call(t, Frame("add", c), "hand_off")
    /\ UNCHANGED <<src, asked, config, child, op, sent, result>>

\* An eager child that was stopped while it started completes here; the
\* others go to their own thread.
HandOff(t) ==
    /\ At(t, "hand_off")
    /\ LET c == Of(t)
       IN  IF kind[c] = "eager" /\ cancelled[c]
           THEN /\ owner' = [owner EXCEPT ![c] = t]
                /\ Call(t, Frame("finish_child", c), "started")
           ELSE /\ owner' = [owner EXCEPT ![c] = "undecided"]
                /\ Goto(t, "started")
    /\ UNCHANGED <<src, cb, asked, config, cancelled, op, sent, result>>

\* __start_all: the next child, until all are started.
StartNextChild(t) ==
    /\ At(t, "started")
    /\ LET i == CHOOSE i \in DOMAIN ChildOrder : ChildOrder[i] = Of(t)
       IN  IF i = Len(ChildOrder)
           THEN Return(t)
           ELSE Become(t, Frame("start_child", ChildOrder[i + 1]))
    /\ UNCHANGED <<src, cb, asked, config, child, op, sent, result>>

\* The child's own thread (external): the work is done, or was given up.
ChildWorks(c) ==
    /\ owner[c] = "undecided"
    /\ owner' = [owner EXCEPT ![c] = c]
    /\ stack' = [stack EXCEPT ![c] = <<Frame("finish_child", c)>>]
    /\ UNCHANGED <<src, cb, asked, config, cancelled, op, sent, result>>

\* A child's stop callback (external) leaves a note; that of an eager child
\* completes the child when nobody else has set about to.  __on_stop_ passes
\* the request on to the operation's own source.
InCallback(t) ==
    /\ At(t, "callback")
    /\ LET c == Of(t)
       IN  \/ /\ c = OnStop
              /\ Become(t, Frame("request_stop", Inner))
              /\ UNCHANGED child
           \/ /\ c # OnStop
              /\ cancelled' = [cancelled EXCEPT ![c] = TRUE]
              /\ IF kind[c] = "eager" /\ owner[c] = "undecided"
                 THEN /\ owner' = [owner EXCEPT ![c] = t]
                      /\ Become(t, Frame("finish_child", c))
                 ELSE /\ Return(t)
                      /\ UNCHANGED owner
    /\ UNCHANGED <<src, cb, asked, config, op, sent, result>>

\* Before it completes, a child (external) destroys its stop callback.
FinishChild(t) ==
    /\ At(t, "finish_child")
    /\ Call(t, Frame("remove", Of(t)), "complete_child")
    /\ UNCHANGED <<src, cb, asked, config, child, op, sent, result>>

CompleteChild(t) ==
    /\ At(t, "complete_child")
    /\ \E signal \in {"set_value", "set_error", "set_stopped"} :
          /\ signal = "set_stopped" => cancelled[Of(t)]
          /\ Goto(t, signal)
    /\ UNCHANGED <<src, cb, asked, config, child, op, sent, result>>

-----------------------------------------------------------------------------
\* __rcvr_t::set_value: store the values; when that throws, it is an error.
SetValue(t) ==
    /\ At(t, "set_value")
    /\ \/ /\ values' = values \union {Of(t)}
          /\ sent' = [sent EXCEPT ![Of(t)] = "set_value"]
          /\ Goto(t, "arrive")
       \/ /\ Goto(t, "set_error")
          /\ UNCHANGED <<values, sent>>
    /\ UNCHANGED <<src, cb, asked, config, child, count, state, errors, result>>

SetError_no_stop(t) ==
    /\ At(t, "set_error")
    /\ state' = "error"
    /\ sent' = [sent EXCEPT ![Of(t)] = "set_error"]
    /\ Goto(t, IF state = "error" THEN "arrive" ELSE "emplace")
    /\ UNCHANGED <<src, cb, asked, config, child, count, errors, values, result>>

\* __set_error: the exchange elects one error; the winner cancels the other
\* children before it stores the error.
SetError(t) ==
    /\ At(t, "set_error")
    /\ state' = "error"
    /\ sent' = [sent EXCEPT ![Of(t)] = "set_error"]
    /\ IF state = "error"
       THEN Goto(t, "arrive")
       ELSE Call(t, Frame("request_stop", Inner), "emplace")
    /\ UNCHANGED <<src, cb, asked, config, child, count, errors, values, result>>

EmplaceError(t) ==
    /\ At(t, "emplace")
    /\ errors' = Of(t)
    /\ Goto(t, "arrive")
    /\ UNCHANGED <<src, cb, asked, config, child, count, state, values, sent, result>>

SetStopped_overwrites(t) ==
    /\ At(t, "set_stopped")
    /\ sent' = [sent EXCEPT ![Of(t)] = "set_stopped"]
    /\ state' = "stopped"
    /\ IF state = "stopped"
       THEN Goto(t, "arrive")
       ELSE Call(t, Frame("request_stop", Inner), "arrive")
    /\ UNCHANGED <<src, cb, asked, config, child, count, errors, values, result>>

\* __set_stopped: from started to stopped only; an error stays.
SetStopped(t) ==
    /\ At(t, "set_stopped")
    /\ sent' = [sent EXCEPT ![Of(t)] = "set_stopped"]
    /\ IF state = "started"
       THEN /\ state' = "stopped"
            /\ Call(t, Frame("request_stop", Inner), "arrive")
       ELSE /\ Goto(t, "arrive")
            /\ UNCHANGED state
    /\ UNCHANGED <<src, cb, asked, config, child, count, errors, values, result>>

Arrive_keeps_callback(t) ==
    /\ At(t, "arrive")
    /\ count' = count - 1
    /\ IF count = 1 THEN Goto(t, "deliver") ELSE Return(t)
    /\ UNCHANGED <<src, cb, asked, config, child, state, errors, values, sent, result>>

\* __arrive: the last child completes the operation; __complete first
\* destroys __on_stop_.
Arrive(t) ==
    /\ At(t, "arrive")
    /\ count' = count - 1
    /\ IF count > 1 THEN Return(t)
       ELSE IF stoppable THEN Call(t, Frame("remove", OnStop), "deliver")
       ELSE Goto(t, "deliver")
    /\ UNCHANGED <<src, cb, asked, config, child, state, errors, values, sent, result>>

\* __complete: the receiver's completion.  The operation state may be gone
\* when it returns.
Deliver(t) ==
    /\ At(t, "deliver")
    /\ result' = Append(result, CASE state = "started" -> "set_value"
                                  [] state = "error"   -> "set_error"
                                  [] state = "stopped" -> "set_stopped")
    /\ Return(t)
    /\ UNCHANGED <<src, cb, asked, config, child, op, sent>>

-----------------------------------------------------------------------------
Step(t) ==
    \/ StopStep(t) /\ UNCHANGED <<asked, config, child, op, sent, result>>
    \/ Start(t) \/ CheckStopped(t) \/ Abandon(t) \/ StartChild(t) \/ HandOff(t)
    \/ StartNextChild(t) \/ InCallback(t) \/ FinishChild(t) \/ CompleteChild(t)
    \/ SetValue(t) \/ SetError(t) \/ EmplaceError(t) \/ SetStopped(t)
    \/ Arrive(t) \/ Deliver(t)

Idle == \A t \in Threads : stack[t] = <<>>

Done == result # <<>> /\ Idle /\ (stoppable => asked) /\ UNCHANGED vars

Next ==
    \/ AskStop
    \/ \E c \in Children : ChildWorks(c)
    \/ \E t \in Threads : Step(t)
    \/ Done

Spec == Init /\ [][Next]_vars

\* Threads run, and a child operation ends by itself (external); the stop
\* need not ever be requested.
FairSpec ==
    /\ Spec
    /\ \A t \in Threads : WF_vars(Step(t))
    /\ \A c \in Children : WF_vars(ChildWorks(c))

-----------------------------------------------------------------------------
\* The receiver is completed at most once, and with the right signal: with
\* the values only when every child has stored its own, with an error as soon
\* as one child had one, and then the error is in place, and with set_stopped
\* only when a child was stopped or none was started.
CompletesRight ==
    /\ Len(result) <= 1
    /\ Contains(result, "set_value") => values = Children
    /\ Contains(result, "set_error") => errors # None /\ sent[errors] = "set_error"
    /\ Contains(result, "set_stopped") =>
         /\ \A c \in Children : sent[c] # "set_error"
         /\ \/ \E c \in Children : sent[c] = "set_stopped"
            \/ \A c \in Children : sent[c] = None

\* What a frame touches when it goes on: the operation state, or the stop
\* source inside it.
TouchesOperation(frame) ==
    \/ frame.at \in {"check", "abandon", "start_child", "hand_off", "complete_child",
                     "set_value", "set_error", "set_stopped", "emplace", "arrive", "deliver"}
    \/ frame.at \in {"request_stop", "notify"} /\ frame.of = Inner
    \/ frame.at \in {"add", "link", "remove", "unlink", "await", "run", "ran", "relock",
                     "callback", "finish_child"} /\ frame.of \in Children
    \/ frame.at = "started" /\ frame.of # Last(ChildOrder)

\* Thread t has destroyed __on_stop_ from inside its own execution: forwarding
\* the receiver's stop, it has come to complete the last child.
DestroyedByItself(t) == Inside(t, {"ran"}, OnStop) /\ src[Outer].removed

\* A point of request_stop on the operation's own source, but for those that
\* run a child's callback.
StopsChildren(frame) ==
    \/ frame.at \in {"request_stop", "notify"} /\ frame.of = Inner
    \/ frame.at \in {"ran", "relock"} /\ frame.of \in Children

\* Once the receiver is completed no thread touches the operation state or
\* its stop source any more: not another thread that is still forwarding the
\* stop, not a child that lost a race, not start().  This is about destroying
\* __on_stop_ before completing and about arriving after request_stop.  The
\* code makes one exception.  If the stop of the receiver, forwarded by
\* __on_stop_, makes the last child complete inside its own stop callback, the
\* destructor of __on_stop_ does not wait, since it runs inside the callback it
\* destroys; the receiver is completed, and the thread then returns into
\* request_stop, which locks the source inside the operation once more.  Even
\* then it runs no child's callback.
NoTouchAfterCompletion ==
    result # <<>> =>
        \A t \in Threads : \A i \in DOMAIN stack[t] :
            TouchesOperation(stack[t][i]) => DestroyedByItself(t) /\ StopsChildren(stack[t][i])

\* When a child has failed or was stopped, the others hear of it: as soon as
\* nobody is busy passing the request on any more, every child that has its
\* stop callback registered, or executed on registration, is cancelled.
OthersCancelled ==
    /\ state # "started"
    /\ \A t \in Threads : ~Inside(t, {"request_stop"}, Inner) /\ ~Notifies(t, Inner)
    =>
    \A c \in Children :
        cb[c].life = "alive" /\ (\A t \in Threads : ~Inside(t, {"add", "callback"}, c))
            => cancelled[c]

\* An operation that is started completes, and request_stop returns: nobody
\* waits for a callback that waits for it.
Completes == <>(result # <<>>) /\ (asked ~> stack[Stopper] = <<>>)
=============================================================================
