----------------------------- MODULE StopSource -----------------------------
(***************************************************************************)
(* cudax inplace_stop_source and inplace_stop_callback: callbacks that     *)
(* register with a source, deregister in their destructor and are run by   *)
(* the one thread whose request_stop() came first, without the lock, while *)
(* other threads go on registering and deregistering.                      *)
(*                                                                         *)
(* Calls nest: a callback may itself call request_stop on another source   *)
(* or destroy itself.  So each thread has a stack of frames, innermost     *)
(* last; a frame says at which point it is and which source, callback or  *)
(* child operation it is about.  What a callback does when it is executed  *)
(* is left to the module that extends this one: it finds the frame         *)
(* "callback".  Sequentially consistent.                                   *)
(***************************************************************************)
EXTENDS Naturals, Sequences, SequencesExt

CONSTANTS
    Threads,
    Sources,
    Callbacks,
    SourceOf,       \* the source each callback is constructed with
    None            \* no thread: the value of a default __thread_id

ASSUME StopSourceConstants ==
    /\ SourceOf \in [Callbacks -> Sources]
    /\ None \notin Threads

VARIABLES
    src,            \* the sources
    cb,             \* the callbacks
    stack           \* the calls of each thread

stopVars == <<src, cb, stack>>

\* requested and locked are the two bits of __state_, callbacks the list
\* __callbacks_; removed is the local __removed_during_callback_ of the one
\* thread that runs the callbacks.
FreshSource == [requested |-> FALSE, locked |-> FALSE, callbacks |-> <<>>,
                notifying |-> None, removed |-> FALSE]

\* attached: __source_ is not null; linked: __prev_ptr_ is not null; flagged:
\* __removed_during_callback_ is not null; completed: __callback_completed_.
\* life is history: before construction, alive, or after destruction.
Unborn == [life |-> "unborn", attached |-> FALSE, linked |-> FALSE,
           flagged |-> FALSE, completed |-> FALSE]
Born == [Unborn EXCEPT !.life = "alive", !.attached = TRUE]

StopInit ==
    /\ src = [s \in Sources |-> FreshSource]
    /\ cb = [c \in Callbacks |-> Unborn]

-----------------------------------------------------------------------------
Frame(at, of) == [at |-> at, of |-> of]

At(t, at) == stack[t] # <<>> /\ Last(stack[t]).at = at
Of(t) == Last(stack[t]).of

\* Replace the innermost frame: carry on at another point, with another
\* frame, after a call, or return.
Rewrite(t, frames) == stack' = [stack EXCEPT ![t] = Front(@) \o frames]
Become(t, frame) == Rewrite(t, <<frame>>)
Goto(t, at) == Become(t, Frame(at, Of(t)))
Call(t, frame, at) == Rewrite(t, <<Frame(at, Of(t)), frame>>)
Return(t) == Rewrite(t, <<>>)

-----------------------------------------------------------------------------
\* request_stop: the first caller takes the lock and sets the stop bit in one
\* compare-exchange (__try_lock_unless_stop_requested(true)) and becomes the
\* notifying thread; the others return.
RequestStop(t) ==
    /\ At(t, "request_stop")
    /\ LET s == Of(t)
       IN  \/ /\ src[s].requested
              /\ Return(t)
              /\ UNCHANGED src
           \/ /\ ~src[s].requested /\ ~src[s].locked
              /\ src' = [src EXCEPT ![s].requested = TRUE, ![s].locked = TRUE,
                                    ![s].notifying = t]
              /\ Goto(t, "notify")
    /\ UNCHANGED cb

\* The head of request_stop's loop, under the lock: unlink the first callback
\* and release the lock to run it; with none left, release it and return.
NotifyNext(t) ==
    /\ At(t, "notify")
    /\ LET s == Of(t)
       IN  \/ /\ src[s].callbacks = <<>>
              /\ src' = [src EXCEPT ![s].locked = FALSE]
              /\ Return(t)
              /\ UNCHANGED cb
           \/ /\ src[s].callbacks # <<>>
              /\ src' = [src EXCEPT ![s].callbacks = Tail(@), ![s].locked = FALSE]
              /\ cb' = [cb EXCEPT ![Head(src[s].callbacks)].linked = FALSE]
              /\ Become(t, Frame("run", Head(src[s].callbacks)))

\* Publish the flag by which the callback may report its own removal, and
\* execute the callback.
RunCallback(t) ==
    /\ At(t, "run")
    /\ LET c == Of(t)
       IN  /\ src' = [src EXCEPT ![SourceOf[c]].removed = FALSE]
           /\ cb' = [cb EXCEPT ![c].flagged = TRUE]
           /\ Call(t, Frame("callback", c), "ran")

CallbackRan_silent(t) ==
    /\ At(t, "ran")
    /\ LET c == Of(t)
       IN  cb' = [cb EXCEPT ![c].flagged = FALSE]
    /\ Goto(t, "relock")
    /\ UNCHANGED src

\* After the callback: unless it was destroyed meanwhile by this very thread,
\* tell a destructor that waits for it.
CallbackRan(t) ==
    /\ At(t, "ran")
    /\ LET c == Of(t)
       IN  cb' = IF src[SourceOf[c]].removed THEN cb
                 ELSE [cb EXCEPT ![c].flagged = FALSE, ![c].completed = TRUE]
    /\ Goto(t, "relock")
    /\ UNCHANGED src

\* __lock at the end of the loop's body.
Relock(t) ==
    /\ At(t, "relock")
    /\ LET s == SourceOf[Of(t)]
       IN  /\ ~src[s].locked
           /\ src' = [src EXCEPT ![s].locked = TRUE]
           /\ Become(t, Frame("notify", s))
    /\ UNCHANGED cb

-----------------------------------------------------------------------------
TryAddCallback_always(t) ==
    /\ At(t, "add")
    /\ LET s == SourceOf[Of(t)]
       IN  /\ ~src[s].locked
           /\ src' = [src EXCEPT ![s].locked = TRUE]
           /\ Goto(t, "link")
    /\ UNCHANGED cb

\* The constructor: __try_lock_unless_stop_requested(false).  When the stop
\* has been requested, the callback forgets its source and is executed here.
TryAddCallback(t) ==
    /\ At(t, "add")
    /\ LET c == Of(t)
           s == SourceOf[c]
       IN  \/ /\ src[s].requested
              /\ cb' = [cb EXCEPT ![c].attached = FALSE]
              /\ Become(t, Frame("callback", c))
              /\ UNCHANGED src
           \/ /\ ~src[s].requested /\ ~src[s].locked
              /\ src' = [src EXCEPT ![s].locked = TRUE]
              /\ Goto(t, "link")
              /\ UNCHANGED cb

\* Under the lock: link the callback at the head of the list, and unlock.
LinkCallback(t) ==
    /\ At(t, "link")
    /\ LET c == Of(t)
           s == SourceOf[c]
       IN  /\ src' = [src EXCEPT ![s].callbacks = <<c>> \o @, ![s].locked = FALSE]
           /\ cb' = [cb EXCEPT ![c].linked = TRUE]
    /\ Return(t)

\* The destructor: nothing to do for a callback without a source; else lock.
RemoveCallback(t) ==
    /\ At(t, "remove")
    /\ LET c == Of(t)
           s == SourceOf[c]
       IN  \/ /\ ~cb[c].attached
              /\ cb' = [cb EXCEPT ![c].life = "dead"]
              /\ Return(t)
              /\ UNCHANGED src
           \/ /\ cb[c].attached /\ ~src[s].locked
              /\ src' = [src EXCEPT ![s].locked = TRUE]
              /\ Goto(t, "unlink")
              /\ UNCHANGED cb

\* The list without callback c.
Unlinked(callbacks, c) ==
    RemoveAt(callbacks, CHOOSE i \in DOMAIN callbacks : callbacks[i] = c)

UnlinkCallback_unflagged(t) ==
    /\ At(t, "unlink")
    /\ LET c == Of(t)
           s == SourceOf[c]
       IN  IF cb[c].linked \/ src[s].notifying = t
           THEN /\ src' = [src EXCEPT ![s].callbacks = IF cb[c].linked THEN Unlinked(@, c) ELSE @,
                                      ![s].locked = FALSE]
                /\ cb' = [cb EXCEPT ![c].life = "dead"]
                /\ Return(t)
           ELSE /\ src' = [src EXCEPT ![s].locked = FALSE]
                /\ Goto(t, "await")
                /\ UNCHANGED cb

\* Under the lock: a callback still in the list is taken out.  One that is
\* not has been run, or is running: on this thread, and then the flag tells
\* request_stop not to touch it any more; or on another, and then its end is
\* waited for.
UnlinkCallback(t) ==
    /\ At(t, "unlink")
    /\ LET c == Of(t)
           s == SourceOf[c]
       IN  \/ /\ cb[c].linked
              /\ src' = [src EXCEPT ![s].callbacks = Unlinked(@, c),
                                    ![s].locked = FALSE]
              /\ cb' = [cb EXCEPT ![c].life = "dead"]
              /\ Return(t)
           \/ /\ ~cb[c].linked /\ src[s].notifying = t
              /\ src' = [src EXCEPT ![s].removed = @ \/ cb[c].flagged, ![s].locked = FALSE]
              /\ cb' = [cb EXCEPT ![c].life = "dead"]
              /\ Return(t)
           \/ /\ ~cb[c].linked /\ src[s].notifying # t
              /\ src' = [src EXCEPT ![s].locked = FALSE]
              /\ Goto(t, "await")
              /\ UNCHANGED cb

\* The destructor spins on __callback_completed_.
AwaitCallback(t) ==
    /\ At(t, "await")
    /\ IF cb[Of(t)].completed
       THEN cb' = [cb EXCEPT ![Of(t)].life = "dead"] /\ Return(t)
       ELSE UNCHANGED <<cb, stack>>
    /\ UNCHANGED src

StopStep(t) ==
    \/ RequestStop(t) \/ NotifyNext(t) \/ RunCallback(t) \/ CallbackRan(t) \/ Relock(t)
    \/ TryAddCallback(t) \/ LinkCallback(t)
    \/ RemoveCallback(t) \/ UnlinkCallback(t) \/ AwaitCallback(t)

-----------------------------------------------------------------------------
\* Some call of thread t is at one of the given points, about x.
Inside(t, points, x) ==
    \E i \in DOMAIN stack[t] : stack[t][i].at \in points /\ stack[t][i].of = x

\* Thread t runs, or is about to run, the callbacks of source s.
Notifies(t, s) ==
    \/ Inside(t, {"notify"}, s)
    \/ \E c \in Callbacks : SourceOf[c] = s /\ Inside(t, {"run", "ran", "relock"}, c)

\* No callback is forgotten: as long as a stopped source still lists one, the
\* thread that requested the stop is on its way to it.  This is about the
\* stop bit and the lock being one word, so that no callback is registered
\* after the last look at the list.
NoForgottenCallback ==
    \A s \in Sources :
        src[s].requested /\ src[s].callbacks # <<>> => \E t \in Threads : Notifies(t, s)

\* A callback that is destroyed is out of reach: it is in no list, no thread
\* is about to run it, none but its own destroyer is still running it, and
\* request_stop will not write to it afterwards.  This is about the three
\* branches of __remove_callback and the flag __removed_during_callback_.
DeadCallbackUntouched ==
    \A c \in Callbacks :
        cb[c].life = "dead" =>
            /\ ~Contains(src[SourceOf[c]].callbacks, c)
            /\ \A t \in Threads :
                 /\ ~Inside(t, {"run"}, c)
                 /\ Inside(t, {"ran"}, c) =>
                      src[SourceOf[c]].notifying = t /\ src[SourceOf[c]].removed
=============================================================================
