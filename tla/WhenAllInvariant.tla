-------------------------- MODULE WhenAllInvariant --------------------------
(***************************************************************************)
(* The safety properties of when_all and of the stop sources it uses, for  *)
(* any number of children.                                                 *)
(*                                                                         *)
(* A frame stays where it is in its stack until it is replaced, so that a  *)
(* thread and an index are the address of a frame.  The inductive          *)
(* invariant says which frame may be above which (Nested), that of some    *)
(* kinds of frames only one is anywhere (Locks, Notifying, Chain), and     *)
(* what each frame knows of the state.                                     *)
(***************************************************************************)
EXTENDS WhenAll, FiniteSetTheorems, TLAPS

ConstructorPoints == {"add", "link"}
DestructorPoints == {"remove", "unlink", "await"}
StartPoints == {"start", "check", "abandon", "start_child", "hand_off", "started"}
ChildPoints == {"finish_child", "complete_child", "set_value", "set_error", "set_stopped",
                "emplace", "arrive", "deliver"}
ChainPoints == ChildPoints \union {"start_child", "hand_off"}
Points == ConstructorPoints \union DestructorPoints \union StartPoints \union ChildPoints
          \union {"request_stop", "notify", "run", "ran", "relock", "callback"}

CallbacksOf(s) == {c \in Callbacks : SourceOf[c] = s}
Frames == [at : Points, of : Sources \union Callbacks]
FramesAt(points, xs) == {f \in Frames : f.at \in points /\ f.of \in xs}

TypeOK ==
    /\ src \in [Sources -> [requested : BOOLEAN, locked : BOOLEAN, callbacks : Seq(Callbacks),
                            notifying : Threads \union {None}, removed : BOOLEAN]]
    /\ \A s \in Sources : src[s].callbacks \in Seq(CallbacksOf(s))
    /\ cb \in [Callbacks -> [life : {"unborn", "alive", "dead"}, attached : BOOLEAN,
                             linked : BOOLEAN, flagged : BOOLEAN, completed : BOOLEAN]]
    /\ stack \in [Threads -> Seq(Frames)]
    /\ stoppable \in BOOLEAN /\ kind \in [Children -> Kinds] /\ asked \in BOOLEAN
    /\ owner \in [Children -> Threads \union {None, "undecided"}]
    /\ cancelled \in [Children -> BOOLEAN]
    /\ count \in Nat
    /\ state \in {"started", "error", "stopped"}
    /\ errors \in Children \union {None}
    /\ values \in SUBSET Children
    /\ sent \in [Children -> {None, "set_value", "set_error", "set_stopped"}]
    /\ result \in Seq({"set_value", "set_error", "set_stopped"})

-----------------------------------------------------------------------------
\* The points of request_stop for each of the two sources, and of a child's
\* completion.
RequestFrame(f, s) ==
    \/ f.at \in {"request_stop", "notify"} /\ f.of = s
    \/ f.at \in {"run", "ran", "relock"} /\ f.of \in CallbacksOf(s)
ChildFrame(f) == f.at \in ChildPoints /\ f.of \in Children

\* Which frame g may be the caller of which frame f.
CalledFrom(f, g) ==
    \/ /\ g.at = "check" /\ g.of = OnStop
       /\ \/ f.at \in ConstructorPoints \union {"callback"} /\ f.of = OnStop
          \/ RequestFrame(f, Inner)
    \/ /\ g.at = "hand_off" /\ g.of \in Children
       /\ f.at \in ConstructorPoints \union {"callback"} /\ f.of = g.of
    \/ g.at = "abandon" /\ f.at \in DestructorPoints /\ f.of = OnStop
    \/ /\ g.at = "complete_child" /\ g.of \in Children
       /\ f.at \in DestructorPoints /\ f.of = g.of
    \/ g.at = "deliver" /\ f.at \in DestructorPoints /\ f.of = OnStop
    \/ g.at \in {"emplace", "arrive"} /\ RequestFrame(f, Inner)
    \/ g.at = "started" /\ ChildFrame(f) /\ f.of = g.of
    \/ /\ g.at = "ran" /\ g.of = OnStop
       /\ (f.at = "callback" /\ f.of = OnStop) \/ RequestFrame(f, Inner)
    \/ /\ g.at = "ran" /\ g.of \in Children /\ f.of = g.of
       /\ f.at = "callback" \/ ChildFrame(f)

\* What a thread begins with.
Outermost(t, f) ==
    \/ t = Starter /\ f.at \in {"start", "check", "abandon"} /\ f.of = OnStop
    \/ t = Starter /\ f.at \in {"start_child", "hand_off", "started"} /\ f.of \in Children
    \/ t = Stopper /\ RequestFrame(f, Outer)
    \/ t \in Children /\ ChildFrame(f) /\ f.of = t

NestedFrames ==
    \A t \in Threads : \A i \in DOMAIN stack[t] :
        IF i = 1 THEN Outermost(t, stack[t][i]) ELSE CalledFrom(stack[t][i], stack[t][i - 1])

\* Only a receiver that can be stopped is.
Nested ==
    /\ NestedFrames
    /\ stack[Stopper] # <<>> => stoppable /\ asked

\* At most one frame of a set of frames is anywhere.
Once(S) ==
    \A t, u \in Threads : \A i \in DOMAIN stack[t], j \in DOMAIN stack[u] :
        stack[t][i] \in S /\ stack[u][j] \in S => t = u /\ i = j

Occurs(S) == \E t \in Threads : \E i \in DOMAIN stack[t] : stack[t][i] \in S

-----------------------------------------------------------------------------
\* A source's lock has one holder, and while a constructor holds it to link
\* its callback the stop is not requested.
LockFrames(s) == FramesAt({"notify"}, {s}) \union FramesAt({"link", "unlink"}, CallbacksOf(s))
LinkFrames(s) == FramesAt({"link"}, CallbacksOf(s))
Locked(s) ==
    /\ Once(LockFrames(s))
    /\ Occurs(LockFrames(s)) => src[s].locked
    /\ Occurs(LinkFrames(s)) => ~src[s].requested
Locks == \A s \in Sources : Locked(s)

\* One call runs the callbacks of a source; it does so until none is left.
NotifyFrames(s) == FramesAt({"notify"}, {s}) \union FramesAt({"run", "ran", "relock"}, CallbacksOf(s))
Notified(s) ==
    /\ Once(NotifyFrames(s))
    /\ \A t \in Threads : \A i \in DOMAIN stack[t] :
         stack[t][i] \in NotifyFrames(s) => src[s].requested /\ src[s].notifying = t
    /\ src[s].requested /\ src[s].callbacks # <<>> => Occurs(NotifyFrames(s))
Notifying == \A s \in Sources : Notified(s)

-----------------------------------------------------------------------------
\* A child is completed by one call; what is known of its signal on the way.
ChainFrames(c) == FramesAt(ChainPoints, {c})
Begun(c) == owner[c] # None \/ sent[c] # None \/ Occurs(ChainFrames(c))
Pending(c) == sent[c] = None \/ Occurs(FramesAt({"emplace", "arrive"}, {c}))

ChainFrameSound(f) ==
    /\ f.at \in {"start_child", "hand_off"} => owner[f.of] = None
    /\ f.at \in ChainPoints => owner[f.of] # "undecided"
    /\ f.at \in ChainPoints \ {"emplace", "arrive", "deliver"} => sent[f.of] = None
    /\ f.at = "emplace" => sent[f.of] = "set_error"
    /\ f.at \in {"arrive", "deliver"} => sent[f.of] # None
    /\ f.at = "deliver" => count = 0
    /\ f.at \in {"deliver", "abandon"} => result = <<>>

Chain ==
    /\ \A c \in Children : Once(ChainFrames(c))
    /\ Once(FramesAt({"deliver"}, Children))
    /\ \A t \in Threads : \A i \in DOMAIN stack[t] : ChainFrameSound(stack[t][i])
    /\ \A c \in Children : owner[c] = "undecided" => sent[c] = None

\* How far start() is says which children are begun.
StartOrder ==
    /\ stack[Starter] = <<>> => (\A c \in Children : Begun(c)) \/ (\A c \in Children : ~Begun(c))
    /\ stack[Starter] # <<>> =>
         /\ stack[Starter][1].at \in {"start", "check", "abandon"} =>
              result = <<>> /\ \A c \in Children : ~Begun(c)
         /\ stack[Starter][1].at \in {"start_child", "hand_off", "started"} =>
              \A i, j \in DOMAIN ChildOrder :
                  ChildOrder[i] = stack[Starter][1].of => (Begun(ChildOrder[j]) <=> j <= i)

Counted == count = Cardinality({c \in Children : Pending(c)})

-----------------------------------------------------------------------------
\* The list of a source is the set of its linked callbacks (a destructor that
\* takes its callback out leaves __prev_ptr_ as it is).
Listed ==
    \A s \in Sources :
        /\ IsInjective(src[s].callbacks)
        /\ \A c \in CallbacksOf(s) :
             cb[c].linked /\ cb[c].life # "dead"
                <=> \E i \in DOMAIN src[s].callbacks : src[s].callbacks[i] = c

\* What a call of a callback's life knows of it.
CallbackFrameSound(f) ==
    /\ f.at \in {"run", "ran"} => cb[f.of].attached /\ ~cb[f.of].linked /\ ~cb[f.of].completed
    /\ f.at = "run" => cb[f.of].life = "alive"
    /\ f.at = "ran" =>
         /\ cb[f.of].flagged /\ cb[f.of].life # "unborn"
         /\ cb[f.of].life = "dead" => src[SourceOf[f.of]].removed
    /\ f.at \in ConstructorPoints => cb[f.of] = Born
    /\ f.at \in DestructorPoints => cb[f.of].life = "alive"
    /\ f.at = "unlink" => cb[f.of].attached
    /\ f.at = "await" => cb[f.of].attached /\ ~cb[f.of].linked
    /\ f.at = "start" => cb[OnStop] = Unborn
    /\ f.at = "start_child" => cb[f.of] = Unborn
    /\ f.at \in {"hand_off", "finish_child"} => cb[f.of].life = "alive"
    /\ f.at \in ConstructorPoints \union DestructorPoints \union {"run", "ran", "relock", "callback"}
         => (f.of = OnStop => stoppable)

CallbacksSound ==
    /\ \A t \in Threads : \A i \in DOMAIN stack[t] : CallbackFrameSound(stack[t][i])
    /\ \A c \in Callbacks :
         /\ Once(FramesAt({"add", "link", "run", "ran"}, {c}))
         /\ cb[c].linked => cb[c].attached /\ ~cb[c].completed
         /\ cb[c].life = "unborn" => cb[c] = Unborn
    /\ \A c \in Children :
         /\ ~Begun(c) => cb[c] = Unborn
         /\ owner[c] = "undecided" => cb[c].life = "alive"

\* Until a child is told to stop its callback can be reached.
Reachable ==
    \A c \in Children : cb[c].life = "alive" =>
        cb[c].linked \/ cancelled[c] \/ Occurs(FramesAt({"add", "link", "callback", "run"}, {c}))

\* A child destroys its stop callback before it completes, and does not while
\* another call executes it.
Signals == {"set_value", "set_error", "set_stopped"}
SignalCalls(c) == FramesAt(Signals, {c})
CompletingCalls(c) == FramesAt({"complete_child"}, {c})
EndingCalls(c) == FramesAt(DestructorPoints, {c})
ExecutingCalls(c) == FramesAt({"callback"}, {c})
ChildSound(c) ==
    /\ Occurs(CompletingCalls(c)) => cb[c].life = "dead" \/ Occurs(EndingCalls(c))
    /\ sent[c] # None \/ Occurs(SignalCalls(c)) => cb[c].life # "alive"
    /\ Occurs(ExecutingCalls(c)) => cb[c].life = "alive"
ChildrenSound == \A c \in Children : ChildSound(c)

\* __on_stop_ lives until the end.
OnStopSound ==
    /\ src[Outer].notifying \in {None, Stopper}
    /\ stoppable /\ cb[OnStop].life = "unborn" => Occurs(FramesAt({"start"}, {OnStop}))
    /\ cb[OnStop].life = "dead" =>
         Occurs(FramesAt({"abandon"}, {OnStop})) \/ count = 0 \/ result # <<>>
    /\ stoppable /\ Occurs(FramesAt({"deliver", "abandon"}, Callbacks))
         => cb[OnStop].life = "dead" \/ Occurs(FramesAt(DestructorPoints, {OnStop}))
    /\ stoppable /\ result # <<>> => cb[OnStop].life = "dead"

-----------------------------------------------------------------------------
\* The state of the operation says what the children sent, and a stop that
\* it calls for is requested.
OperationSound ==
    /\ \A c \in Children :
         /\ sent[c] = "set_value" => c \in values
         /\ sent[c] = "set_error" => state = "error"
         /\ sent[c] = "set_stopped" => state # "started"
    /\ state = "stopped" => \E c \in Children : sent[c] = "set_stopped"
    /\ state = "error" => errors # None \/ Occurs(FramesAt({"emplace"}, Children))
    /\ errors # None => sent[errors] = "set_error"
    /\ src[Inner].requested \/ Occurs(FramesAt({"request_stop"}, {Inner}))
         => stoppable \/ state # "started"
    /\ state # "started" =>
         src[Inner].requested \/ Occurs(FramesAt({"request_stop"}, {Inner}))

Outcome == CASE state = "started" -> "set_value"
             [] state = "error"   -> "set_error"
             [] state = "stopped" -> "set_stopped"

\* The receiver is completed when every child has arrived, or none began.
EndSound ==
    \/ result = <<>>
    \/ result = <<Outcome>> /\ \A c \in Children : ~Pending(c)
    \/ result = <<"set_stopped">> /\ stack[Starter] = <<>> /\ \A c \in Children : ~Begun(c)

IInv ==
    /\ TypeOK /\ Nested /\ Locks /\ Notifying /\ Chain /\ StartOrder /\ Counted
    /\ Listed /\ CallbacksSound /\ Reachable /\ ChildrenSound /\ OnStopSound
    /\ OperationSound /\ EndSound
-----------------------------------------------------------------------------
(* The constants.                                                           *)

\* What the assumptions say of the two sources, the callbacks and the threads.
LEMMA Constants ==
    /\ Starter \in Threads /\ Stopper \in Threads /\ Starter # Stopper
    /\ \A c \in Children : c \in Threads /\ c \in Callbacks /\ c # OnStop
                           /\ c # Starter /\ c # Stopper /\ SourceOf[c] = Inner
    /\ OnStop \in Callbacks /\ SourceOf[OnStop] = Outer
    /\ \A c \in Callbacks : (c = OnStop \/ c \in Children) /\ SourceOf[c] \in Sources
    /\ Outer \in Sources /\ Inner \in Sources /\ Outer # Inner
    /\ \A s \in Sources : s = Outer \/ s = Inner
    /\ None \notin Threads /\ "undecided" \notin Threads
    /\ None # "undecided" /\ None # "set_value" /\ None # "set_error" /\ None # "set_stopped"
    /\ None \notin Children
  BY StopSourceConstants, WhenAllConstants

\* The callbacks of each source.
LEMMA Registered ==
    /\ CallbacksOf(Inner) = Children /\ CallbacksOf(Outer) = {OnStop}
    /\ \A s \in Sources : CallbacksOf(s) \subseteq Callbacks
  BY Constants DEF CallbacksOf

\* The order the children are started in.
LEMMA ChildOrderSound ==
    /\ ChildOrder \in Seq(Children) /\ Len(ChildOrder) \in Nat \ {0}
    /\ DOMAIN ChildOrder = 1 .. Len(ChildOrder)
    /\ \A i \in DOMAIN ChildOrder : ChildOrder[i] \in Children
    /\ \A c \in Children : \E i \in DOMAIN ChildOrder : ChildOrder[i] = c
    /\ \A i, j \in DOMAIN ChildOrder : ChildOrder[i] = ChildOrder[j] => i = j
  BY WhenAllConstants DEF Children, Range, IsInjective
-----------------------------------------------------------------------------
(* What a step does to the stacks.                                          *)

Top(t) == stack[t][Len(stack[t])]

\* In the stack of thread t the first n frames stay, the one above them, if
\* there is one, goes, and the frames of w come instead.
Moved(t, n, w) ==
    /\ n \in Nat /\ Len(stack[t]) \in {n, n + 1}
    /\ stack' \in [Threads -> Seq(Frames)]
    /\ \A u \in Threads : u # t => stack'[u] = stack[u]
    /\ Len(stack'[t]) = n + Len(w) /\ DOMAIN stack'[t] = 1 .. (n + Len(w))
    /\ \A i \in 1 .. n : stack'[t][i] = stack[t][i]
    /\ \A j \in 1 .. Len(w) : stack'[t][n + j] = w[j]

\* A step of a thread that has a frame to go on with.
Steps(t, w) == stack[t] # <<>> /\ Moved(t, Len(stack[t]) - 1, w)

\* Sequences of frames are what their length and their elements say.
LEMMA StackShape ==
    ASSUME stack \in [Threads -> Seq(Frames)], NEW t \in Threads
    PROVE  /\ Len(stack[t]) \in Nat /\ DOMAIN stack[t] = 1 .. Len(stack[t])
           /\ \A i \in DOMAIN stack[t] : stack[t][i] \in Frames
           /\ stack[t] = <<>> <=> Len(stack[t]) = 0
           /\ stack[t] # <<>> => Last(stack[t]) = Top(t) /\ Top(t) \in Frames
                                 /\ Len(stack[t]) \in DOMAIN stack[t]
  BY DEF Last, Top

\* Replacing the innermost frame of a stack.
LEMMA RewriteSteps ==
    ASSUME stack \in [Threads -> Seq(Frames)], NEW t \in Threads, stack[t] # <<>>,
           NEW w \in Seq(Frames), Rewrite(t, w)
    PROVE  Steps(t, w)
<1> DEFINE n == Len(stack[t]) - 1
<1>1. n \in Nat /\ Len(stack[t]) = n + 1
  BY StackShape
<1>2. Front(stack[t]) \in Seq(Frames) /\ Len(Front(stack[t])) = n
      /\ \A i \in 1 .. n : Front(stack[t])[i] = stack[t][i]
  <2> DEFINE q == stack[t]
  <2>1. q \in Seq(Frames) /\ Front(q) = SubSeq(q, 1, n) /\ n \in Nat /\ Len(q) = n + 1
    BY <1>1 DEF Front
  <2> HIDE DEF q, n
  <2>2. 1 \in 1 .. Len(q) + 1 /\ n \in 0 .. Len(q)
    BY <2>1
  <2>3. SubSeq(q, 1, n) \in Seq(Frames) /\ Len(SubSeq(q, 1, n)) = n
    BY <2>1
  <2>4. \A i \in 1 .. n : SubSeq(q, 1, n)[i] = q[i]
    BY <2>1
  <2> QED
    BY <2>1, <2>3, <2>4 DEF q
<1>3. stack' = [stack EXCEPT ![t] = Front(stack[t]) \o w]
  BY DEF Rewrite
<1>4. Front(stack[t]) \o w \in Seq(Frames)
  BY <1>2
<1>5. stack' \in [Threads -> Seq(Frames)] /\ stack'[t] = Front(stack[t]) \o w
      /\ \A u \in Threads : u # t => stack'[u] = stack[u]
  BY <1>3, <1>4
<1>6. /\ Len(stack'[t]) = n + Len(w) /\ DOMAIN stack'[t] = 1 .. (n + Len(w))
      /\ \A i \in 1 .. n : stack'[t][i] = stack[t][i]
      /\ \A j \in 1 .. Len(w) : stack'[t][n + j] = w[j]
  <2> DEFINE q == Front(stack[t])
  <2>1. q \in Seq(Frames) /\ Len(q) = n /\ \A i \in 1 .. n : q[i] = stack[t][i]
    BY <1>2
  <2>2. stack'[t] = q \o w
    BY <1>5
  <2>3. n \in Nat /\ q \o w \in Seq(Frames)
    BY <1>1, <2>1
  <2> HIDE DEF q, n
  <2>4. Len(q \o w) = n + Len(w)
    <3>1. q \in Seq(Frames) /\ w \in Seq(Frames)
      BY <2>1
    <3>2. Len(q \o w) = Len(q) + Len(w)
      BY <3>1
    <3> QED
      BY <2>1, <3>2
  <2>7. DOMAIN stack'[t] = 1 .. Len(stack'[t])
    <3>1. stack'[t] \in Seq(Frames)
      BY <1>5
    <3> QED
      BY <3>1
  <2>5. \A i \in 1 .. n : (q \o w)[i] = q[i]
    BY <2>1, <2>3
  <2>6. \A j \in 1 .. Len(w) : (q \o w)[n + j] = w[j]
    BY <2>1, <2>3
  <2> QED
    BY <2>1, <2>2, <2>4, <2>5, <2>6, <2>7
<1> QED
  BY <1>1, <1>5, <1>6 DEF Moved, Steps

\* A thread that begins.
LEMMA PushMoved ==
    ASSUME stack \in [Threads -> Seq(Frames)], NEW t \in Threads, stack[t] = <<>>,
           NEW f \in Frames, stack' = [stack EXCEPT ![t] = <<f>>]
    PROVE  \E z \in Nat : z = 0 /\ Moved(t, z, <<f>>)
<1>1. PICK z \in Nat : z = 0
  OBVIOUS
<1>2. Len(stack[t]) = 0 /\ <<f>> \in Seq(Frames) /\ Len(<<f>>) = 1
  OBVIOUS
<1>3. stack' \in [Threads -> Seq(Frames)] /\ stack'[t] = <<f>>
      /\ \A u \in Threads : u # t => stack'[u] = stack[u]
  BY <1>2
<1> QED
  BY <1>1, <1>2, <1>3 DEF Moved

\* Every frame after a step was there before, and was not the one replaced,
\* or is new.
LEMMA MovedFrames ==
    ASSUME stack \in [Threads -> Seq(Frames)], NEW t \in Threads, NEW n, NEW w \in Seq(Frames),
           Moved(t, n, w), NEW u \in Threads, NEW i \in DOMAIN stack'[u]
    PROVE  \/ /\ i \in DOMAIN stack[u] /\ stack'[u][i] = stack[u][i] /\ (u = t => i # n + 1)
           \/ u = t /\ \E j \in 1 .. Len(w) : i = n + j /\ stack'[u][i] = w[j]
<1>1. CASE u # t
  BY <1>1 DEF Moved
<1>2. CASE u = t /\ i \in 1 .. n
  BY <1>2, StackShape DEF Moved
<1>3. CASE u = t /\ i \notin 1 .. n
  <2>1. i \in 1 .. (n + Len(w)) /\ n \in Nat /\ Len(w) \in Nat
    BY <1>3 DEF Moved
  <2>2. i - n \in 1 .. Len(w) /\ i = n + (i - n)
    BY <2>1, <1>3
  <2> QED
    BY <2>2, <1>3 DEF Moved
<1> QED
  BY <1>1, <1>2, <1>3

\* Every frame that is not the one replaced stays.
LEMMA MovedKeeps ==
    ASSUME stack \in [Threads -> Seq(Frames)], NEW t \in Threads, NEW n, NEW w \in Seq(Frames),
           Moved(t, n, w), NEW u \in Threads, NEW i \in DOMAIN stack[u], u = t => i # n + 1
    PROVE  i \in DOMAIN stack'[u] /\ stack'[u][i] = stack[u][i]
<1>1. CASE u # t
  BY <1>1 DEF Moved
<1>2. CASE u = t
  <2>1. i \in 1 .. n
    BY <1>2, StackShape DEF Moved
  <2>2. Len(w) \in Nat
    OBVIOUS
  <2> QED
    BY <2>1, <2>2, <1>2 DEF Moved
<1> QED
  BY <1>1, <1>2

\* The new frames are where they belong.
LEMMA MovedNew ==
    ASSUME NEW t \in Threads, NEW n, NEW w \in Seq(Frames), Moved(t, n, w), NEW j \in 1 .. Len(w)
    PROVE  n + j \in DOMAIN stack'[t] /\ stack'[t][n + j] = w[j]
<1>1. Len(w) \in Nat /\ n \in Nat
  BY DEF Moved
<1> QED
  BY <1>1 DEF Moved

\* A frame that stays still occurs.
LEMMA OccursKept ==
    ASSUME stack \in [Threads -> Seq(Frames)], NEW t \in Threads, NEW n, NEW w \in Seq(Frames),
           Moved(t, n, w), NEW S, Occurs(S), Len(stack[t]) = n + 1 => Top(t) \notin S
    PROVE  Occurs(S)'
<1>a. PICK u \in Threads : \E i \in DOMAIN stack[u] : stack[u][i] \in S
  BY DEF Occurs
<1>1. PICK i \in DOMAIN stack[u] : stack[u][i] \in S
  BY <1>a
<1>2. u = t => i # n + 1
  BY <1>1, StackShape DEF Moved, Top
<1>3. i \in DOMAIN stack'[u] /\ stack'[u][i] = stack[u][i]
  BY <1>2, MovedKeeps
<1> QED
  BY <1>1, <1>3 DEF Occurs

\* A new frame occurs.
LEMMA OccursNew ==
    ASSUME NEW t \in Threads, NEW n, NEW w \in Seq(Frames), Moved(t, n, w), NEW S,
           NEW j \in 1 .. Len(w), w[j] \in S
    PROVE  Occurs(S)'
  BY MovedNew DEF Occurs

\* What occurs after a step did before, or is new.
LEMMA OccursBefore ==
    ASSUME stack \in [Threads -> Seq(Frames)], NEW t \in Threads, NEW n, NEW w \in Seq(Frames),
           Moved(t, n, w), NEW S, Occurs(S)'
    PROVE  Occurs(S) \/ \E j \in 1 .. Len(w) : w[j] \in S
<1>a. PICK u \in Threads : \E i \in DOMAIN stack'[u] : stack'[u][i] \in S
  BY DEF Occurs
<1>1. PICK i \in DOMAIN stack'[u] : stack'[u][i] \in S
  BY <1>a
<1>2. \/ i \in DOMAIN stack[u] /\ stack'[u][i] = stack[u][i] /\ (u = t => i # n + 1)
      \/ u = t /\ \E j \in 1 .. Len(w) : i = n + j /\ stack'[u][i] = w[j]
  BY MovedFrames
<1> QED
  BY <1>1, <1>2 DEF Occurs

\* The only frame of its kind is gone when it is replaced by others.
LEMMA OccursGone ==
    ASSUME stack \in [Threads -> Seq(Frames)], NEW t \in Threads, NEW w \in Seq(Frames),
           Steps(t, w), NEW S, Once(S), Top(t) \in S, \A j \in 1 .. Len(w) : w[j] \notin S
    PROVE  ~Occurs(S)'
<1> SUFFICES ASSUME Occurs(S)' PROVE FALSE
  OBVIOUS
<1> DEFINE n == Len(stack[t]) - 1
<1>0. stack[t] # <<>> /\ Moved(t, n, w)
  BY DEF Steps
<1>a. PICK u \in Threads : \E i \in DOMAIN stack'[u] : stack'[u][i] \in S
  BY DEF Occurs
<1>1. PICK i \in DOMAIN stack'[u] : stack'[u][i] \in S
  BY <1>a
<1>2. i \in DOMAIN stack[u] /\ stack'[u][i] = stack[u][i] /\ (u = t => i # n + 1)
  BY <1>0, <1>1, MovedFrames
<1>3. Len(stack[t]) \in DOMAIN stack[t] /\ Len(stack[t]) = n + 1
  BY <1>0, StackShape
<1> QED
  BY <1>1, <1>2, <1>3 DEF Once, Top

\* There is still one frame of its kind when there was none, or when the new
\* one comes in the place of the old.
LEMMA OnceKept ==
    ASSUME stack \in [Threads -> Seq(Frames)], NEW t \in Threads, NEW n, NEW w \in Seq(Frames),
           Moved(t, n, w), NEW S, Once(S),
           \A j, k \in 1 .. Len(w) : w[j] \in S /\ w[k] \in S => j = k,
           (\E j \in 1 .. Len(w) : w[j] \in S)
              => ~Occurs(S) \/ (Len(stack[t]) = n + 1 /\ Top(t) \in S)
    PROVE  Once(S)'
<1> SUFFICES ASSUME NEW u \in Threads, NEW v \in Threads,
                    NEW i \in DOMAIN stack'[u], NEW j \in DOMAIN stack'[v],
                    stack'[u][i] \in S, stack'[v][j] \in S
             PROVE  u = v /\ i = j
  BY DEF Once
<1> DEFINE Old(x, k) == k \in DOMAIN stack[x] /\ stack'[x][k] = stack[x][k] /\ (x = t => k # n + 1)
           New(x, k) == x = t /\ \E m \in 1 .. Len(w) : k = n + m /\ stack'[x][k] = w[m]
<1>1. (Old(u, i) \/ New(u, i)) /\ (Old(v, j) \/ New(v, j))
  <2>1. Old(u, i) \/ New(u, i)
    BY MovedFrames
  <2>2. Old(v, j) \/ New(v, j)
    BY MovedFrames
  <2> QED
    BY <2>1, <2>2
<1>2. CASE Old(u, i) /\ Old(v, j)
  BY <1>2 DEF Once
<1>3. CASE New(u, i) /\ New(v, j)
  BY <1>3 DEF Moved
<1>4. ASSUME NEW x \in Threads, NEW k \in DOMAIN stack'[x], Old(x, k), stack'[x][k] \in S,
             \E m \in 1 .. Len(w) : w[m] \in S
      PROVE  FALSE
  <2>1. Occurs(S)
    BY <1>4 DEF Occurs
  <2>2. Len(stack[t]) = n + 1 /\ Top(t) \in S
    BY <1>4, <2>1
  <2>3. n + 1 \in DOMAIN stack[t] /\ stack[t][n + 1] \in S
    BY <2>2, StackShape DEF Top, Moved
  <2> QED
    BY <1>4, <2>3 DEF Once
<1> QED
  BY <1>1, <1>2, <1>3, <1>4
-----------------------------------------------------------------------------
(* What a step does to the stacks, by the set N of the new frames.          *)

Stacks == stack \in [Threads -> Seq(Frames)]

\* The innermost frame of thread t, if it has one, is replaced by frames N.
Changes(t, N) ==
    \E n \in Nat : \E w \in Seq(Frames) :
        /\ Moved(t, n, w) /\ (stack[t] # <<>> => Len(stack[t]) = n + 1)
        /\ \A f : f \in N <=> \E j \in 1 .. Len(w) : w[j] = f
        /\ \A j, k \in 1 .. Len(w) : w[j] = w[k] => j = k

\* A return.
LEMMA ReturnChanges ==
    ASSUME Stacks, NEW t \in Threads, stack[t] # <<>>, Return(t)
    PROVE  Changes(t, {})
<1>1. <<>> \in Seq(Frames) /\ Len(<<>>) = 0
  OBVIOUS
<1>2. Steps(t, <<>>)
  BY <1>1, RewriteSteps DEF Return, Stacks
<1>3. PICK n \in Nat : n = Len(stack[t]) - 1 /\ Len(stack[t]) = n + 1
  BY StackShape DEF Stacks
<1>4. Moved(t, n, <<>>)
  BY <1>2, <1>3 DEF Steps
<1>5. PICK w \in Seq(Frames) : Len(w) = 0 /\ Moved(t, n, w)
  BY <1>1, <1>4
<1>6. \A j \in 1 .. Len(w) : FALSE
  BY <1>5
<1> QED
  BY <1>3, <1>5, <1>6 DEF Changes

\* Going on with another frame.
LEMMA BecomeChanges ==
    ASSUME Stacks, NEW t \in Threads, stack[t] # <<>>, NEW f \in Frames, Become(t, f)
    PROVE  Changes(t, {f})
<1>1. <<f>> \in Seq(Frames) /\ Len(<<f>>) = 1 /\ <<f>>[1] = f
  OBVIOUS
<1>2. Steps(t, <<f>>)
  BY <1>1, RewriteSteps DEF Become, Stacks
<1>3. PICK n \in Nat : n = Len(stack[t]) - 1 /\ Len(stack[t]) = n + 1
  BY StackShape DEF Stacks
<1>4. Moved(t, n, <<f>>)
  BY <1>2, <1>3 DEF Steps
<1>5. PICK w \in Seq(Frames) : Len(w) = 1 /\ w[1] = f /\ Moved(t, n, w)
  BY <1>1, <1>4
<1>6. \A j \in 1 .. Len(w) : j = 1
  BY <1>5
<1>7. \A h : h \in {f} <=> \E j \in 1 .. Len(w) : w[j] = h
  BY <1>5, <1>6
<1>8. stack[t] # <<>> => Len(stack[t]) = n + 1
  BY <1>3
<1>9. \A j, k \in 1 .. Len(w) : w[j] = w[k] => j = k
  BY <1>6
<1> QED
  BY <1>5, <1>7, <1>8, <1>9 DEF Changes

\* A call.
LEMMA CallChanges ==
    ASSUME Stacks, NEW t \in Threads, stack[t] # <<>>, NEW f \in Frames, NEW p \in Points,
           p # f.at, Call(t, f, p)
    PROVE  Changes(t, {Frame(p, Top(t).of), f})
<1> DEFINE g == Frame(p, Top(t).of)
<1>0. Of(t) = Top(t).of /\ g \in Frames /\ g # f
  <2>1. Top(t) \in Frames /\ Last(stack[t]) = Top(t)
    BY StackShape DEF Stacks
  <2>2. Top(t).of \in Sources \union Callbacks
    BY <2>1 DEF Frames
  <2>3. g \in Frames /\ g.at = p
    BY <2>2 DEF Frames, Frame
  <2> QED
    BY <2>1, <2>3 DEF Of
<1>1. <<g, f>> \in Seq(Frames) /\ Len(<<g, f>>) = 2 /\ <<g, f>>[1] = g /\ <<g, f>>[2] = f
  BY <1>0
<1>2. Steps(t, <<g, f>>)
  BY <1>0, <1>1, RewriteSteps DEF Call, Stacks
<1>3. PICK n \in Nat : n = Len(stack[t]) - 1 /\ Len(stack[t]) = n + 1
  BY StackShape DEF Stacks
<1>4. Moved(t, n, <<g, f>>)
  BY <1>2, <1>3 DEF Steps
<1> HIDE DEF g
<1>5. PICK w \in Seq(Frames) : Len(w) = 2 /\ w[1] = g /\ w[2] = f /\ Moved(t, n, w)
  BY <1>1, <1>4
<1>6. \A j \in 1 .. Len(w) : j = 1 \/ j = 2
  BY <1>5
<1>7. \A j, k \in 1 .. Len(w) : w[j] = w[k] => j = k
  BY <1>0, <1>5, <1>6
<1>8. \A h : h \in {g, f} <=> \E j \in 1 .. Len(w) : w[j] = h
  BY <1>5, <1>6
<1>9. Changes(t, {g, f})
  BY <1>3, <1>5, <1>7, <1>8 DEF Changes
<1> QED
  BY <1>9 DEF g

\* A thread that begins.
LEMMA PushChanges ==
    ASSUME Stacks, NEW t \in Threads, stack[t] = <<>>, NEW f \in Frames,
           stack' = [stack EXCEPT ![t] = <<f>>]
    PROVE  Changes(t, {f})
<1>1. <<f>> \in Seq(Frames) /\ Len(<<f>>) = 1 /\ <<f>>[1] = f
  OBVIOUS
<1>2. PICK n \in Nat : n = 0 /\ Moved(t, n, <<f>>)
  BY PushMoved DEF Stacks
<1>5. PICK w \in Seq(Frames) : Len(w) = 1 /\ w[1] = f /\ Moved(t, n, w)
  BY <1>1, <1>2
<1>6. \A j \in 1 .. Len(w) : j = 1
  BY <1>5
<1>7. \A h : h \in {f} <=> \E j \in 1 .. Len(w) : w[j] = h
  BY <1>5, <1>6
<1>8. stack[t] # <<>> => Len(stack[t]) = n + 1
  BY <1>2
<1>9. \A j, k \in 1 .. Len(w) : w[j] = w[k] => j = k
  BY <1>6
<1> QED
  BY <1>5, <1>7, <1>8, <1>9 DEF Changes

\* The stacks stay stacks of frames.
LEMMA ChangesType ==
    ASSUME NEW t \in Threads, NEW N, Changes(t, N)
    PROVE  Stacks'
  BY DEF Changes, Moved, Stacks

\* Every frame after a step is new, or was there before and is not the one
\* that was replaced.
LEMMA ChangesFrames ==
    ASSUME Stacks, NEW t \in Threads, NEW N, Changes(t, N),
           NEW u \in Threads, NEW i \in DOMAIN stack'[u]
    PROVE  \/ i \in DOMAIN stack[u] /\ stack'[u][i] = stack[u][i] /\ (u = t => i # Len(stack[t]))
           \/ u = t /\ stack'[u][i] \in N
<1>1. PICK n \in Nat, w \in Seq(Frames) :
          /\ Moved(t, n, w) /\ (stack[t] # <<>> => Len(stack[t]) = n + 1)
          /\ \A f : f \in N <=> \E j \in 1 .. Len(w) : w[j] = f
  BY DEF Changes
<1>2. \/ i \in DOMAIN stack[u] /\ stack'[u][i] = stack[u][i] /\ (u = t => i # n + 1)
      \/ u = t /\ \E j \in 1 .. Len(w) : i = n + j /\ stack'[u][i] = w[j]
  BY <1>1, MovedFrames DEF Stacks
<1>3. u = t /\ i \in DOMAIN stack[u] => Len(stack[t]) = n + 1
  BY <1>1, StackShape DEF Stacks
<1> QED
  BY <1>1, <1>2, <1>3

\* Every frame but the replaced one stays.
LEMMA ChangesKeeps ==
    ASSUME Stacks, NEW t \in Threads, NEW N, Changes(t, N),
           NEW u \in Threads, NEW i \in DOMAIN stack[u], u = t => i # Len(stack[t])
    PROVE  i \in DOMAIN stack'[u] /\ stack'[u][i] = stack[u][i]
<1>1. PICK n \in Nat, w \in Seq(Frames) :
          Moved(t, n, w) /\ (stack[t] # <<>> => Len(stack[t]) = n + 1)
  BY DEF Changes
<1>2. u = t => i # n + 1
  BY <1>1, StackShape DEF Stacks
<1> QED
  BY <1>1, <1>2, MovedKeeps DEF Stacks

\* A frame that stays still occurs.
LEMMA OccursStays ==
    ASSUME Stacks, NEW t \in Threads, NEW N, Changes(t, N), NEW S, Occurs(S),
           stack[t] # <<>> => Top(t) \notin S
    PROVE  Occurs(S)'
<1>1. PICK n \in Nat, w \in Seq(Frames) :
          Moved(t, n, w) /\ (stack[t] # <<>> => Len(stack[t]) = n + 1)
  BY DEF Changes
<1>2. Len(stack[t]) = n + 1 => Top(t) \notin S
  BY <1>1, StackShape DEF Stacks
<1> QED
  BY <1>1, <1>2, OccursKept DEF Stacks

\* A new frame occurs.
LEMMA OccursComes ==
    ASSUME NEW t \in Threads, NEW N, Changes(t, N), NEW S, NEW f \in N, f \in S
    PROVE  Occurs(S)'
<1>1. PICK n \in Nat, w \in Seq(Frames) :
          Moved(t, n, w) /\ \E j \in 1 .. Len(w) : w[j] = f
  BY DEF Changes
<1>2. PICK j \in 1 .. Len(w) : w[j] \in S
  BY <1>1
<1> QED
  BY <1>1, <1>2, OccursNew

\* What occurs after a step did before, or is new.
LEMMA OccursWas ==
    ASSUME Stacks, NEW t \in Threads, NEW N, Changes(t, N), NEW S, Occurs(S)'
    PROVE  Occurs(S) \/ \E f \in N : f \in S
<1>1. PICK n \in Nat, w \in Seq(Frames) :
          Moved(t, n, w) /\ \A f : f \in N <=> \E j \in 1 .. Len(w) : w[j] = f
  BY DEF Changes
<1>2. Occurs(S) \/ \E j \in 1 .. Len(w) : w[j] \in S
  BY <1>1, OccursBefore DEF Stacks
<1> QED
  BY <1>1, <1>2

\* The only frame of its kind is gone when it is replaced by others.
LEMMA OccursEnds ==
    ASSUME Stacks, NEW t \in Threads, NEW N, Changes(t, N), NEW S, Once(S),
           stack[t] # <<>>, Top(t) \in S, \A f \in N : f \notin S
    PROVE  ~Occurs(S)'
<1>1. PICK n \in Nat, w \in Seq(Frames) :
          /\ Moved(t, n, w) /\ (stack[t] # <<>> => Len(stack[t]) = n + 1)
          /\ \A f : f \in N <=> \E j \in 1 .. Len(w) : w[j] = f
  BY DEF Changes
<1>2. n = Len(stack[t]) - 1
  BY <1>1
<1>3. Steps(t, w)
  BY <1>1, <1>2 DEF Steps
<1> QED
  BY <1>1, <1>3, OccursGone DEF Stacks

\* There is still one frame of its kind at most.
LEMMA OnceStays ==
    ASSUME Stacks, NEW t \in Threads, NEW N, Changes(t, N), NEW S, Once(S),
           \A f, g \in N : f \in S /\ g \in S => f = g,
           (\E f \in N : f \in S) => ~Occurs(S) \/ (stack[t] # <<>> /\ Top(t) \in S)
    PROVE  Once(S)'
<1>1. PICK n \in Nat, w \in Seq(Frames) :
          /\ Moved(t, n, w) /\ (stack[t] # <<>> => Len(stack[t]) = n + 1)
          /\ \A f : f \in N <=> \E j \in 1 .. Len(w) : w[j] = f
          /\ \A j, k \in 1 .. Len(w) : w[j] = w[k] => j = k
  BY DEF Changes
<1>2. \A j, k \in 1 .. Len(w) : w[j] \in S /\ w[k] \in S => j = k
  BY <1>1
<1>3. (\E j \in 1 .. Len(w) : w[j] \in S)
        => ~Occurs(S) \/ (Len(stack[t]) = n + 1 /\ Top(t) \in S)
  BY <1>1
<1> QED
  BY <1>1, <1>2, <1>3, OnceKept DEF Stacks

\* Nothing changes while the stacks do not.
LEMMA StackUnchanged ==
    ASSUME UNCHANGED stack, NEW S
    PROVE  (Once(S)' <=> Once(S)) /\ (Occurs(S)' <=> Occurs(S))
  BY DEF Once, Occurs
-----------------------------------------------------------------------------
(* Which frame may be where.                                                *)

\* The innermost frame of a thread that is at a point.
LEMMA TopFrame ==
    ASSUME Stacks, NEW t \in Threads, NEW p, At(t, p)
    PROVE  /\ stack[t] # <<>> /\ Len(stack[t]) \in DOMAIN stack[t] /\ Len(stack[t]) \in Nat \ {0}
           /\ Top(t) = stack[t][Len(stack[t])] /\ Top(t) \in Frames
           /\ Top(t).at = p /\ Of(t) = Top(t).of /\ Top(t) = Frame(p, Top(t).of)
           /\ Top(t).of \in Sources \union Callbacks
<1>1. stack[t] # <<>> /\ Last(stack[t]).at = p
  BY DEF At
<1>2. /\ Last(stack[t]) = Top(t) /\ Top(t) \in Frames /\ Len(stack[t]) \in DOMAIN stack[t]
      /\ Len(stack[t]) \in Nat /\ Len(stack[t]) # 0
  BY <1>1, StackShape DEF Stacks
<1>3. Top(t) = [at |-> Top(t).at, of |-> Top(t).of] /\ Top(t).of \in Sources \union Callbacks
  BY <1>2 DEF Frames
<1> QED
  BY <1>1, <1>2, <1>3 DEF Of, Frame, Top

\* A frame f may be the innermost frame of thread t in place of the one that is.
Fits(t, f) ==
    IF Len(stack[t]) = 1 THEN Outermost(t, f) ELSE CalledFrom(f, stack[t][Len(stack[t]) - 1])

\* What the points and the nesting say of a frame.
Known(t, i, f) ==
    /\ f.at \in {"request_stop", "notify"} => f.of \in Sources
    /\ f.at \in ConstructorPoints \union DestructorPoints \union {"run", "ran", "relock", "callback"}
         => f.of \in Callbacks
    /\ f.at \in ChainPoints \union {"started"} => f.of \in Children
    /\ f.at \in StartPoints => t = Starter /\ i = 1
    /\ f.at \in {"start", "check", "abandon"} => f.of = OnStop
    /\ RequestFrame(f, Outer) => t = Stopper /\ i = 1

\* The nesting determines what each frame is about.
LEMMA FrameKinds ==
    ASSUME Stacks, Nested, NEW t \in Threads, NEW i \in DOMAIN stack[t]
    PROVE  Known(t, i, stack[t][i])
<1> DEFINE f == stack[t][i]
<1> SUFFICES Known(t, i, f)
  OBVIOUS
<1>1. i \in Nat \ {0} /\ f \in Frames
  BY StackShape DEF Stacks
<1>2. CASE i = 1
  <2>1. Outermost(t, f)
    BY <1>2 DEF Nested, NestedFrames
  <2> HIDE DEF f
  <2>2. CASE t = Starter /\ f.at \in {"start", "check", "abandon"} /\ f.of = OnStop
    BY <1>2, <2>2
    DEF Known, RequestFrame, ConstructorPoints, DestructorPoints, ChainPoints, ChildPoints, StartPoints
  <2>3. CASE t = Starter /\ f.at \in {"start_child", "hand_off", "started"} /\ f.of \in Children
    BY <1>2, <2>3
    DEF Known, RequestFrame, ConstructorPoints, DestructorPoints, ChainPoints, ChildPoints, StartPoints
  <2>4. CASE t = Stopper /\ RequestFrame(f, Outer)
    <3>1. f.of \in Sources \/ f.at \notin {"request_stop", "notify"}
      BY <2>4, Constants DEF RequestFrame
    <3>2. f.of \in Callbacks \/ f.at \notin {"run", "ran", "relock"}
      BY <2>4, Constants, Registered DEF RequestFrame
    <3>3. f.at \in {"request_stop", "notify", "run", "ran", "relock"}
      BY <2>4 DEF RequestFrame
    <3> QED
      BY <1>2, <2>4, <3>1, <3>2, <3>3
      DEF Known, ConstructorPoints, DestructorPoints, ChainPoints, ChildPoints, StartPoints
  <2>5. CASE t \in Children /\ ChildFrame(f) /\ f.of = t
    BY <1>2, <2>5
    DEF Known, RequestFrame, ChildFrame, ConstructorPoints, DestructorPoints, ChainPoints, ChildPoints,
        StartPoints
  <2> QED
    BY <2>1, <2>2, <2>3, <2>4, <2>5 DEF Outermost
<1>3. CASE i # 1
  <2>1. CalledFrom(f, stack[t][i - 1])
    BY <1>3 DEF Nested, NestedFrames
  <2>2. PICK g : CalledFrom(f, g)
    BY <2>1
  <2> HIDE DEF f
  <2>3. CASE f.at \in ConstructorPoints \union DestructorPoints \union {"callback"} /\ f.of \in Callbacks
    BY <2>3
    DEF Known, RequestFrame, ConstructorPoints, DestructorPoints, ChainPoints, ChildPoints, StartPoints
  <2>4. CASE RequestFrame(f, Inner)
    <3>1. \/ f.at \in {"request_stop", "notify"} /\ f.of = Inner
          \/ f.at \in {"run", "ran", "relock"} /\ f.of \in Children
      BY <2>4, Registered DEF RequestFrame
    <3>2. ~RequestFrame(f, Outer)
      BY <3>1, Constants, Registered DEF RequestFrame
    <3> QED
      BY <3>1, <3>2, Constants
      DEF Known, ConstructorPoints, DestructorPoints, ChainPoints, ChildPoints, StartPoints
  <2>5. CASE ChildFrame(f)
    BY <2>5
    DEF Known, RequestFrame, ChildFrame, ConstructorPoints, DestructorPoints, ChainPoints, ChildPoints,
        StartPoints
  <2> QED
    BY <2>2, <2>3, <2>4, <2>5, Constants DEF CalledFrom
<1> QED
  BY <1>2, <1>3

\* So it does for the innermost frame.
LEMMA TopKnown ==
    ASSUME Stacks, Nested, NEW t \in Threads, stack[t] # <<>>
    PROVE  Known(t, Len(stack[t]), Top(t)) /\ Fits(t, Top(t))
<1>1. Len(stack[t]) \in DOMAIN stack[t]
  BY StackShape DEF Stacks
<1>2. Known(t, Len(stack[t]), Top(t))
  BY <1>1, FrameKinds DEF Top
<1>3. Fits(t, Top(t))
  BY <1>1 DEF Nested, NestedFrames, Fits, Top
<1> QED
  BY <1>2, <1>3

\* The nesting after a step, from the new frames.
LEMMA NestedMoved ==
    ASSUME Stacks, NestedFrames, NEW t \in Threads, NEW n \in Nat, NEW w \in Seq(Frames),
           Moved(t, n, w), Len(w) <= 2,
           Len(w) >= 1 => IF n = 0 THEN Outermost(t, w[1]) ELSE CalledFrom(w[1], stack[t][n]),
           Len(w) = 2 => CalledFrom(w[2], w[1])
    PROVE  NestedFrames'
<1> SUFFICES ASSUME NEW u \in Threads, NEW i \in DOMAIN stack'[u]
             PROVE  IF i = 1 THEN Outermost(u, stack'[u][i])
                    ELSE CalledFrom(stack'[u][i], stack'[u][i - 1])
  BY DEF NestedFrames
<1>3. CASE u # t
  BY <1>3 DEF Moved, NestedFrames
<1>4. CASE u = t /\ i \in 1 .. n
  <2>1. i \in DOMAIN stack[t] /\ stack'[t][i] = stack[t][i] /\ (i # 1 => stack'[t][i - 1] = stack[t][i - 1])
    BY <1>4, StackShape DEF Moved, Stacks
  <2> QED
    BY <1>4, <2>1 DEF NestedFrames
<1>5. CASE u = t /\ i \notin 1 .. n
  <2>1. Len(w) \in Nat /\ i \in 1 .. (n + Len(w)) /\ i \notin 1 .. n
    BY <1>5 DEF Moved
  <2>2. i = n + 1 \/ i = n + 2
    BY <2>1
  <2>3. CASE i = n + 1
    <3>1. Len(w) >= 1 /\ 1 \in 1 .. Len(w)
      BY <2>1, <2>3
    <3>2. stack'[t][i] = w[1] /\ (n # 0 => stack'[t][i - 1] = stack[t][n])
      BY <3>1, <2>3 DEF Moved
    <3> QED
      BY <3>1, <3>2, <1>5, <2>3
  <2>4. CASE i = n + 2
    <3>1. Len(w) = 2 /\ 1 \in 1 .. Len(w) /\ 2 \in 1 .. Len(w)
      <4>1. Len(w) >= 2
        BY <2>1, <2>4
      <4>2. \A m \in Nat : m >= 2 /\ m <= 2 => m = 2
        OBVIOUS
      <4>3. Len(w) = 2
        BY <4>1, <4>2, <2>1
      <4> QED
        BY <4>3
    <3>2. stack'[t][i] = w[2] /\ stack'[t][i - 1] = w[1] /\ i # 1
      BY <3>1, <2>4 DEF Moved
    <3> QED
      BY <3>1, <3>2, <1>5
  <2> QED
    BY <2>2, <2>3, <2>4
<1> QED
  BY <1>3, <1>4, <1>5

\* A return keeps the nesting.
LEMMA ReturnNested ==
    ASSUME Stacks, NestedFrames, NEW t \in Threads, stack[t] # <<>>, Return(t)
    PROVE  NestedFrames'
<1>1. <<>> \in Seq(Frames) /\ Len(<<>>) = 0
  OBVIOUS
<1>2. Steps(t, <<>>)
  BY <1>1, RewriteSteps DEF Return, Stacks
<1>3. PICK n \in Nat : n = Len(stack[t]) - 1 /\ Len(stack[t]) = n + 1
  BY StackShape DEF Stacks
<1>4. PICK w \in Seq(Frames) : Len(w) = 0 /\ Moved(t, n, w)
  BY <1>1, <1>2, <1>3 DEF Steps
<1>5. Len(w) <= 2 /\ ~(Len(w) >= 1) /\ Len(w) # 2
  BY <1>4
<1> QED
  BY <1>4, <1>5, NestedMoved

\* So does another frame that fits.
LEMMA BecomeNested ==
    ASSUME Stacks, NestedFrames, NEW t \in Threads, stack[t] # <<>>,
           NEW f \in Frames, Become(t, f), Fits(t, f)
    PROVE  NestedFrames'
<1>1. <<f>> \in Seq(Frames) /\ Len(<<f>>) = 1 /\ <<f>>[1] = f
  OBVIOUS
<1>2. Steps(t, <<f>>)
  BY <1>1, RewriteSteps DEF Become, Stacks
<1>3. PICK n \in Nat : n = Len(stack[t]) - 1 /\ Len(stack[t]) = n + 1
  BY StackShape DEF Stacks
<1>4. PICK w \in Seq(Frames) : Len(w) = 1 /\ w[1] = f /\ Moved(t, n, w)
  BY <1>1, <1>2, <1>3 DEF Steps
<1>5. IF n = 0 THEN Outermost(t, f) ELSE CalledFrom(f, stack[t][n])
  BY <1>3, StackShape DEF Fits, Stacks
<1> QED
  BY <1>4, <1>5, NestedMoved

\* And a call.
LEMMA CallNested ==
    ASSUME Stacks, NestedFrames, NEW t \in Threads, stack[t] # <<>>,
           NEW f \in Frames, NEW p \in Points, Call(t, f, p),
           Fits(t, Frame(p, Top(t).of)), CalledFrom(f, Frame(p, Top(t).of))
    PROVE  NestedFrames'
<1> DEFINE g == Frame(p, Top(t).of)
<1>0. Of(t) = Top(t).of /\ g \in Frames
  <2>1. Top(t) \in Frames /\ Last(stack[t]) = Top(t)
    BY StackShape DEF Stacks
  <2>2. Top(t).of \in Sources \union Callbacks
    BY <2>1 DEF Frames
  <2> QED
    BY <2>1, <2>2 DEF Of, Frames, Frame
<1>1. <<g, f>> \in Seq(Frames) /\ Len(<<g, f>>) = 2 /\ <<g, f>>[1] = g /\ <<g, f>>[2] = f
  BY <1>0
<1>2. Steps(t, <<g, f>>)
  BY <1>0, <1>1, RewriteSteps DEF Call, Stacks
<1> HIDE DEF g
<1>3. PICK n \in Nat : n = Len(stack[t]) - 1 /\ Len(stack[t]) = n + 1
  <2>1. Len(stack[t]) \in Nat /\ Len(stack[t]) # 0
    BY StackShape DEF Stacks
  <2> QED
    BY <2>1
<1>4. PICK w \in Seq(Frames) : Len(w) = 2 /\ w[1] = g /\ w[2] = f /\ Moved(t, n, w)
  BY <1>1, <1>2, <1>3 DEF Steps
<1>5. IF n = 0 THEN Outermost(t, g) ELSE CalledFrom(g, stack[t][n])
  BY <1>3, StackShape DEF Fits, Stacks, g
<1>6. CalledFrom(f, g)
  BY DEF g
<1>7. Len(w) <= 2
  BY <1>4
<1>8. Len(w) >= 1 => IF n = 0 THEN Outermost(t, w[1]) ELSE CalledFrom(w[1], stack[t][n])
  BY <1>4, <1>5
<1>9. Len(w) = 2 => CalledFrom(w[2], w[1])
  BY <1>4, <1>6
<1> QED
  BY <1>4, <1>7, <1>8, <1>9, NestedMoved

\* And the first frame of a thread.
LEMMA PushNested ==
    ASSUME Stacks, NestedFrames, NEW t \in Threads, stack[t] = <<>>,
           NEW f \in Frames, stack' = [stack EXCEPT ![t] = <<f>>], Outermost(t, f)
    PROVE  NestedFrames'
<1>1. <<f>> \in Seq(Frames) /\ Len(<<f>>) = 1 /\ <<f>>[1] = f
  OBVIOUS
<1>2. PICK n \in Nat : n = 0 /\ Moved(t, n, <<f>>)
  BY PushMoved DEF Stacks
<1>4. PICK w \in Seq(Frames) : Len(w) = 1 /\ w[1] = f /\ Moved(t, n, w)
  BY <1>1, <1>2
<1>5. Len(w) <= 2 /\ Len(w) # 2
  BY <1>4
<1>6. Len(w) >= 1 => IF n = 0 THEN Outermost(t, w[1]) ELSE CalledFrom(w[1], stack[t][n])
  BY <1>2, <1>4
<1> QED
  BY <1>4, <1>5, <1>6, NestedMoved
-----------------------------------------------------------------------------
(* The steps, one by one: the branches of the actions, with what they do to *)
(* the frames, to the fields of the source s they work on and to callback c.*)

OtherSources(s) == \A x \in Sources : x # s => src'[x] = src[x]
OtherCallbacks(c) == \A x \in Callbacks : x # c => cb'[x] = cb[x]
Top1(t, p, x) == stack[t] # <<>> /\ Top(t) = Frame(p, x)
SameOperation ==
    /\ stoppable' = stoppable /\ kind' = kind /\ asked' = asked
    /\ owner' = owner /\ cancelled' = cancelled /\ count' = count /\ state' = state
    /\ errors' = errors /\ values' = values /\ sent' = sent /\ result' = result

RequestLate(t, s) ==
    /\ Top1(t, "request_stop", s) /\ src[s].requested /\ Changes(t, {})
    /\ src' = src /\ cb' = cb
RequestFirst(t, s) ==
    /\ Top1(t, "request_stop", s) /\ ~src[s].requested /\ ~src[s].locked
    /\ Changes(t, {Frame("notify", s)})
    /\ src'[s].requested /\ src'[s].locked /\ src'[s].notifying = t
    /\ src'[s].callbacks = src[s].callbacks /\ src'[s].removed = src[s].removed
    /\ OtherSources(s) /\ cb' = cb
NotifyEnd(t, s) ==
    /\ Top1(t, "notify", s) /\ src[s].callbacks = <<>> /\ Changes(t, {})
    /\ src'[s].requested = src[s].requested /\ src'[s].locked = FALSE
    /\ src'[s].notifying = src[s].notifying /\ src'[s].removed = src[s].removed
    /\ src'[s].callbacks = src[s].callbacks
    /\ OtherSources(s) /\ cb' = cb
NotifyOne(t, s, c) ==
    /\ Top1(t, "notify", s) /\ src[s].callbacks # <<>> /\ c = Head(src[s].callbacks)
    /\ Changes(t, {Frame("run", c)})
    /\ src'[s].requested = src[s].requested /\ src'[s].locked = FALSE
    /\ src'[s].notifying = src[s].notifying /\ src'[s].removed = src[s].removed
    /\ src'[s].callbacks = Tail(src[s].callbacks)
    /\ OtherSources(s) /\ OtherCallbacks(c)
    /\ cb'[c] = [cb[c] EXCEPT !.linked = FALSE]
RunOne(t, s, c) ==
    /\ Top1(t, "run", c) /\ Changes(t, {Frame("ran", c), Frame("callback", c)})
    /\ src'[s].requested = src[s].requested /\ src'[s].locked = src[s].locked
    /\ src'[s].notifying = src[s].notifying /\ src'[s].removed = FALSE
    /\ src'[s].callbacks = src[s].callbacks
    /\ OtherSources(s) /\ OtherCallbacks(c)
    /\ cb'[c] = [cb[c] EXCEPT !.flagged = TRUE]
RanRemoved(t, s, c) ==
    /\ Top1(t, "ran", c) /\ src[s].removed /\ Changes(t, {Frame("relock", c)})
    /\ src' = src /\ cb' = cb
RanAlive(t, s, c) ==
    /\ Top1(t, "ran", c) /\ ~src[s].removed /\ Changes(t, {Frame("relock", c)})
    /\ src' = src /\ OtherCallbacks(c)
    /\ cb'[c] = [cb[c] EXCEPT !.flagged = FALSE, !.completed = TRUE]
LockedAgain(t, s, c) ==
    /\ Top1(t, "relock", c) /\ ~src[s].locked /\ Changes(t, {Frame("notify", s)})
    /\ src'[s].requested = src[s].requested /\ src'[s].locked = TRUE
    /\ src'[s].notifying = src[s].notifying /\ src'[s].removed = src[s].removed
    /\ src'[s].callbacks = src[s].callbacks
    /\ OtherSources(s) /\ cb' = cb
AddLate(t, s, c) ==
    /\ Top1(t, "add", c) /\ src[s].requested /\ Changes(t, {Frame("callback", c)})
    /\ src' = src /\ OtherCallbacks(c)
    /\ cb'[c] = [cb[c] EXCEPT !.attached = FALSE]
AddLocks(t, s, c) ==
    /\ Top1(t, "add", c) /\ ~src[s].requested /\ ~src[s].locked
    /\ Changes(t, {Frame("link", c)})
    /\ src'[s].requested = src[s].requested /\ src'[s].locked = TRUE
    /\ src'[s].notifying = src[s].notifying /\ src'[s].removed = src[s].removed
    /\ src'[s].callbacks = src[s].callbacks
    /\ OtherSources(s) /\ cb' = cb
Links(t, s, c) ==
    /\ Top1(t, "link", c) /\ Changes(t, {})
    /\ src'[s].requested = src[s].requested /\ src'[s].locked = FALSE
    /\ src'[s].notifying = src[s].notifying /\ src'[s].removed = src[s].removed
    /\ src'[s].callbacks = <<c>> \o src[s].callbacks
    /\ OtherSources(s) /\ OtherCallbacks(c)
    /\ cb'[c] = [cb[c] EXCEPT !.linked = TRUE]
RemoveDetached(t, s, c) ==
    /\ Top1(t, "remove", c) /\ ~cb[c].attached /\ Changes(t, {})
    /\ src' = src /\ OtherCallbacks(c) /\ cb'[c] = [cb[c] EXCEPT !.life = "dead"]
RemoveLocks(t, s, c) ==
    /\ Top1(t, "remove", c) /\ cb[c].attached /\ ~src[s].locked
    /\ Changes(t, {Frame("unlink", c)})
    /\ src'[s].requested = src[s].requested /\ src'[s].locked = TRUE
    /\ src'[s].notifying = src[s].notifying /\ src'[s].removed = src[s].removed
    /\ src'[s].callbacks = src[s].callbacks
    /\ OtherSources(s) /\ cb' = cb
UnlinkListed(t, s, c) ==
    /\ Top1(t, "unlink", c) /\ cb[c].linked /\ Changes(t, {})
    /\ src'[s].requested = src[s].requested /\ src'[s].locked = FALSE
    /\ src'[s].notifying = src[s].notifying /\ src'[s].removed = src[s].removed
    /\ src'[s].callbacks = Unlinked(src[s].callbacks, c)
    /\ OtherSources(s) /\ OtherCallbacks(c) /\ cb'[c] = [cb[c] EXCEPT !.life = "dead"]
UnlinkOwn(t, s, c) ==
    /\ Top1(t, "unlink", c) /\ ~cb[c].linked /\ src[s].notifying = t /\ Changes(t, {})
    /\ src'[s].requested = src[s].requested /\ src'[s].locked = FALSE
    /\ src'[s].notifying = src[s].notifying
    /\ src'[s].removed = (src[s].removed \/ cb[c].flagged)
    /\ src'[s].callbacks = src[s].callbacks
    /\ OtherSources(s) /\ OtherCallbacks(c) /\ cb'[c] = [cb[c] EXCEPT !.life = "dead"]
UnlinkWaits(t, s, c) ==
    /\ Top1(t, "unlink", c) /\ ~cb[c].linked /\ src[s].notifying # t
    /\ Changes(t, {Frame("await", c)})
    /\ src'[s].requested = src[s].requested /\ src'[s].locked = FALSE
    /\ src'[s].notifying = src[s].notifying /\ src'[s].removed = src[s].removed
    /\ src'[s].callbacks = src[s].callbacks
    /\ OtherSources(s) /\ cb' = cb
AwaitEnds(t, s, c) ==
    /\ Top1(t, "await", c) /\ cb[c].completed /\ Changes(t, {})
    /\ src' = src /\ OtherCallbacks(c) /\ cb'[c] = [cb[c] EXCEPT !.life = "dead"]

\* A step of the stop sources.
StopEvent(t) ==
    \/ \E s \in Sources : RequestLate(t, s) \/ RequestFirst(t, s) \/ NotifyEnd(t, s)
    \/ \E s \in Sources : \E c \in CallbacksOf(s) :
         \/ NotifyOne(t, s, c) \/ RunOne(t, s, c) \/ RanRemoved(t, s, c) \/ RanAlive(t, s, c)
         \/ LockedAgain(t, s, c) \/ AddLate(t, s, c) \/ AddLocks(t, s, c) \/ Links(t, s, c)
         \/ RemoveDetached(t, s, c) \/ RemoveLocks(t, s, c) \/ UnlinkListed(t, s, c)
         \/ UnlinkOwn(t, s, c) \/ UnlinkWaits(t, s, c) \/ AwaitEnds(t, s, c)
\* Frames of the right points.
LEMMA MakeFrame ==
    ASSUME NEW p \in Points, NEW x \in Sources \union Callbacks
    PROVE  Frame(p, x) \in Frames /\ Frame(p, x).at = p /\ Frame(p, x).of = x
  BY DEF Frame, Frames

\* The points of the stop sources.
LEMMA StopPoints ==
    /\ "request_stop" \in Points /\ "notify" \in Points /\ "run" \in Points /\ "ran" \in Points
    /\ "relock" \in Points /\ "callback" \in Points /\ "add" \in Points /\ "link" \in Points
    /\ "remove" \in Points /\ "unlink" \in Points /\ "await" \in Points
  BY DEF Points, ConstructorPoints, DestructorPoints

\* The points of the operation.
LEMMA ClientPoints ==
    /\ "start" \in Points /\ "check" \in Points /\ "abandon" \in Points
    /\ "start_child" \in Points /\ "hand_off" \in Points /\ "started" \in Points
    /\ "finish_child" \in Points /\ "complete_child" \in Points /\ "set_value" \in Points
    /\ "set_error" \in Points /\ "set_stopped" \in Points /\ "emplace" \in Points
    /\ "arrive" \in Points /\ "deliver" \in Points
  BY DEF Points, StartPoints, ChildPoints

\* Carrying on at another point.
LEMMA GotoChanges ==
    ASSUME Stacks, NEW t \in Threads, NEW p, At(t, p), NEW q \in Points, Goto(t, q)
    PROVE  Changes(t, {Frame(q, Top(t).of)})
<1>1. stack[t] # <<>> /\ Of(t) = Top(t).of /\ Top(t).of \in Sources \union Callbacks
  BY TopFrame
<1>2. Frame(q, Top(t).of) \in Frames
  BY <1>1, MakeFrame
<1>3. Become(t, Frame(q, Top(t).of))
  BY <1>1 DEF Goto
<1> QED
  BY <1>1, <1>2, <1>3, BecomeChanges

\* The frame of a request of a stop is about a source.
LEMMA RequestTop ==
    ASSUME TypeOK, Nested, NEW t \in Threads, NEW p \in {"request_stop", "notify"}, At(t, p)
    PROVE  Of(t) \in Sources /\ Top1(t, p, Of(t)) /\ Of(t) = Top(t).of
<1>1. Stacks /\ stack[t] # <<>> /\ Of(t) = Top(t).of /\ Top(t).at = p /\ Top(t) = Frame(p, Top(t).of)
  BY TopFrame DEF TypeOK, Stacks
<1>2. Top(t).of \in Sources
  BY <1>1, TopKnown DEF Known
<1> QED
  BY <1>1, <1>2 DEF Top1

\* That of a callback's construction, run or destruction is about a callback.
LEMMA CallbackTop ==
    ASSUME TypeOK, Nested, NEW t \in Threads,
           NEW p \in {"add", "link", "remove", "unlink", "await", "run", "ran", "relock", "callback"},
           At(t, p)
    PROVE  /\ Of(t) \in Callbacks /\ Top1(t, p, Of(t)) /\ Of(t) = Top(t).of
           /\ SourceOf[Of(t)] \in Sources /\ Of(t) \in CallbacksOf(SourceOf[Of(t)])
<1>1. Stacks /\ stack[t] # <<>> /\ Of(t) = Top(t).of /\ Top(t).at = p /\ Top(t) = Frame(p, Top(t).of)
  BY TopFrame DEF TypeOK, Stacks
<1>2. Top(t).of \in Callbacks
  BY <1>1, TopKnown DEF Known, ConstructorPoints, DestructorPoints
<1>3. SourceOf[Top(t).of] \in Sources /\ Top(t).of \in CallbacksOf(SourceOf[Top(t).of])
  BY <1>2, Constants DEF CallbacksOf
<1> QED
  BY <1>1, <1>2, <1>3 DEF Top1

\* request_stop.
LEMMA RequestStopEvents ==
    ASSUME TypeOK, Nested, NEW t \in Threads, RequestStop(t)
    PROVE  StopEvent(t)
<1> DEFINE s == Of(t)
<1>1. At(t, "request_stop") /\ cb' = cb
  BY DEF RequestStop
<1>2. Stacks /\ stack[t] # <<>> /\ s \in Sources /\ Top1(t, "request_stop", s) /\ s = Top(t).of
  BY <1>1, RequestTop, TopFrame DEF TypeOK, Stacks
<1> HIDE DEF s
<1>3. CASE src[s].requested /\ Return(t) /\ src' = src
  <2>1. Changes(t, {})
    BY <1>2, <1>3, ReturnChanges
  <2> QED
    BY <1>1, <1>2, <1>3, <2>1 DEF StopEvent, RequestLate
<1>4. CASE /\ ~src[s].requested /\ ~src[s].locked
           /\ src' = [src EXCEPT ![s].requested = TRUE, ![s].locked = TRUE, ![s].notifying = t]
           /\ Goto(t, "notify")
  <2>1. Changes(t, {Frame("notify", s)})
    BY <1>1, <1>2, <1>4, GotoChanges, StopPoints
  <2>2. /\ src'[s].requested /\ src'[s].locked /\ src'[s].notifying = t
        /\ src'[s].callbacks = src[s].callbacks /\ src'[s].removed = src[s].removed
        /\ OtherSources(s)
    BY <1>2, <1>4 DEF TypeOK, OtherSources
  <2>3. RequestFirst(t, s)
    BY <1>1, <1>2, <1>4, <2>1, <2>2 DEF RequestFirst
  <2> QED
    BY <1>2, <2>3 DEF StopEvent
<1> QED
  BY <1>3, <1>4 DEF RequestStop, s

\* The head of its loop.
LEMMA NotifyNextEvents ==
    ASSUME TypeOK, Nested, NEW t \in Threads, NotifyNext(t)
    PROVE  StopEvent(t)
<1> DEFINE s == Of(t)
<1>1. At(t, "notify")
  BY DEF NotifyNext
<1>2. Stacks /\ stack[t] # <<>> /\ s \in Sources /\ Top1(t, "notify", s) /\ s = Top(t).of
  BY <1>1, RequestTop, TopFrame DEF TypeOK, Stacks
<1>3. src[s].callbacks \in Seq(CallbacksOf(s))
  BY <1>2 DEF TypeOK
<1> HIDE DEF s
<1>4. CASE /\ src[s].callbacks = <<>> /\ src' = [src EXCEPT ![s].locked = FALSE]
           /\ Return(t) /\ cb' = cb
  <2>1. Changes(t, {})
    BY <1>2, <1>4, ReturnChanges
  <2>2. /\ src'[s].requested = src[s].requested /\ src'[s].locked = FALSE
        /\ src'[s].notifying = src[s].notifying /\ src'[s].removed = src[s].removed
        /\ src'[s].callbacks = src[s].callbacks /\ OtherSources(s)
    BY <1>2, <1>4 DEF TypeOK, OtherSources
  <2>3. NotifyEnd(t, s)
    BY <1>2, <1>4, <2>1, <2>2 DEF NotifyEnd
  <2> QED
    BY <1>2, <2>3 DEF StopEvent
<1>5. CASE /\ src[s].callbacks # <<>>
           /\ src' = [src EXCEPT ![s].callbacks = Tail(@), ![s].locked = FALSE]
           /\ cb' = [cb EXCEPT ![Head(src[s].callbacks)].linked = FALSE]
           /\ Become(t, Frame("run", Head(src[s].callbacks)))
  <2>1. PICK c \in CallbacksOf(s) : c = Head(src[s].callbacks)
    BY <1>3, <1>5
  <2>2. c \in Callbacks
    BY <1>2, Registered
  <2>3. Frame("run", c) \in Frames
    BY <2>2, MakeFrame, StopPoints
  <2>4. Changes(t, {Frame("run", c)})
    BY <1>2, <1>5, <2>1, <2>3, BecomeChanges
  <2>5. /\ src'[s].requested = src[s].requested /\ src'[s].locked = FALSE
        /\ src'[s].notifying = src[s].notifying /\ src'[s].removed = src[s].removed
        /\ src'[s].callbacks = Tail(src[s].callbacks) /\ OtherSources(s)
    BY <1>2, <1>5 DEF TypeOK, OtherSources
  <2>6. OtherCallbacks(c) /\ cb'[c] = [cb[c] EXCEPT !.linked = FALSE]
    BY <1>5, <2>1, <2>2 DEF TypeOK, OtherCallbacks
  <2>7. NotifyOne(t, s, c)
    BY <1>2, <1>5, <2>1, <2>4, <2>5, <2>6 DEF NotifyOne
  <2> QED
    BY <1>2, <2>1, <2>7 DEF StopEvent
<1> QED
  BY <1>4, <1>5 DEF NotifyNext, s
\* Running a callback.
LEMMA RunCallbackEvents ==
    ASSUME TypeOK, Nested, NEW t \in Threads, RunCallback(t)
    PROVE  StopEvent(t)
<1> DEFINE c == Of(t)
           s == SourceOf[c]
<1>1. At(t, "run")
  BY DEF RunCallback
<1>2. /\ Stacks /\ stack[t] # <<>> /\ c \in Callbacks /\ Top1(t, "run", c) /\ c = Top(t).of
      /\ s \in Sources /\ c \in CallbacksOf(s)
  BY <1>1, CallbackTop, TopFrame DEF TypeOK, Stacks
<1>0. s = SourceOf[c]
  OBVIOUS
<1> HIDE DEF c, s
<1>3. CASE /\ src' = [src EXCEPT ![s].removed = FALSE]
           /\ cb' = [cb EXCEPT ![c].flagged = TRUE]
           /\ Call(t, Frame("callback", c), "ran")
  <2>0. Frame("callback", c) \in Frames /\ Frame("callback", c).at = "callback"
    BY <1>2, MakeFrame, StopPoints
  <2>1. Changes(t, {Frame("ran", c), Frame("callback", c)})
    BY <1>2, <1>3, <2>0, CallChanges, StopPoints
  <2>2. /\ src'[s].requested = src[s].requested /\ src'[s].locked = src[s].locked
        /\ src'[s].notifying = src[s].notifying /\ src'[s].removed = FALSE
        /\ src'[s].callbacks = src[s].callbacks /\ OtherSources(s)
    BY <1>2, <1>3 DEF TypeOK, OtherSources
  <2>3. OtherCallbacks(c) /\ cb'[c] = [cb[c] EXCEPT !.flagged = TRUE]
    BY <1>2, <1>3 DEF TypeOK, OtherCallbacks
  <2>4. RunOne(t, s, c)
    BY <1>2, <1>3, <2>1, <2>2, <2>3 DEF RunOne
  <2> QED
    BY <1>2, <2>4 DEF StopEvent
<1> QED
  BY <1>0, <1>3 DEF RunCallback, c, s

\* After it.
LEMMA CallbackRanEvents ==
    ASSUME TypeOK, Nested, NEW t \in Threads, CallbackRan(t)
    PROVE  StopEvent(t)
<1> DEFINE c == Of(t)
           s == SourceOf[c]
<1>1. At(t, "ran")
  BY DEF CallbackRan
<1>2. /\ Stacks /\ stack[t] # <<>> /\ c \in Callbacks /\ Top1(t, "ran", c) /\ c = Top(t).of
      /\ s \in Sources /\ c \in CallbacksOf(s)
  BY <1>1, CallbackTop, TopFrame DEF TypeOK, Stacks
<1>0. s = SourceOf[c]
  OBVIOUS
<1> HIDE DEF c, s
<1>3. CASE /\ src[s].removed
           /\ cb' = cb
           /\ src' = src
           /\ Goto(t, "relock")
  <2>1. Changes(t, {Frame("relock", c)})
    BY <1>1, <1>2, <1>3, GotoChanges, StopPoints
  <2>4. RanRemoved(t, s, c)
    BY <1>2, <1>3, <2>1 DEF RanRemoved
  <2> QED
    BY <1>2, <2>4 DEF StopEvent
<1>4. CASE /\ ~src[s].removed
           /\ cb' = [cb EXCEPT ![c].flagged = FALSE, ![c].completed = TRUE]
           /\ src' = src
           /\ Goto(t, "relock")
  <2>1. Changes(t, {Frame("relock", c)})
    BY <1>1, <1>2, <1>4, GotoChanges, StopPoints
  <2>3. OtherCallbacks(c) /\ cb'[c] = [cb[c] EXCEPT !.flagged = FALSE, !.completed = TRUE]
    BY <1>2, <1>4 DEF TypeOK, OtherCallbacks
  <2>4. RanAlive(t, s, c)
    BY <1>2, <1>4, <2>1, <2>3 DEF RanAlive
  <2> QED
    BY <1>2, <2>4 DEF StopEvent
<1> QED
  BY <1>0, <1>3, <1>4 DEF CallbackRan, c

\* The end of the loop's body.
LEMMA RelockEvents ==
    ASSUME TypeOK, Nested, NEW t \in Threads, Relock(t)
    PROVE  StopEvent(t)
<1> DEFINE c == Of(t)
           s == SourceOf[c]
<1>1. At(t, "relock")
  BY DEF Relock
<1>2. /\ Stacks /\ stack[t] # <<>> /\ c \in Callbacks /\ Top1(t, "relock", c) /\ c = Top(t).of
      /\ s \in Sources /\ c \in CallbacksOf(s)
  BY <1>1, CallbackTop, TopFrame DEF TypeOK, Stacks
<1>0. s = SourceOf[c]
  OBVIOUS
<1> HIDE DEF c, s
<1>3. CASE /\ ~src[s].locked
           /\ src' = [src EXCEPT ![s].locked = TRUE]
           /\ cb' = cb
           /\ Become(t, Frame("notify", s))
  <2>0. Frame("notify", s) \in Frames
    BY <1>2, MakeFrame, StopPoints
  <2>1. Changes(t, {Frame("notify", s)})
    BY <1>2, <1>3, <2>0, BecomeChanges
  <2>2. /\ src'[s].requested = src[s].requested /\ src'[s].locked = TRUE
        /\ src'[s].notifying = src[s].notifying /\ src'[s].removed = src[s].removed
        /\ src'[s].callbacks = src[s].callbacks /\ OtherSources(s)
    BY <1>2, <1>3 DEF TypeOK, OtherSources
  <2>4. LockedAgain(t, s, c)
    BY <1>2, <1>3, <2>1, <2>2 DEF LockedAgain
  <2> QED
    BY <1>2, <2>4 DEF StopEvent
<1> QED
  BY <1>0, <1>3 DEF Relock, c, s

\* The constructor.
LEMMA TryAddCallbackEvents ==
    ASSUME TypeOK, Nested, NEW t \in Threads, TryAddCallback(t)
    PROVE  StopEvent(t)
<1> DEFINE c == Of(t)
           s == SourceOf[c]
<1>1. At(t, "add")
  BY DEF TryAddCallback
<1>2. /\ Stacks /\ stack[t] # <<>> /\ c \in Callbacks /\ Top1(t, "add", c) /\ c = Top(t).of
      /\ s \in Sources /\ c \in CallbacksOf(s)
  BY <1>1, CallbackTop, TopFrame DEF TypeOK, Stacks
<1>0. s = SourceOf[c]
  OBVIOUS
<1> HIDE DEF c, s
<1>3. CASE /\ src[s].requested
           /\ cb' = [cb EXCEPT ![c].attached = FALSE]
           /\ src' = src
           /\ Become(t, Frame("callback", c))
  <2>0. Frame("callback", c) \in Frames
    BY <1>2, MakeFrame, StopPoints
  <2>1. Changes(t, {Frame("callback", c)})
    BY <1>2, <1>3, <2>0, BecomeChanges
  <2>3. OtherCallbacks(c) /\ cb'[c] = [cb[c] EXCEPT !.attached = FALSE]
    BY <1>2, <1>3 DEF TypeOK, OtherCallbacks
  <2>4. AddLate(t, s, c)
    BY <1>2, <1>3, <2>1, <2>3 DEF AddLate
  <2> QED
    BY <1>2, <2>4 DEF StopEvent
<1>4. CASE /\ ~src[s].requested /\ ~src[s].locked
           /\ src' = [src EXCEPT ![s].locked = TRUE]
           /\ cb' = cb
           /\ Goto(t, "link")
  <2>1. Changes(t, {Frame("link", c)})
    BY <1>1, <1>2, <1>4, GotoChanges, StopPoints
  <2>2. /\ src'[s].requested = src[s].requested /\ src'[s].locked = TRUE
        /\ src'[s].notifying = src[s].notifying /\ src'[s].removed = src[s].removed
        /\ src'[s].callbacks = src[s].callbacks /\ OtherSources(s)
    BY <1>2, <1>4 DEF TypeOK, OtherSources
  <2>4. AddLocks(t, s, c)
    BY <1>2, <1>4, <2>1, <2>2 DEF AddLocks
  <2> QED
    BY <1>2, <2>4 DEF StopEvent
<1> QED
  BY <1>0, <1>3, <1>4 DEF TryAddCallback, c, s

\* Linking the callback.
LEMMA LinkCallbackEvents ==
    ASSUME TypeOK, Nested, NEW t \in Threads, LinkCallback(t)
    PROVE  StopEvent(t)
<1> DEFINE c == Of(t)
           s == SourceOf[c]
<1>1. At(t, "link")
  BY DEF LinkCallback
<1>2. /\ Stacks /\ stack[t] # <<>> /\ c \in Callbacks /\ Top1(t, "link", c) /\ c = Top(t).of
      /\ s \in Sources /\ c \in CallbacksOf(s)
  BY <1>1, CallbackTop, TopFrame DEF TypeOK, Stacks
<1>0. s = SourceOf[c]
  OBVIOUS
<1> HIDE DEF c, s
<1>3. CASE /\ src' = [src EXCEPT ![s].callbacks = <<c>> \o @, ![s].locked = FALSE]
           /\ cb' = [cb EXCEPT ![c].linked = TRUE]
           /\ Return(t)
  <2>1. Changes(t, {})
    BY <1>2, <1>3, ReturnChanges
  <2>2. /\ src'[s].requested = src[s].requested /\ src'[s].locked = FALSE
        /\ src'[s].notifying = src[s].notifying /\ src'[s].removed = src[s].removed
        /\ src'[s].callbacks = <<c>> \o src[s].callbacks /\ OtherSources(s)
    BY <1>2, <1>3 DEF TypeOK, OtherSources
  <2>3. OtherCallbacks(c) /\ cb'[c] = [cb[c] EXCEPT !.linked = TRUE]
    BY <1>2, <1>3 DEF TypeOK, OtherCallbacks
  <2>4. Links(t, s, c)
    BY <1>2, <1>3, <2>1, <2>2, <2>3 DEF Links
  <2> QED
    BY <1>2, <2>4 DEF StopEvent
<1> QED
  BY <1>0, <1>3 DEF LinkCallback, c, s

\* The destructor.
LEMMA RemoveCallbackEvents ==
    ASSUME TypeOK, Nested, NEW t \in Threads, RemoveCallback(t)
    PROVE  StopEvent(t)
<1> DEFINE c == Of(t)
           s == SourceOf[c]
<1>1. At(t, "remove")
  BY DEF RemoveCallback
<1>2. /\ Stacks /\ stack[t] # <<>> /\ c \in Callbacks /\ Top1(t, "remove", c) /\ c = Top(t).of
      /\ s \in Sources /\ c \in CallbacksOf(s)
  BY <1>1, CallbackTop, TopFrame DEF TypeOK, Stacks
<1>0. s = SourceOf[c]
  OBVIOUS
<1> HIDE DEF c, s
<1>3. CASE /\ ~cb[c].attached
           /\ cb' = [cb EXCEPT ![c].life = "dead"]
           /\ src' = src
           /\ Return(t)
  <2>1. Changes(t, {})
    BY <1>2, <1>3, ReturnChanges
  <2>3. OtherCallbacks(c) /\ cb'[c] = [cb[c] EXCEPT !.life = "dead"]
    BY <1>2, <1>3 DEF TypeOK, OtherCallbacks
  <2>4. RemoveDetached(t, s, c)
    BY <1>2, <1>3, <2>1, <2>3 DEF RemoveDetached
  <2> QED
    BY <1>2, <2>4 DEF StopEvent
<1>4. CASE /\ cb[c].attached /\ ~src[s].locked
           /\ src' = [src EXCEPT ![s].locked = TRUE]
           /\ cb' = cb
           /\ Goto(t, "unlink")
  <2>1. Changes(t, {Frame("unlink", c)})
    BY <1>1, <1>2, <1>4, GotoChanges, StopPoints
  <2>2. /\ src'[s].requested = src[s].requested /\ src'[s].locked = TRUE
        /\ src'[s].notifying = src[s].notifying /\ src'[s].removed = src[s].removed
        /\ src'[s].callbacks = src[s].callbacks /\ OtherSources(s)
    BY <1>2, <1>4 DEF TypeOK, OtherSources
  <2>4. RemoveLocks(t, s, c)
    BY <1>2, <1>4, <2>1, <2>2 DEF RemoveLocks
  <2> QED
    BY <1>2, <2>4 DEF StopEvent
<1> QED
  BY <1>0, <1>3, <1>4 DEF RemoveCallback, c, s

\* Its three branches under the lock.
LEMMA UnlinkCallbackEvents ==
    ASSUME TypeOK, Nested, NEW t \in Threads, UnlinkCallback(t)
    PROVE  StopEvent(t)
<1> DEFINE c == Of(t)
           s == SourceOf[c]
<1>1. At(t, "unlink")
  BY DEF UnlinkCallback
<1>2. /\ Stacks /\ stack[t] # <<>> /\ c \in Callbacks /\ Top1(t, "unlink", c) /\ c = Top(t).of
      /\ s \in Sources /\ c \in CallbacksOf(s)
  BY <1>1, CallbackTop, TopFrame DEF TypeOK, Stacks
<1>0. s = SourceOf[c]
  OBVIOUS
<1> HIDE DEF c, s
<1>3. CASE /\ cb[c].linked
           /\ src' = [src EXCEPT ![s].callbacks = Unlinked(@, c), ![s].locked = FALSE]
           /\ cb' = [cb EXCEPT ![c].life = "dead"]
           /\ Return(t)
  <2>1. Changes(t, {})
    BY <1>2, <1>3, ReturnChanges
  <2>2. /\ src'[s].requested = src[s].requested /\ src'[s].locked = FALSE
        /\ src'[s].notifying = src[s].notifying /\ src'[s].removed = src[s].removed
        /\ src'[s].callbacks = Unlinked(src[s].callbacks, c) /\ OtherSources(s)
    BY <1>2, <1>3 DEF TypeOK, OtherSources
  <2>3. OtherCallbacks(c) /\ cb'[c] = [cb[c] EXCEPT !.life = "dead"]
    BY <1>2, <1>3 DEF TypeOK, OtherCallbacks
  <2>4. UnlinkListed(t, s, c)
    BY <1>2, <1>3, <2>1, <2>2, <2>3 DEF UnlinkListed
  <2> QED
    BY <1>2, <2>4 DEF StopEvent
<1>4. CASE /\ ~cb[c].linked /\ src[s].notifying = t
           /\ src' = [src EXCEPT ![s].removed = @ \/ cb[c].flagged, ![s].locked = FALSE]
           /\ cb' = [cb EXCEPT ![c].life = "dead"]
           /\ Return(t)
  <2>1. Changes(t, {})
    BY <1>2, <1>4, ReturnChanges
  <2>2. /\ src'[s].requested = src[s].requested /\ src'[s].locked = FALSE
        /\ src'[s].notifying = src[s].notifying /\ src'[s].removed = (src[s].removed \/ cb[c].flagged)
        /\ src'[s].callbacks = src[s].callbacks /\ OtherSources(s)
    BY <1>2, <1>4 DEF TypeOK, OtherSources
  <2>3. OtherCallbacks(c) /\ cb'[c] = [cb[c] EXCEPT !.life = "dead"]
    BY <1>2, <1>4 DEF TypeOK, OtherCallbacks
  <2>4. UnlinkOwn(t, s, c)
    BY <1>2, <1>4, <2>1, <2>2, <2>3 DEF UnlinkOwn
  <2> QED
    BY <1>2, <2>4 DEF StopEvent
<1>5. CASE /\ ~cb[c].linked /\ src[s].notifying # t
           /\ src' = [src EXCEPT ![s].locked = FALSE]
           /\ cb' = cb
           /\ Goto(t, "await")
  <2>1. Changes(t, {Frame("await", c)})
    BY <1>1, <1>2, <1>5, GotoChanges, StopPoints
  <2>2. /\ src'[s].requested = src[s].requested /\ src'[s].locked = FALSE
        /\ src'[s].notifying = src[s].notifying /\ src'[s].removed = src[s].removed
        /\ src'[s].callbacks = src[s].callbacks /\ OtherSources(s)
    BY <1>2, <1>5 DEF TypeOK, OtherSources
  <2>4. UnlinkWaits(t, s, c)
    BY <1>2, <1>5, <2>1, <2>2 DEF UnlinkWaits
  <2> QED
    BY <1>2, <2>4 DEF StopEvent
<1> QED
  BY <1>0, <1>3, <1>4, <1>5 DEF UnlinkCallback, c, s

\* Waiting for the end of the run.
LEMMA AwaitCallbackEvents ==
    ASSUME TypeOK, Nested, NEW t \in Threads, AwaitCallback(t)
    PROVE  StopEvent(t) \/ (src' = src /\ cb' = cb /\ stack' = stack)
<1> DEFINE c == Of(t)
           s == SourceOf[c]
<1>1. At(t, "await")
  BY DEF AwaitCallback
<1>2. /\ Stacks /\ stack[t] # <<>> /\ c \in Callbacks /\ Top1(t, "await", c) /\ c = Top(t).of
      /\ s \in Sources /\ c \in CallbacksOf(s)
  BY <1>1, CallbackTop, TopFrame DEF TypeOK, Stacks
<1>0. s = SourceOf[c]
  OBVIOUS
<1> HIDE DEF c, s
<1>3. CASE /\ cb[c].completed
           /\ cb' = [cb EXCEPT ![c].life = "dead"]
           /\ src' = src
           /\ Return(t)
  <2>1. Changes(t, {})
    BY <1>2, <1>3, ReturnChanges
  <2>3. OtherCallbacks(c) /\ cb'[c] = [cb[c] EXCEPT !.life = "dead"]
    BY <1>2, <1>3 DEF TypeOK, OtherCallbacks
  <2>4. AwaitEnds(t, s, c)
    BY <1>2, <1>3, <2>1, <2>3 DEF AwaitEnds
  <2> QED
    BY <1>2, <2>4 DEF StopEvent
<1> QED
  BY <1>0, <1>3 DEF AwaitCallback, c

\* A step of the stop sources is one of the events, or a turn of the loop
\* that waits for a callback.
LEMMA StopEvents ==
    ASSUME TypeOK, Nested, NEW t \in Threads, StopStep(t)
    PROVE  StopEvent(t) \/ (src' = src /\ cb' = cb /\ stack' = stack)
  BY RequestStopEvents, NotifyNextEvents, RunCallbackEvents, CallbackRanEvents, RelockEvents,
     TryAddCallbackEvents, LinkCallbackEvents, RemoveCallbackEvents, UnlinkCallbackEvents,
     AwaitCallbackEvents DEF StopStep
-----------------------------------------------------------------------------
(* The steps of the operation and of its children.                          *)

SameConfig == stoppable' = stoppable /\ kind' = kind
SameChild == owner' = owner /\ cancelled' = cancelled
SameOp == count' = count /\ state' = state /\ errors' = errors /\ values' = values
SameHistory == sent' = sent /\ result' = result

StartStoppable(t) ==
    /\ Top1(t, "start", OnStop) /\ stoppable
    /\ Changes(t, {Frame("check", OnStop), Frame("add", OnStop)})
    /\ cb'[OnStop] = Born /\ OtherCallbacks(OnStop) /\ src' = src /\ SameOperation
StartNever(t) ==
    /\ Top1(t, "start", OnStop) /\ ~stoppable /\ Changes(t, {Frame("check", OnStop)})
    /\ cb' = cb /\ src' = src /\ SameOperation
CheckStops(t) ==
    /\ Top1(t, "check", OnStop) /\ src[Inner].requested
    /\ Changes(t, {Frame("abandon", OnStop), Frame("remove", OnStop)})
    /\ cb' = cb /\ src' = src /\ SameOperation
CheckGoes(t) ==
    /\ Top1(t, "check", OnStop) /\ ~src[Inner].requested
    /\ Changes(t, {Frame("start_child", ChildOrder[1])})
    /\ cb' = cb /\ src' = src /\ SameOperation
Abandons(t) ==
    /\ Top1(t, "abandon", OnStop) /\ Changes(t, {})
    /\ result' = Append(result, "set_stopped") /\ cb' = cb /\ src' = src /\ SameConfig
    /\ asked' = asked /\ SameChild /\ SameOp /\ sent' = sent
StartInline(t, c, signal) ==
    /\ Top1(t, "start_child", c) /\ kind[c] = "inline"
    /\ Changes(t, {Frame("started", c), Frame(signal, c)})
    /\ cb' = cb /\ src' = src /\ SameOperation
StartAsync(t, c) ==
    /\ Top1(t, "start_child", c) /\ kind[c] # "inline"
    /\ Changes(t, {Frame("hand_off", c), Frame("add", c)})
    /\ cb'[c] = Born /\ OtherCallbacks(c) /\ src' = src /\ SameOperation
HandEager(t, c) ==
    /\ Top1(t, "hand_off", c) /\ kind[c] = "eager" /\ cancelled[c]
    /\ Changes(t, {Frame("started", c), Frame("finish_child", c)})
    /\ owner' = [owner EXCEPT ![c] = t] /\ cb' = cb /\ src' = src /\ SameConfig
    /\ asked' = asked /\ cancelled' = cancelled /\ SameOp /\ SameHistory
HandOver(t, c) ==
    /\ Top1(t, "hand_off", c) /\ ~(kind[c] = "eager" /\ cancelled[c])
    /\ Changes(t, {Frame("started", c)})
    /\ owner' = [owner EXCEPT ![c] = "undecided"] /\ cb' = cb /\ src' = src /\ SameConfig
    /\ asked' = asked /\ cancelled' = cancelled /\ SameOp /\ SameHistory
NextEnds(t, c) ==
    /\ Top1(t, "started", c) /\ c = ChildOrder[Len(ChildOrder)] /\ Changes(t, {})
    /\ cb' = cb /\ src' = src /\ SameOperation
NextStarts(t, c, i) ==
    /\ Top1(t, "started", c) /\ c = ChildOrder[i] /\ i + 1 \in DOMAIN ChildOrder
    /\ Changes(t, {Frame("start_child", ChildOrder[i + 1])})
    /\ cb' = cb /\ src' = src /\ SameOperation
CallbackForwards(t) ==
    /\ Top1(t, "callback", OnStop) /\ Changes(t, {Frame("request_stop", Inner)})
    /\ cb' = cb /\ src' = src /\ SameOperation
CallbackFinishes(t, c) ==
    /\ Top1(t, "callback", c) /\ kind[c] = "eager" /\ owner[c] = "undecided"
    /\ Changes(t, {Frame("finish_child", c)})
    /\ owner' = [owner EXCEPT ![c] = t] /\ cancelled' = [cancelled EXCEPT ![c] = TRUE]
    /\ cb' = cb /\ src' = src /\ SameConfig /\ asked' = asked /\ SameOp /\ SameHistory
CallbackNotes(t, c) ==
    /\ Top1(t, "callback", c) /\ ~(kind[c] = "eager" /\ owner[c] = "undecided")
    /\ Changes(t, {})
    /\ cancelled' = [cancelled EXCEPT ![c] = TRUE] /\ cb' = cb /\ src' = src /\ SameConfig
    /\ asked' = asked /\ owner' = owner /\ SameOp /\ SameHistory
Finishes(t, c) ==
    /\ Top1(t, "finish_child", c)
    /\ Changes(t, {Frame("complete_child", c), Frame("remove", c)})
    /\ cb' = cb /\ src' = src /\ SameOperation
CompletesChild(t, c, signal) ==
    /\ Top1(t, "complete_child", c) /\ (signal = "set_stopped" => cancelled[c])
    /\ Changes(t, {Frame(signal, c)})
    /\ cb' = cb /\ src' = src /\ SameOperation
SetsValue(t, c) ==
    /\ Top1(t, "set_value", c) /\ Changes(t, {Frame("arrive", c)})
    /\ values' = values \union {c} /\ sent' = [sent EXCEPT ![c] = "set_value"] /\ cb' = cb
    /\ src' = src /\ SameConfig /\ asked' = asked /\ SameChild /\ count' = count
    /\ state' = state /\ errors' = errors /\ result' = result
ValueThrows(t, c) ==
    /\ Top1(t, "set_value", c) /\ Changes(t, {Frame("set_error", c)})
    /\ cb' = cb /\ src' = src /\ SameOperation
ErrorLate(t, c) ==
    /\ Top1(t, "set_error", c) /\ state = "error" /\ Changes(t, {Frame("arrive", c)})
    /\ state' = "error" /\ sent' = [sent EXCEPT ![c] = "set_error"] /\ cb' = cb /\ src' = src
    /\ SameConfig /\ asked' = asked /\ SameChild /\ count' = count /\ errors' = errors
    /\ values' = values /\ result' = result
ErrorFirst(t, c) ==
    /\ Top1(t, "set_error", c) /\ state # "error"
    /\ Changes(t, {Frame("emplace", c), Frame("request_stop", Inner)})
    /\ state' = "error" /\ sent' = [sent EXCEPT ![c] = "set_error"] /\ cb' = cb /\ src' = src
    /\ SameConfig /\ asked' = asked /\ SameChild /\ count' = count /\ errors' = errors
    /\ values' = values /\ result' = result
Emplaces(t, c) ==
    /\ Top1(t, "emplace", c) /\ Changes(t, {Frame("arrive", c)})
    /\ errors' = c /\ cb' = cb /\ src' = src /\ SameConfig /\ asked' = asked /\ SameChild
    /\ count' = count /\ state' = state /\ values' = values /\ SameHistory
StoppedFirst(t, c) ==
    /\ Top1(t, "set_stopped", c) /\ state = "started"
    /\ Changes(t, {Frame("arrive", c), Frame("request_stop", Inner)})
    /\ state' = "stopped" /\ sent' = [sent EXCEPT ![c] = "set_stopped"] /\ cb' = cb
    /\ src' = src /\ SameConfig /\ asked' = asked /\ SameChild /\ count' = count
    /\ errors' = errors /\ values' = values /\ result' = result
StoppedLate(t, c) ==
    /\ Top1(t, "set_stopped", c) /\ state # "started" /\ Changes(t, {Frame("arrive", c)})
    /\ sent' = [sent EXCEPT ![c] = "set_stopped"] /\ cb' = cb /\ src' = src /\ SameConfig
    /\ asked' = asked /\ SameChild /\ SameOp /\ result' = result
ArrivesEarly(t, c) ==
    /\ Top1(t, "arrive", c) /\ count > 1 /\ Changes(t, {})
    /\ count' = count - 1 /\ cb' = cb /\ src' = src /\ SameConfig /\ asked' = asked /\ SameChild
    /\ state' = state /\ errors' = errors /\ values' = values /\ SameHistory
ArrivesLastStoppable(t, c) ==
    /\ Top1(t, "arrive", c) /\ ~(count > 1) /\ stoppable
    /\ Changes(t, {Frame("deliver", c), Frame("remove", OnStop)})
    /\ count' = count - 1 /\ cb' = cb /\ src' = src /\ SameConfig /\ asked' = asked /\ SameChild
    /\ state' = state /\ errors' = errors /\ values' = values /\ SameHistory
ArrivesLast(t, c) ==
    /\ Top1(t, "arrive", c) /\ ~(count > 1) /\ ~stoppable /\ Changes(t, {Frame("deliver", c)})
    /\ count' = count - 1 /\ cb' = cb /\ src' = src /\ SameConfig /\ asked' = asked /\ SameChild
    /\ state' = state /\ errors' = errors /\ values' = values /\ SameHistory
Delivers(t, c) ==
    /\ Top1(t, "deliver", c) /\ Changes(t, {})
    /\ result' = Append(result, Outcome) /\ cb' = cb /\ src' = src /\ SameConfig
    /\ asked' = asked /\ SameChild /\ SameOp /\ sent' = sent
Asks ==
    /\ stoppable /\ asked' = TRUE /\ stack[Stopper] = <<>>
    /\ Changes(Stopper, {Frame("request_stop", Outer)})
    /\ src' = src /\ cb' = cb /\ SameConfig /\ SameChild /\ SameOp /\ SameHistory
Works(c) ==
    /\ owner[c] = "undecided" /\ stack[c] = <<>> /\ Changes(c, {Frame("finish_child", c)})
    /\ owner' = [owner EXCEPT ![c] = c] /\ cancelled' = cancelled
    /\ src' = src /\ cb' = cb /\ SameConfig /\ asked' = asked /\ SameOp /\ SameHistory

\* A step of the operation or of a child.
ClientEvent(t) ==
    \/ StartStoppable(t) \/ StartNever(t) \/ CheckStops(t) \/ CheckGoes(t) \/ Abandons(t)
    \/ CallbackForwards(t)
    \/ \E c \in Children :
         \/ StartAsync(t, c) \/ HandEager(t, c) \/ HandOver(t, c) \/ NextEnds(t, c)
         \/ CallbackFinishes(t, c) \/ CallbackNotes(t, c) \/ Finishes(t, c) \/ SetsValue(t, c)
         \/ ValueThrows(t, c) \/ ErrorLate(t, c) \/ ErrorFirst(t, c) \/ Emplaces(t, c)
         \/ StoppedFirst(t, c) \/ StoppedLate(t, c) \/ ArrivesEarly(t, c)
         \/ ArrivesLastStoppable(t, c) \/ ArrivesLast(t, c) \/ Delivers(t, c)
         \/ \E signal \in Signals : StartInline(t, c, signal) \/ CompletesChild(t, c, signal)
         \/ \E i \in DOMAIN ChildOrder : NextStarts(t, c, i)
\* The innermost frame in start(), before the children.
LEMMA StartTop ==
    ASSUME TypeOK, Nested, NEW t \in Threads, NEW p \in {"start", "check", "abandon"}, At(t, p)
    PROVE  /\ Stacks /\ stack[t] # <<>> /\ Of(t) = OnStop /\ Top1(t, p, OnStop) /\ Of(t) = Top(t).of
           /\ OnStop \in Callbacks
<1>1. Stacks /\ stack[t] # <<>> /\ Of(t) = Top(t).of /\ Top(t).at = p /\ Top(t) = Frame(p, Top(t).of)
  BY TopFrame DEF TypeOK, Stacks
<1>2. Top(t).of = OnStop
  BY <1>1, TopKnown DEF Known
<1> QED
  BY <1>1, <1>2, Constants DEF Top1

\* The innermost frame that is about a child.
LEMMA ChildTop ==
    ASSUME TypeOK, Nested, NEW t \in Threads, NEW p \in ChainPoints \union {"started"}, At(t, p)
    PROVE  /\ Stacks /\ stack[t] # <<>> /\ Of(t) \in Children /\ Top1(t, p, Of(t)) /\ Of(t) = Top(t).of
           /\ Of(t) \in Callbacks
<1>1. Stacks /\ stack[t] # <<>> /\ Of(t) = Top(t).of /\ Top(t).at = p /\ Top(t) = Frame(p, Top(t).of)
  BY TopFrame DEF TypeOK, Stacks
<1>2. Top(t).of \in Children
  BY <1>1, TopKnown DEF Known
<1> QED
  BY <1>1, <1>2, Constants DEF Top1

\* start: the callback on the receiver's token.
LEMMA StartEvents ==
    ASSUME TypeOK, Nested, NEW t \in Threads, Start(t)
    PROVE  ClientEvent(t)
<1>1. At(t, "start")
  BY DEF Start
<1>2. Stacks /\ stack[t] # <<>> /\ Top1(t, "start", OnStop) /\ OnStop = Top(t).of /\ OnStop \in Callbacks
  BY <1>1, StartTop
<1>3. /\ src' = src /\ asked' = asked /\ stoppable' = stoppable /\ kind' = kind /\ owner' = owner /\ cancelled' = cancelled
      /\ count' = count /\ state' = state /\ errors' = errors /\ values' = values /\ sent' = sent /\ result' = result
  BY DEF Start, config, child, op
<1>4. CASE /\ stoppable
           /\ cb' = [cb EXCEPT ![OnStop] = Born]
           /\ Call(t, Frame("add", OnStop), "check")
  <2>a. Frame("add", OnStop) \in Frames /\ Frame("add", OnStop).at = "add"
    BY <1>2, MakeFrame, ClientPoints, StopPoints, Constants
  <2>b. "check" \in Points /\ "check" # "add"
    BY ClientPoints
  <2>1. Changes(t, {Frame("check", OnStop), Frame("add", OnStop)})
    BY <1>2, <1>4, <2>a, <2>b, CallChanges
  <2>2. cb'[OnStop] = Born /\ OtherCallbacks(OnStop)
    BY <1>2, <1>4 DEF TypeOK, OtherCallbacks
  <2>3. StartStoppable(t)
    BY <1>2, <1>3, <1>4, <2>1, <2>2
    DEF StartStoppable, SameOperation, SameConfig, SameChild, SameOp, SameHistory
  <2> QED
    BY <1>2, <2>3 DEF ClientEvent
<1>5. CASE /\ ~stoppable
           /\ Goto(t, "check")
           /\ cb' = cb
  <2>1. Changes(t, {Frame("check", OnStop)})
    BY <1>1, <1>2, <1>5, GotoChanges, ClientPoints
  <2>3. StartNever(t)
    BY <1>2, <1>3, <1>5, <2>1
    DEF StartNever, SameOperation, SameConfig, SameChild, SameOp, SameHistory
  <2> QED
    BY <1>2, <2>3 DEF ClientEvent
<1> QED
  BY <1>4, <1>5 DEF Start

\* start: the early stop.
LEMMA CheckStoppedEvents ==
    ASSUME TypeOK, Nested, NEW t \in Threads, CheckStopped(t)
    PROVE  ClientEvent(t)
<1>1. At(t, "check")
  BY DEF CheckStopped
<1>2. Stacks /\ stack[t] # <<>> /\ Top1(t, "check", OnStop) /\ OnStop = Top(t).of /\ OnStop \in Callbacks
  BY <1>1, StartTop
<1>3. /\ src' = src /\ cb' = cb /\ asked' = asked /\ stoppable' = stoppable /\ kind' = kind /\ owner' = owner
      /\ cancelled' = cancelled /\ count' = count /\ state' = state /\ errors' = errors /\ values' = values /\ sent' = sent /\ result' = result
  BY DEF CheckStopped, config, child, op
<1>4. CASE /\ src[Inner].requested
           /\ Call(t, Frame("remove", OnStop), "abandon")
  <2>a. Frame("remove", OnStop) \in Frames /\ Frame("remove", OnStop).at = "remove"
    BY <1>2, MakeFrame, ClientPoints, StopPoints, Constants
  <2>b. "abandon" \in Points /\ "abandon" # "remove"
    BY ClientPoints
  <2>1. Changes(t, {Frame("abandon", OnStop), Frame("remove", OnStop)})
    BY <1>2, <1>4, <2>a, <2>b, CallChanges
  <2>3. CheckStops(t)
    BY <1>2, <1>3, <1>4, <2>1
    DEF CheckStops, SameOperation, SameConfig, SameChild, SameOp, SameHistory
  <2> QED
    BY <1>2, <2>3 DEF ClientEvent
<1>5. CASE /\ ~src[Inner].requested
           /\ Become(t, Frame("start_child", ChildOrder[1]))
  <2>a. Frame("start_child", ChildOrder[1]) \in Frames
    BY <1>2, MakeFrame, ClientPoints, StopPoints, Constants, ChildOrderSound, <1>5
  <2>1. Changes(t, {Frame("start_child", ChildOrder[1])})
    BY <1>2, <1>5, <2>a, BecomeChanges
  <2>3. CheckGoes(t)
    BY <1>2, <1>3, <1>5, <2>1
    DEF CheckGoes, SameOperation, SameConfig, SameChild, SameOp, SameHistory
  <2> QED
    BY <1>2, <2>3 DEF ClientEvent
<1> QED
  BY <1>4, <1>5 DEF CheckStopped

\* start: the completion of an operation stopped early.
LEMMA AbandonEvents ==
    ASSUME TypeOK, Nested, NEW t \in Threads, Abandon(t)
    PROVE  ClientEvent(t)
<1>1. At(t, "abandon")
  BY DEF Abandon
<1>2. Stacks /\ stack[t] # <<>> /\ Top1(t, "abandon", OnStop) /\ OnStop = Top(t).of /\ OnStop \in Callbacks
  BY <1>1, StartTop
<1>3. /\ src' = src /\ cb' = cb /\ asked' = asked /\ stoppable' = stoppable /\ kind' = kind /\ owner' = owner
      /\ cancelled' = cancelled /\ count' = count /\ state' = state /\ errors' = errors /\ values' = values /\ sent' = sent
  BY DEF Abandon, config, child, op
<1>4. CASE /\ Return(t)
           /\ result' = Append(result, "set_stopped")
  <2>1. Changes(t, {})
    BY <1>2, <1>4, ReturnChanges
  <2>3. Abandons(t)
    BY <1>2, <1>3, <1>4, <2>1
    DEF Abandons, SameOperation, SameConfig, SameChild, SameOp, SameHistory
  <2> QED
    BY <1>2, <2>3 DEF ClientEvent
<1> QED
  BY <1>4 DEF Abandon

\* Starting a child.
LEMMA StartChildEvents ==
    ASSUME TypeOK, Nested, NEW t \in Threads, StartChild(t)
    PROVE  ClientEvent(t)
<1> DEFINE c == Of(t)
<1>1. At(t, "start_child")
  BY DEF StartChild
<1>2. Stacks /\ stack[t] # <<>> /\ c \in Children /\ Top1(t, "start_child", c) /\ c = Top(t).of /\ c \in Callbacks
  BY <1>1, ChildTop DEF ChainPoints, ChildPoints
<1>3. /\ src' = src /\ asked' = asked /\ stoppable' = stoppable /\ kind' = kind /\ owner' = owner /\ cancelled' = cancelled
      /\ count' = count /\ state' = state /\ errors' = errors /\ values' = values /\ sent' = sent /\ result' = result
  BY DEF StartChild, config, child, op
<1> HIDE DEF c
<1>4. CASE /\ kind[c] = "inline"
           /\ cb' = cb
           /\ \E signal \in Signals : Call(t, Frame(signal, c), "started")
  <2>0. PICK signal \in Signals : Call(t, Frame(signal, c), "started")
    BY <1>4
  <2>a. Frame(signal, c) \in Frames /\ Frame(signal, c).at = signal
    BY <1>2, MakeFrame, ClientPoints, StopPoints, Constants, <2>0 DEF Signals
  <2>b. "started" \in Points /\ "started" # signal
    BY ClientPoints, <2>0 DEF Signals
  <2>1. Changes(t, {Frame("started", c), Frame(signal, c)})
    BY <1>2, <1>4, <2>0, <2>a, <2>b, CallChanges
  <2>3. StartInline(t, c, signal)
    BY <1>2, <1>3, <1>4, <2>0, <2>1
    DEF StartInline, SameOperation, SameConfig, SameChild, SameOp, SameHistory
  <2> QED
    BY <1>2, <2>3, <2>0 DEF ClientEvent
<1>5. CASE /\ kind[c] # "inline"
           /\ cb' = [cb EXCEPT ![c] = Born]
           /\ Call(t, Frame("add", c), "hand_off")
  <2>a. Frame("add", c) \in Frames /\ Frame("add", c).at = "add"
    BY <1>2, MakeFrame, ClientPoints, StopPoints, Constants
  <2>b. "hand_off" \in Points /\ "hand_off" # "add"
    BY ClientPoints
  <2>1. Changes(t, {Frame("hand_off", c), Frame("add", c)})
    BY <1>2, <1>5, <2>a, <2>b, CallChanges
  <2>2. cb'[c] = Born /\ OtherCallbacks(c)
    BY <1>2, <1>5 DEF TypeOK, OtherCallbacks
  <2>3. StartAsync(t, c)
    BY <1>2, <1>3, <1>5, <2>1, <2>2
    DEF StartAsync, SameOperation, SameConfig, SameChild, SameOp, SameHistory
  <2> QED
    BY <1>2, <2>3 DEF ClientEvent
<1> QED
  BY <1>4, <1>5 DEF StartChild, c, Signals

\* Handing it off.
LEMMA HandOffEvents ==
    ASSUME TypeOK, Nested, NEW t \in Threads, HandOff(t)
    PROVE  ClientEvent(t)
<1> DEFINE c == Of(t)
<1>1. At(t, "hand_off")
  BY DEF HandOff
<1>2. Stacks /\ stack[t] # <<>> /\ c \in Children /\ Top1(t, "hand_off", c) /\ c = Top(t).of /\ c \in Callbacks
  BY <1>1, ChildTop DEF ChainPoints, ChildPoints
<1>3. /\ src' = src /\ cb' = cb /\ asked' = asked /\ stoppable' = stoppable /\ kind' = kind /\ cancelled' = cancelled
      /\ count' = count /\ state' = state /\ errors' = errors /\ values' = values /\ sent' = sent /\ result' = result
  BY DEF HandOff, config, child, op
<1> HIDE DEF c
<1>4. CASE /\ kind[c] = "eager" /\ cancelled[c]
           /\ owner' = [owner EXCEPT ![c] = t]
           /\ Call(t, Frame("finish_child", c), "started")
  <2>a. Frame("finish_child", c) \in Frames /\ Frame("finish_child", c).at = "finish_child"
    BY <1>2, MakeFrame, ClientPoints, StopPoints, Constants
  <2>b. "started" \in Points /\ "started" # "finish_child"
    BY ClientPoints
  <2>1. Changes(t, {Frame("started", c), Frame("finish_child", c)})
    BY <1>2, <1>4, <2>a, <2>b, CallChanges
  <2>3. HandEager(t, c)
    BY <1>2, <1>3, <1>4, <2>1
    DEF HandEager, SameOperation, SameConfig, SameChild, SameOp, SameHistory
  <2> QED
    BY <1>2, <2>3 DEF ClientEvent
<1>5. CASE /\ ~(kind[c] = "eager" /\ cancelled[c])
           /\ owner' = [owner EXCEPT ![c] = "undecided"]
           /\ Goto(t, "started")
  <2>1. Changes(t, {Frame("started", c)})
    BY <1>1, <1>2, <1>5, GotoChanges, ClientPoints
  <2>3. HandOver(t, c)
    BY <1>2, <1>3, <1>5, <2>1
    DEF HandOver, SameOperation, SameConfig, SameChild, SameOp, SameHistory
  <2> QED
    BY <1>2, <2>3 DEF ClientEvent
<1> QED
  BY <1>4, <1>5 DEF HandOff, c

\* The end of a child.
LEMMA FinishChildEvents ==
    ASSUME TypeOK, Nested, NEW t \in Threads, FinishChild(t)
    PROVE  ClientEvent(t)
<1> DEFINE c == Of(t)
<1>1. At(t, "finish_child")
  BY DEF FinishChild
<1>2. Stacks /\ stack[t] # <<>> /\ c \in Children /\ Top1(t, "finish_child", c) /\ c = Top(t).of /\ c \in Callbacks
  BY <1>1, ChildTop DEF ChainPoints, ChildPoints
<1>3. /\ src' = src /\ cb' = cb /\ asked' = asked /\ stoppable' = stoppable /\ kind' = kind /\ owner' = owner
      /\ cancelled' = cancelled /\ count' = count /\ state' = state /\ errors' = errors /\ values' = values /\ sent' = sent /\ result' = result
  BY DEF FinishChild, config, child, op
<1> HIDE DEF c
<1>4. CASE Call(t, Frame("remove", c), "complete_child")
  <2>a. Frame("remove", c) \in Frames /\ Frame("remove", c).at = "remove"
    BY <1>2, MakeFrame, ClientPoints, StopPoints, Constants
  <2>b. "complete_child" \in Points /\ "complete_child" # "remove"
    BY ClientPoints
  <2>1. Changes(t, {Frame("complete_child", c), Frame("remove", c)})
    BY <1>2, <1>4, <2>a, <2>b, CallChanges
  <2>3. Finishes(t, c)
    BY <1>2, <1>3, <1>4, <2>1
    DEF Finishes, SameOperation, SameConfig, SameChild, SameOp, SameHistory
  <2> QED
    BY <1>2, <2>3 DEF ClientEvent
<1> QED
  BY <1>4 DEF FinishChild, c

\* Its signal.
LEMMA CompleteChildEvents ==
    ASSUME TypeOK, Nested, NEW t \in Threads, CompleteChild(t)
    PROVE  ClientEvent(t)
<1> DEFINE c == Of(t)
<1>1. At(t, "complete_child")
  BY DEF CompleteChild
<1>2. Stacks /\ stack[t] # <<>> /\ c \in Children /\ Top1(t, "complete_child", c) /\ c = Top(t).of /\ c \in Callbacks
  BY <1>1, ChildTop DEF ChainPoints, ChildPoints
<1>3. /\ src' = src /\ cb' = cb /\ asked' = asked /\ stoppable' = stoppable /\ kind' = kind /\ owner' = owner
      /\ cancelled' = cancelled /\ count' = count /\ state' = state /\ errors' = errors /\ values' = values /\ sent' = sent /\ result' = result
  BY DEF CompleteChild, config, child, op
<1> HIDE DEF c
<1>4. CASE \E signal \in Signals : (signal = "set_stopped" => cancelled[c]) /\ Goto(t, signal)
  <2>0. PICK signal \in Signals : (signal = "set_stopped" => cancelled[c]) /\ Goto(t, signal)
    BY <1>4
  <2>1. Changes(t, {Frame(signal, c)})
    BY <1>1, <1>2, <1>4, <2>0, GotoChanges, ClientPoints DEF Signals
  <2>3. CompletesChild(t, c, signal)
    BY <1>2, <1>3, <1>4, <2>0, <2>1
    DEF CompletesChild, SameOperation, SameConfig, SameChild, SameOp, SameHistory
  <2> QED
    BY <1>2, <2>3, <2>0 DEF ClientEvent
<1> QED
  BY <1>4 DEF CompleteChild, c, Signals

\* set_value.
LEMMA SetValueEvents ==
    ASSUME TypeOK, Nested, NEW t \in Threads, SetValue(t)
    PROVE  ClientEvent(t)
<1> DEFINE c == Of(t)
<1>1. At(t, "set_value")
  BY DEF SetValue
<1>2. Stacks /\ stack[t] # <<>> /\ c \in Children /\ Top1(t, "set_value", c) /\ c = Top(t).of /\ c \in Callbacks
  BY <1>1, ChildTop DEF ChainPoints, ChildPoints
<1>3. /\ src' = src /\ cb' = cb /\ asked' = asked /\ stoppable' = stoppable /\ kind' = kind /\ owner' = owner
      /\ cancelled' = cancelled /\ count' = count /\ state' = state /\ errors' = errors /\ result' = result
  BY DEF SetValue, config, child, op
<1> HIDE DEF c
<1>4. CASE /\ values' = values \union {c}
           /\ sent' = [sent EXCEPT ![c] = "set_value"]
           /\ Goto(t, "arrive")
  <2>1. Changes(t, {Frame("arrive", c)})
    BY <1>1, <1>2, <1>4, GotoChanges, ClientPoints
  <2>3. SetsValue(t, c)
    BY <1>2, <1>3, <1>4, <2>1
    DEF SetsValue, SameOperation, SameConfig, SameChild, SameOp, SameHistory
  <2> QED
    BY <1>2, <2>3 DEF ClientEvent
<1>5. CASE /\ Goto(t, "set_error")
           /\ values' = values
           /\ sent' = sent
  <2>1. Changes(t, {Frame("set_error", c)})
    BY <1>1, <1>2, <1>5, GotoChanges, ClientPoints
  <2>3. ValueThrows(t, c)
    BY <1>2, <1>3, <1>5, <2>1
    DEF ValueThrows, SameOperation, SameConfig, SameChild, SameOp, SameHistory
  <2> QED
    BY <1>2, <2>3 DEF ClientEvent
<1> QED
  BY <1>4, <1>5 DEF SetValue, c

\* set_error.
LEMMA SetErrorEvents ==
    ASSUME TypeOK, Nested, NEW t \in Threads, SetError(t)
    PROVE  ClientEvent(t)
<1> DEFINE c == Of(t)
<1>1. At(t, "set_error")
  BY DEF SetError
<1>2. Stacks /\ stack[t] # <<>> /\ c \in Children /\ Top1(t, "set_error", c) /\ c = Top(t).of /\ c \in Callbacks
  BY <1>1, ChildTop DEF ChainPoints, ChildPoints
<1>3. /\ src' = src /\ cb' = cb /\ asked' = asked /\ stoppable' = stoppable /\ kind' = kind /\ owner' = owner
      /\ cancelled' = cancelled /\ count' = count /\ errors' = errors /\ values' = values /\ result' = result
  BY DEF SetError, config, child, op
<1> HIDE DEF c
<1>4. CASE /\ state = "error"
           /\ state' = "error"
           /\ sent' = [sent EXCEPT ![c] = "set_error"]
           /\ Goto(t, "arrive")
  <2>1. Changes(t, {Frame("arrive", c)})
    BY <1>1, <1>2, <1>4, GotoChanges, ClientPoints
  <2>3. ErrorLate(t, c)
    BY <1>2, <1>3, <1>4, <2>1
    DEF ErrorLate, SameOperation, SameConfig, SameChild, SameOp, SameHistory
  <2> QED
    BY <1>2, <2>3 DEF ClientEvent
<1>5. CASE /\ state # "error"
           /\ state' = "error"
           /\ sent' = [sent EXCEPT ![c] = "set_error"]
           /\ Call(t, Frame("request_stop", Inner), "emplace")
  <2>a. Frame("request_stop", Inner) \in Frames /\ Frame("request_stop", Inner).at = "request_stop"
    BY <1>2, MakeFrame, ClientPoints, StopPoints, Constants
  <2>b. "emplace" \in Points /\ "emplace" # "request_stop"
    BY ClientPoints
  <2>1. Changes(t, {Frame("emplace", c), Frame("request_stop", Inner)})
    BY <1>2, <1>5, <2>a, <2>b, CallChanges
  <2>3. ErrorFirst(t, c)
    BY <1>2, <1>3, <1>5, <2>1
    DEF ErrorFirst, SameOperation, SameConfig, SameChild, SameOp, SameHistory
  <2> QED
    BY <1>2, <2>3 DEF ClientEvent
<1> QED
  BY <1>4, <1>5 DEF SetError, c

\* Storing the error.
LEMMA EmplaceErrorEvents ==
    ASSUME TypeOK, Nested, NEW t \in Threads, EmplaceError(t)
    PROVE  ClientEvent(t)
<1> DEFINE c == Of(t)
<1>1. At(t, "emplace")
  BY DEF EmplaceError
<1>2. Stacks /\ stack[t] # <<>> /\ c \in Children /\ Top1(t, "emplace", c) /\ c = Top(t).of /\ c \in Callbacks
  BY <1>1, ChildTop DEF ChainPoints, ChildPoints
<1>3. /\ src' = src /\ cb' = cb /\ asked' = asked /\ stoppable' = stoppable /\ kind' = kind /\ owner' = owner
      /\ cancelled' = cancelled /\ count' = count /\ state' = state /\ values' = values /\ sent' = sent /\ result' = result
  BY DEF EmplaceError, config, child, op
<1> HIDE DEF c
<1>4. CASE /\ errors' = c
           /\ Goto(t, "arrive")
  <2>1. Changes(t, {Frame("arrive", c)})
    BY <1>1, <1>2, <1>4, GotoChanges, ClientPoints
  <2>3. Emplaces(t, c)
    BY <1>2, <1>3, <1>4, <2>1
    DEF Emplaces, SameOperation, SameConfig, SameChild, SameOp, SameHistory
  <2> QED
    BY <1>2, <2>3 DEF ClientEvent
<1> QED
  BY <1>4 DEF EmplaceError, c

\* set_stopped.
LEMMA SetStoppedEvents ==
    ASSUME TypeOK, Nested, NEW t \in Threads, SetStopped(t)
    PROVE  ClientEvent(t)
<1> DEFINE c == Of(t)
<1>1. At(t, "set_stopped")
  BY DEF SetStopped
<1>2. Stacks /\ stack[t] # <<>> /\ c \in Children /\ Top1(t, "set_stopped", c) /\ c = Top(t).of /\ c \in Callbacks
  BY <1>1, ChildTop DEF ChainPoints, ChildPoints
<1>3. /\ src' = src /\ cb' = cb /\ asked' = asked /\ stoppable' = stoppable /\ kind' = kind /\ owner' = owner
      /\ cancelled' = cancelled /\ count' = count /\ errors' = errors /\ values' = values /\ result' = result
  BY DEF SetStopped, config, child, op
<1> HIDE DEF c
<1>4. CASE /\ state = "started"
           /\ state' = "stopped"
           /\ sent' = [sent EXCEPT ![c] = "set_stopped"]
           /\ Call(t, Frame("request_stop", Inner), "arrive")
  <2>a. Frame("request_stop", Inner) \in Frames /\ Frame("request_stop", Inner).at = "request_stop"
    BY <1>2, MakeFrame, ClientPoints, StopPoints, Constants
  <2>b. "arrive" \in Points /\ "arrive" # "request_stop"
    BY ClientPoints
  <2>1. Changes(t, {Frame("arrive", c), Frame("request_stop", Inner)})
    BY <1>2, <1>4, <2>a, <2>b, CallChanges
  <2>3. StoppedFirst(t, c)
    BY <1>2, <1>3, <1>4, <2>1
    DEF StoppedFirst, SameOperation, SameConfig, SameChild, SameOp, SameHistory
  <2> QED
    BY <1>2, <2>3 DEF ClientEvent
<1>5. CASE /\ state # "started"
           /\ state' = state
           /\ sent' = [sent EXCEPT ![c] = "set_stopped"]
           /\ Goto(t, "arrive")
  <2>1. Changes(t, {Frame("arrive", c)})
    BY <1>1, <1>2, <1>5, GotoChanges, ClientPoints
  <2>3. StoppedLate(t, c)
    BY <1>2, <1>3, <1>5, <2>1
    DEF StoppedLate, SameOperation, SameConfig, SameChild, SameOp, SameHistory
  <2> QED
    BY <1>2, <2>3 DEF ClientEvent
<1> QED
  BY <1>4, <1>5 DEF SetStopped, c

\* __arrive.
LEMMA ArriveEvents ==
    ASSUME TypeOK, Nested, NEW t \in Threads, Arrive(t)
    PROVE  ClientEvent(t)
<1> DEFINE c == Of(t)
<1>1. At(t, "arrive")
  BY DEF Arrive
<1>2. Stacks /\ stack[t] # <<>> /\ c \in Children /\ Top1(t, "arrive", c) /\ c = Top(t).of /\ c \in Callbacks
  BY <1>1, ChildTop DEF ChainPoints, ChildPoints
<1>3. /\ src' = src /\ cb' = cb /\ asked' = asked /\ stoppable' = stoppable /\ kind' = kind /\ owner' = owner
      /\ cancelled' = cancelled /\ state' = state /\ errors' = errors /\ values' = values /\ sent' = sent /\ result' = result
  BY DEF Arrive, config, child, op
<1> HIDE DEF c
<1>4. CASE /\ count > 1
           /\ count' = count - 1
           /\ Return(t)
  <2>1. Changes(t, {})
    BY <1>2, <1>4, ReturnChanges
  <2>3. ArrivesEarly(t, c)
    BY <1>2, <1>3, <1>4, <2>1
    DEF ArrivesEarly, SameOperation, SameConfig, SameChild, SameOp, SameHistory
  <2> QED
    BY <1>2, <2>3 DEF ClientEvent
<1>5. CASE /\ ~(count > 1)
           /\ stoppable
           /\ count' = count - 1
           /\ Call(t, Frame("remove", OnStop), "deliver")
  <2>a. Frame("remove", OnStop) \in Frames /\ Frame("remove", OnStop).at = "remove"
    BY <1>2, MakeFrame, ClientPoints, StopPoints, Constants
  <2>b. "deliver" \in Points /\ "deliver" # "remove"
    BY ClientPoints
  <2>1. Changes(t, {Frame("deliver", c), Frame("remove", OnStop)})
    BY <1>2, <1>5, <2>a, <2>b, CallChanges
  <2>3. ArrivesLastStoppable(t, c)
    BY <1>2, <1>3, <1>5, <2>1
    DEF ArrivesLastStoppable, SameOperation, SameConfig, SameChild, SameOp, SameHistory
  <2> QED
    BY <1>2, <2>3 DEF ClientEvent
<1>6. CASE /\ ~(count > 1)
           /\ ~stoppable
           /\ count' = count - 1
           /\ Goto(t, "deliver")
  <2>1. Changes(t, {Frame("deliver", c)})
    BY <1>1, <1>2, <1>6, GotoChanges, ClientPoints
  <2>3. ArrivesLast(t, c)
    BY <1>2, <1>3, <1>6, <2>1
    DEF ArrivesLast, SameOperation, SameConfig, SameChild, SameOp, SameHistory
  <2> QED
    BY <1>2, <2>3 DEF ClientEvent
<1> QED
  BY <1>4, <1>5, <1>6 DEF Arrive, c

\* The completion of the receiver.
LEMMA DeliverEvents ==
    ASSUME TypeOK, Nested, NEW t \in Threads, Deliver(t)
    PROVE  ClientEvent(t)
<1> DEFINE c == Of(t)
<1>1. At(t, "deliver")
  BY DEF Deliver
<1>2. Stacks /\ stack[t] # <<>> /\ c \in Children /\ Top1(t, "deliver", c) /\ c = Top(t).of /\ c \in Callbacks
  BY <1>1, ChildTop DEF ChainPoints, ChildPoints
<1>3. /\ src' = src /\ cb' = cb /\ asked' = asked /\ stoppable' = stoppable /\ kind' = kind /\ owner' = owner
      /\ cancelled' = cancelled /\ count' = count /\ state' = state /\ errors' = errors /\ values' = values /\ sent' = sent
  BY DEF Deliver, config, child, op
<1> HIDE DEF c
<1>4. CASE /\ Return(t)
           /\ result' = Append(result, Outcome)
  <2>1. Changes(t, {})
    BY <1>2, <1>4, ReturnChanges
  <2>3. Delivers(t, c)
    BY <1>2, <1>3, <1>4, <2>1
    DEF Delivers, SameOperation, SameConfig, SameChild, SameOp, SameHistory, Outcome
  <2> QED
    BY <1>2, <2>3 DEF ClientEvent
<1> QED
  BY <1>4 DEF Deliver, c, Outcome
\* __start_all: the next child.
LEMMA StartNextChildEvents ==
    ASSUME TypeOK, Nested, NEW t \in Threads, StartNextChild(t)
    PROVE  ClientEvent(t)
<1> DEFINE c == Of(t)
           i == CHOOSE k \in DOMAIN ChildOrder : ChildOrder[k] = c
<1>1. At(t, "started")
  BY DEF StartNextChild
<1>2. Stacks /\ stack[t] # <<>> /\ c \in Children /\ Top1(t, "started", c) /\ c = Top(t).of
  BY <1>1, ChildTop
<1>3. /\ src' = src /\ cb' = cb /\ SameOperation
      /\ IF i = Len(ChildOrder) THEN Return(t)
         ELSE Become(t, Frame("start_child", ChildOrder[i + 1]))
  BY DEF StartNextChild, config, child, op, SameOperation
<1>4. i \in DOMAIN ChildOrder /\ ChildOrder[i] = c
  BY <1>2, ChildOrderSound
<1> HIDE DEF c, i
<1>5. CASE i = Len(ChildOrder)
  <2>1. Changes(t, {})
    BY <1>2, <1>3, <1>5, ReturnChanges
  <2>2. NextEnds(t, c)
    BY <1>2, <1>3, <1>4, <1>5, <2>1 DEF NextEnds
  <2> QED
    BY <1>2, <2>2 DEF ClientEvent
<1>6. CASE i # Len(ChildOrder)
  <2>1. i + 1 \in DOMAIN ChildOrder
    BY <1>4, <1>6, ChildOrderSound
  <2>2. Frame("start_child", ChildOrder[i + 1]) \in Frames
    BY <2>1, ChildOrderSound, Constants, MakeFrame, ClientPoints
  <2>3. Changes(t, {Frame("start_child", ChildOrder[i + 1])})
    BY <1>2, <1>3, <1>6, <2>2, BecomeChanges
  <2>4. NextStarts(t, c, i)
    BY <1>2, <1>3, <1>4, <2>1, <2>3 DEF NextStarts
  <2> QED
    BY <1>2, <1>4, <2>4 DEF ClientEvent
<1> QED
  BY <1>5, <1>6

\* The body of a stop callback.
LEMMA InCallbackEvents ==
    ASSUME TypeOK, Nested, NEW t \in Threads, InCallback(t)
    PROVE  ClientEvent(t)
<1> DEFINE c == Of(t)
<1>1. At(t, "callback")
  BY DEF InCallback
<1>2. Stacks /\ stack[t] # <<>> /\ c \in Callbacks /\ Top1(t, "callback", c) /\ c = Top(t).of
  BY <1>1, CallbackTop, TopFrame DEF TypeOK, Stacks
<1>3. /\ src' = src /\ cb' = cb /\ asked' = asked /\ SameConfig /\ SameOp /\ SameHistory
  BY DEF InCallback, config, op, SameConfig, SameOp, SameHistory
<1> HIDE DEF c
<1>4. CASE c = OnStop /\ Become(t, Frame("request_stop", Inner)) /\ SameChild
  <2>1. Frame("request_stop", Inner) \in Frames
    BY Constants, MakeFrame, StopPoints
  <2>2. Changes(t, {Frame("request_stop", Inner)})
    BY <1>2, <1>4, <2>1, BecomeChanges
  <2>3. CallbackForwards(t)
    BY <1>2, <1>3, <1>4, <2>2
    DEF CallbackForwards, SameOperation, SameConfig, SameChild, SameOp, SameHistory
  <2> QED
    BY <2>3 DEF ClientEvent
<1>5. CASE /\ c # OnStop /\ cancelled' = [cancelled EXCEPT ![c] = TRUE]
           /\ kind[c] = "eager" /\ owner[c] = "undecided"
           /\ owner' = [owner EXCEPT ![c] = t] /\ Become(t, Frame("finish_child", c))
  <2>1. Frame("finish_child", c) \in Frames /\ c \in Children
    BY <1>2, <1>5, Constants, MakeFrame, ClientPoints
  <2>2. Changes(t, {Frame("finish_child", c)})
    BY <1>2, <1>5, <2>1, BecomeChanges
  <2>3. CallbackFinishes(t, c)
    BY <1>2, <1>3, <1>5, <2>2 DEF CallbackFinishes
  <2> QED
    BY <2>1, <2>3 DEF ClientEvent
<1>6. CASE /\ c # OnStop /\ cancelled' = [cancelled EXCEPT ![c] = TRUE]
           /\ ~(kind[c] = "eager" /\ owner[c] = "undecided")
           /\ owner' = owner /\ Return(t)
  <2>1. c \in Children
    BY <1>2, <1>6, Constants
  <2>2. Changes(t, {})
    BY <1>2, <1>6, ReturnChanges
  <2>3. CallbackNotes(t, c)
    BY <1>2, <1>3, <1>6, <2>2 DEF CallbackNotes
  <2> QED
    BY <2>1, <2>3 DEF ClientEvent
<1> QED
  BY <1>4, <1>5, <1>6 DEF InCallback, child, SameChild, c

\* The stop is requested from outside.
LEMMA AskStopEvents ==
    ASSUME TypeOK, Nested, AskStop
    PROVE  Asks
<1>1. /\ stoppable /\ asked' = TRUE /\ stack' = [stack EXCEPT ![Stopper] = <<Frame("request_stop", Outer)>>]
      /\ src' = src /\ cb' = cb /\ SameConfig /\ SameChild /\ SameOp /\ SameHistory /\ ~asked
  BY DEF AskStop, config, child, op, SameConfig, SameChild, SameOp, SameHistory
<1>2. stack[Stopper] = <<>> /\ Stacks /\ Stopper \in Threads
  BY <1>1, Constants DEF Nested, TypeOK, Stacks
<1>3. Frame("request_stop", Outer) \in Frames
  BY Constants, MakeFrame, StopPoints
<1>4. Changes(Stopper, {Frame("request_stop", Outer)})
  BY <1>1, <1>2, <1>3, PushChanges
<1> QED
  BY <1>1, <1>2, <1>4 DEF Asks

\* A child that nobody completes yet is on no stack, so that its thread is free.
LEMMA UndecidedIdle ==
    ASSUME TypeOK, Nested, Chain, NEW c \in Children, owner[c] = "undecided"
    PROVE  stack[c] = <<>> /\ ~Occurs(ChainFrames(c))
<1>1. ~Occurs(ChainFrames(c))
  <2> SUFFICES ASSUME Occurs(ChainFrames(c)) PROVE FALSE
    OBVIOUS
  <2>1. PICK u \in Threads : \E k \in DOMAIN stack[u] : stack[u][k] \in ChainFrames(c)
    BY DEF Occurs
  <2>2. PICK k \in DOMAIN stack[u] : stack[u][k] \in ChainFrames(c)
    BY <2>1
  <2>3. ChainFrameSound(stack[u][k])
    BY DEF Chain
  <2>4. stack[u][k].at \in ChainPoints /\ stack[u][k].of = c
    BY <2>2 DEF ChainFrames, FramesAt
  <2> QED
    BY <2>3, <2>4 DEF ChainFrameSound
<1>2. stack[c] = <<>>
  <2> SUFFICES ASSUME stack[c] # <<>> PROVE FALSE
    OBVIOUS
  <2>1. c \in Threads /\ c # Starter /\ c # Stopper
    BY Constants
  <2>2. 1 \in DOMAIN stack[c] /\ stack[c][1] \in Frames
    BY <2>1, StackShape DEF TypeOK
  <2>3. Outermost(c, stack[c][1])
    BY <2>1, <2>2 DEF Nested, NestedFrames
  <2>4. stack[c][1].at \in ChildPoints /\ stack[c][1].of = c
    BY <2>1, <2>3 DEF Outermost, ChildFrame
  <2>5. stack[c][1] \in ChainFrames(c)
    BY <2>2, <2>4 DEF ChainFrames, FramesAt, ChainPoints
  <2> QED
    BY <1>1, <2>1, <2>2, <2>5 DEF Occurs
<1> QED
  BY <1>1, <1>2

\* A child's own thread.
LEMMA ChildWorksEvents ==
    ASSUME TypeOK, Nested, Chain, NEW c \in Children, ChildWorks(c)
    PROVE  Works(c)
<1>1. /\ owner[c] = "undecided" /\ stack' = [stack EXCEPT ![c] = <<Frame("finish_child", c)>>]
      /\ owner' = [owner EXCEPT ![c] = c] /\ cancelled' = cancelled
      /\ src' = src /\ cb' = cb /\ SameConfig /\ asked' = asked /\ SameOp /\ SameHistory
  BY DEF ChildWorks, config, op, SameConfig, SameOp, SameHistory
<1>2. stack[c] = <<>> /\ Stacks /\ c \in Threads
  BY <1>1, UndecidedIdle, Constants DEF TypeOK, Stacks
<1>3. Frame("finish_child", c) \in Frames
  BY Constants, MakeFrame, ClientPoints
<1>4. Changes(c, {Frame("finish_child", c)})
  BY <1>1, <1>2, <1>3, PushChanges
<1> QED
  BY <1>1, <1>2, <1>4 DEF Works

\* Nothing happens.
Stutter == src' = src /\ cb' = cb /\ stack' = stack /\ SameOperation

\* Every step of the system is one of the events.
LEMMA NextEvents ==
    ASSUME TypeOK, Nested, Chain, [Next]_vars
    PROVE  \/ \E t \in Threads : StopEvent(t) /\ SameOperation
           \/ \E t \in Threads : ClientEvent(t)
           \/ Asks
           \/ \E c \in Children : Works(c)
           \/ Stutter
<1>1. CASE AskStop
  BY <1>1, AskStopEvents
<1>2. CASE \E c \in Children : ChildWorks(c)
  BY <1>2, ChildWorksEvents
<1>3. ASSUME NEW t \in Threads, StopStep(t), UNCHANGED <<asked, config, child, op, sent, result>>
      PROVE  (StopEvent(t) /\ SameOperation) \/ Stutter
  <2>1. SameOperation
    BY <1>3 DEF SameOperation, config, child, op
  <2> QED
    BY <1>3, <2>1, StopEvents DEF Stutter
<1>4. ASSUME NEW t \in Threads,
             \/ Start(t) \/ CheckStopped(t) \/ Abandon(t) \/ StartChild(t) \/ HandOff(t)
             \/ StartNextChild(t) \/ InCallback(t) \/ FinishChild(t) \/ CompleteChild(t)
             \/ SetValue(t) \/ SetError(t) \/ EmplaceError(t) \/ SetStopped(t)
             \/ Arrive(t) \/ Deliver(t)
      PROVE  ClientEvent(t)
  BY <1>4, StartEvents, CheckStoppedEvents, AbandonEvents, StartChildEvents, HandOffEvents,
     StartNextChildEvents, InCallbackEvents, FinishChildEvents, CompleteChildEvents,
     SetValueEvents, SetErrorEvents, EmplaceErrorEvents, SetStoppedEvents, ArriveEvents,
     DeliverEvents
<1>5. CASE \E t \in Threads : Step(t)
  BY <1>3, <1>4, <1>5 DEF Step
<1>6. CASE Done \/ UNCHANGED vars
  BY <1>6 DEF Done, vars, Stutter, SameOperation
<1> QED
  BY <1>1, <1>2, <1>5, <1>6 DEF Next
-----------------------------------------------------------------------------
(* The nesting is kept.                                                     *)

\* A call of request_stop goes on with the same source.
LEMMA FitsRequest ==
    ASSUME NEW t \in Threads, NEW s \in Sources, NEW f, NEW g,
           RequestFrame(f, s), RequestFrame(g, s), Fits(t, f)
    PROVE  Fits(t, g)
<1>1. f.at \in {"request_stop", "notify", "run", "ran", "relock"}
  BY DEF RequestFrame
<1>2. ASSUME Outermost(t, f) PROVE Outermost(t, g)
  <2>1. t = Stopper /\ RequestFrame(f, Outer)
    BY <1>1, <1>2 DEF Outermost, ChildFrame, ChildPoints
  <2>2. s = Outer
    BY <2>1, Constants, Registered DEF RequestFrame, CallbacksOf
  <2> QED
    BY <2>1, <2>2 DEF Outermost
<1>3. ASSUME NEW h, CalledFrom(f, h) PROVE CalledFrom(g, h)
  <2>1. /\ RequestFrame(f, Inner)
        /\ (h.at = "check" /\ h.of = OnStop) \/ h.at \in {"emplace", "arrive"} \/ (h.at = "ran" /\ h.of = OnStop)
    BY <1>1, <1>3 DEF CalledFrom, ChildFrame, ChildPoints, ConstructorPoints, DestructorPoints
  <2>2. s = Inner
    BY <2>1, Constants, Registered DEF RequestFrame, CallbacksOf
  <2> QED
    BY <2>1, <2>2 DEF CalledFrom
<1> QED
  BY <1>2, <1>3 DEF Fits

\* A constructor goes on with the same callback, and may execute it.
LEMMA FitsConstructor ==
    ASSUME NEW t \in Threads, NEW c, NEW q \in {"link", "callback"}, Fits(t, Frame("add", c))
    PROVE  Fits(t, Frame(q, c))
<1> DEFINE f == Frame("add", c)
           g == Frame(q, c)
<1>1. f.at = "add" /\ f.of = c /\ g.at \in {"link", "callback"} /\ g.of = c
  BY DEF Frame
<1>2. Fits(t, f)
  OBVIOUS
<1> HIDE DEF f, g
<1>3. ~Outermost(t, f)
  BY <1>1 DEF Outermost, ChildFrame, ChildPoints, RequestFrame
<1>4. ASSUME NEW h, CalledFrom(f, h) PROVE CalledFrom(g, h)
  <2>1. (h.at = "check" /\ h.of = OnStop /\ c = OnStop) \/ (h.at = "hand_off" /\ h.of \in Children /\ c = h.of)
    BY <1>1, <1>4
    DEF CalledFrom, ChildFrame, ChildPoints, ConstructorPoints, DestructorPoints, RequestFrame
  <2> QED
    BY <1>1, <2>1 DEF CalledFrom, ConstructorPoints
<1>5. Fits(t, g)
  BY <1>2, <1>3, <1>4 DEF Fits
<1> QED
  BY <1>5 DEF g

\* A destructor goes on with the same callback.
LEMMA FitsDestructor ==
    ASSUME NEW t \in Threads, NEW c, NEW p \in DestructorPoints, NEW q \in DestructorPoints,
           Fits(t, Frame(p, c))
    PROVE  Fits(t, Frame(q, c))
<1> DEFINE f == Frame(p, c)
           g == Frame(q, c)
<1>1. f.at \in DestructorPoints /\ f.of = c /\ g.at \in DestructorPoints /\ g.of = c
  BY DEF Frame
<1>2. Fits(t, f)
  OBVIOUS
<1> HIDE DEF f, g
<1>3. ~Outermost(t, f)
  BY <1>1 DEF Outermost, ChildFrame, ChildPoints, RequestFrame, DestructorPoints
<1>4. ASSUME NEW h, CalledFrom(f, h) PROVE CalledFrom(g, h)
  <2>1. \/ h.at \in {"abandon", "deliver"} /\ c = OnStop
        \/ h.at = "complete_child" /\ h.of \in Children /\ c = h.of
    BY <1>1, <1>4
    DEF CalledFrom, ChildFrame, ChildPoints, ConstructorPoints, DestructorPoints, RequestFrame
  <2> QED
    BY <1>1, <2>1 DEF CalledFrom
<1>5. Fits(t, g)
  BY <1>2, <1>3, <1>4 DEF Fits
<1> QED
  BY <1>5 DEF g

\* The completion of a child goes on with the same child.
LEMMA FitsChild ==
    ASSUME NEW t \in Threads, NEW c \in Children, NEW p \in ChildPoints, NEW q \in ChildPoints,
           Fits(t, Frame(p, c))
    PROVE  Fits(t, Frame(q, c))
<1> DEFINE f == Frame(p, c)
           g == Frame(q, c)
<1>1. f.at \in ChildPoints /\ f.of = c /\ g.at \in ChildPoints /\ g.of = c
  BY DEF Frame
<1>2. Fits(t, f)
  OBVIOUS
<1> HIDE DEF f, g
<1>3. ASSUME Outermost(t, f) PROVE Outermost(t, g)
  <2>1. t \in Children /\ c = t
    BY <1>1, <1>3 DEF Outermost, ChildPoints, RequestFrame
  <2> QED
    BY <1>1, <2>1 DEF Outermost, ChildFrame
<1>4. ASSUME NEW h, CalledFrom(f, h) PROVE CalledFrom(g, h)
  <2>1. (h.at = "started" /\ h.of = c) \/ (h.at = "ran" /\ h.of \in Children /\ h.of = c)
    BY <1>1, <1>4
    DEF CalledFrom, ChildFrame, ChildPoints, ConstructorPoints, DestructorPoints, RequestFrame
  <2> QED
    BY <1>1, <2>1 DEF CalledFrom, ChildFrame
<1>5. Fits(t, g)
  BY <1>2, <1>3, <1>4 DEF Fits
<1> QED
  BY <1>5 DEF g

\* The body of __on_stop_ goes on with the operation's own source.
LEMMA FitsForward ==
    ASSUME NEW t \in Threads, Fits(t, Frame("callback", OnStop))
    PROVE  Fits(t, Frame("request_stop", Inner))
<1> DEFINE f == Frame("callback", OnStop)
           g == Frame("request_stop", Inner)
<1>1. f.at = "callback" /\ f.of = OnStop /\ RequestFrame(g, Inner)
  BY DEF Frame, RequestFrame
<1>2. Fits(t, f)
  OBVIOUS
<1> HIDE DEF f, g
<1>3. ~Outermost(t, f)
  BY <1>1 DEF Outermost, ChildFrame, ChildPoints, RequestFrame
<1>4. ASSUME NEW h, CalledFrom(f, h) PROVE CalledFrom(g, h)
  <2>1. h.at \in {"check", "ran"} /\ h.of = OnStop
    BY <1>1, <1>4, Constants
    DEF CalledFrom, ChildFrame, ChildPoints, ConstructorPoints, DestructorPoints, RequestFrame
  <2> QED
    BY <1>1, <2>1 DEF CalledFrom
<1>5. Fits(t, g)
  BY <1>2, <1>3, <1>4 DEF Fits
<1> QED
  BY <1>5 DEF g

\* The stop callback of a child that is handed off completes it in the run.
LEMMA FitsFinish ==
    ASSUME TypeOK, Nested, Chain, NEW t \in Threads, NEW c \in Children, stack[t] # <<>>,
           Top(t) = Frame("callback", c), owner[c] = "undecided"
    PROVE  Fits(t, Frame("finish_child", c))
<1> DEFINE f == Frame("callback", c)
           g == Frame("finish_child", c)
<1>1. f.at = "callback" /\ f.of = c /\ ChildFrame(g) /\ g.of = c
  BY DEF Frame, ChildFrame, ChildPoints
<1>2. Fits(t, f)
  BY TopKnown DEF TypeOK, Stacks
<1> HIDE DEF f, g
<1>3. ~Outermost(t, f)
  BY <1>1 DEF Outermost, ChildFrame, ChildPoints, RequestFrame
<1> DEFINE n == Len(stack[t])
           h == stack[t][n - 1]
<1>4. n # 1 /\ CalledFrom(f, h)
  BY <1>2, <1>3 DEF Fits
<1>5. n - 1 \in DOMAIN stack[t]
  <2>1. stack \in [Threads -> Seq(Frames)]
    BY DEF TypeOK
  <2>2. /\ Len(stack[t]) \in Nat /\ DOMAIN stack[t] = 1 .. Len(stack[t])
        /\ stack[t] = <<>> <=> Len(stack[t]) = 0
    BY <2>1, StackShape
  <2>3. n \in Nat /\ n # 0 /\ DOMAIN stack[t] = 1 .. n
    BY <2>2
  <2> HIDE DEF n
  <2> QED
    BY <1>4, <2>3
<1>6. ChainFrameSound(h) /\ h \in Frames
  BY <1>5, StackShape DEF Chain, TypeOK
<1> HIDE DEF n, h
<1>7. (h.at = "ran" /\ h.of = c) \/ (h.at = "hand_off" /\ h.of = c)
  BY <1>1, <1>4, Constants
  DEF CalledFrom, ChildFrame, ChildPoints, ConstructorPoints, DestructorPoints, RequestFrame
<1>8. h.at # "hand_off"
  BY <1>6, <1>7, Constants DEF ChainFrameSound
<1>9. CalledFrom(g, h)
  BY <1>1, <1>7, <1>8 DEF CalledFrom
<1>10. Fits(t, g)
  BY <1>4, <1>9 DEF Fits, n, h
<1> QED
  BY <1>10 DEF g
\* The frames of a call of request_stop.
LEMMA RequestIs ==
    ASSUME NEW s \in Sources
    PROVE  /\ \A p \in {"request_stop", "notify"} : RequestFrame(Frame(p, s), s)
           /\ \A c \in CallbacksOf(s), p \in {"run", "ran", "relock"} : RequestFrame(Frame(p, c), s)
  BY DEF RequestFrame, Frame

\* request_stop.
LEMMA RequestStopNested ==
    ASSUME TypeOK, Nested, Chain, NEW t \in Threads, RequestStop(t)
    PROVE  NestedFrames'
<1> DEFINE s == Of(t)
<1>1. At(t, "request_stop")
  BY DEF RequestStop
<1>2. s \in Sources /\ Top1(t, "request_stop", s) /\ s = Top(t).of
  BY <1>1, RequestTop
<1>3. Stacks /\ NestedFrames /\ stack[t] # <<>> /\ Fits(t, Frame("request_stop", s)) /\ Of(t) = s
  BY <1>1, <1>2, TopKnown, TopFrame DEF TypeOK, Stacks, Nested, Top1
<1>4. CASE Return(t)
  BY <1>3, <1>4, ReturnNested
<1>5. CASE Become(t, Frame("notify", s))
  <2>1. Frame("notify", s) \in Frames
    BY <1>2, MakeFrame, StopPoints, ClientPoints, Constants, ChildOrderSound
  <2>2. Fits(t, Frame("notify", s))
    BY <1>2, <1>3, FitsRequest, RequestIs
  <2> QED
    BY <1>3, <1>5, <2>1, <2>2, BecomeNested
<1> QED
  BY <1>3, <1>4, <1>5 DEF RequestStop, Goto

\* The head of its loop.
LEMMA NotifyNextNested ==
    ASSUME TypeOK, Nested, Chain, NEW t \in Threads, NotifyNext(t)
    PROVE  NestedFrames'
<1> DEFINE s == Of(t)
<1>1. At(t, "notify")
  BY DEF NotifyNext
<1>2. s \in Sources /\ Top1(t, "notify", s) /\ s = Top(t).of
  BY <1>1, RequestTop
<1>3. Stacks /\ NestedFrames /\ stack[t] # <<>> /\ Fits(t, Frame("notify", s)) /\ Of(t) = s
  BY <1>1, <1>2, TopKnown, TopFrame DEF TypeOK, Stacks, Nested, Top1
<1>4. CASE Return(t)
  BY <1>3, <1>4, ReturnNested
<1>5. ASSUME src[s].callbacks # <<>>, Become(t, Frame("run", Head(src[s].callbacks)))
      PROVE  NestedFrames'
  <2>0. src[s].callbacks \in Seq(CallbacksOf(s))
    BY <1>2 DEF TypeOK
  <2>1. PICK c \in CallbacksOf(s) : c = Head(src[s].callbacks)
    BY <1>5, <2>0
  <2>2. Frame("run", c) \in Frames
    BY <1>2, <2>1, Registered, MakeFrame, StopPoints
  <2>3. Fits(t, Frame("run", c))
    BY <1>2, <1>3, FitsRequest, RequestIs
  <2> QED
    BY <1>3, <1>5, <2>1, <2>2, <2>3, BecomeNested
<1> QED
  BY <1>3, <1>4, <1>5 DEF NotifyNext

\* Running a callback.
LEMMA RunCallbackNested ==
    ASSUME TypeOK, Nested, Chain, NEW t \in Threads, RunCallback(t)
    PROVE  NestedFrames'
<1> DEFINE c == Of(t)
           s == SourceOf[c]
<1>1. At(t, "run")
  BY DEF RunCallback
<1>2. /\ c \in Callbacks /\ Top1(t, "run", c) /\ c = Top(t).of
      /\ s \in Sources /\ c \in CallbacksOf(s)
  BY <1>1, CallbackTop
<1>3. Stacks /\ NestedFrames /\ stack[t] # <<>> /\ Fits(t, Frame("run", c)) /\ Of(t) = c
  BY <1>1, <1>2, TopKnown, TopFrame DEF TypeOK, Stacks, Nested, Top1
<1>4. CASE Call(t, Frame("callback", c), "ran")
  <2>1. Frame("callback", c) \in Frames /\ "ran" \in Points /\ Top(t).of = c
    BY <1>2, MakeFrame, StopPoints, ClientPoints, Constants
  <2>2. Fits(t, Frame("ran", c))
    BY <1>2, <1>3, FitsRequest, RequestIs
  <2>3. CalledFrom(Frame("callback", c), Frame("ran", c))
    BY <1>2, Constants DEF CalledFrom, Frame, RequestFrame, ChildFrame, ChildPoints, ConstructorPoints,
       DestructorPoints
  <2> QED
    BY <1>3, <1>4, <2>1, <2>2, <2>3, CallNested
<1> QED
  BY <1>3, <1>4 DEF RunCallback

\* After it.
LEMMA CallbackRanNested ==
    ASSUME TypeOK, Nested, Chain, NEW t \in Threads, CallbackRan(t)
    PROVE  NestedFrames'
<1> DEFINE c == Of(t)
           s == SourceOf[c]
<1>1. At(t, "ran")
  BY DEF CallbackRan
<1>2. /\ c \in Callbacks /\ Top1(t, "ran", c) /\ c = Top(t).of
      /\ s \in Sources /\ c \in CallbacksOf(s)
  BY <1>1, CallbackTop
<1>3. Stacks /\ NestedFrames /\ stack[t] # <<>> /\ Fits(t, Frame("ran", c)) /\ Of(t) = c
  BY <1>1, <1>2, TopKnown, TopFrame DEF TypeOK, Stacks, Nested, Top1
<1>4. CASE Become(t, Frame("relock", c))
  <2>1. Frame("relock", c) \in Frames
    BY <1>2, MakeFrame, StopPoints, ClientPoints, Constants, ChildOrderSound
  <2>2. Fits(t, Frame("relock", c))
    BY <1>2, <1>3, FitsRequest, RequestIs
  <2> QED
    BY <1>3, <1>4, <2>1, <2>2, BecomeNested
<1> QED
  BY <1>3, <1>4 DEF CallbackRan, Goto

\* The end of the loop's body.
LEMMA RelockNested ==
    ASSUME TypeOK, Nested, Chain, NEW t \in Threads, Relock(t)
    PROVE  NestedFrames'
<1> DEFINE c == Of(t)
           s == SourceOf[c]
<1>1. At(t, "relock")
  BY DEF Relock
<1>2. /\ c \in Callbacks /\ Top1(t, "relock", c) /\ c = Top(t).of
      /\ s \in Sources /\ c \in CallbacksOf(s)
  BY <1>1, CallbackTop
<1>3. Stacks /\ NestedFrames /\ stack[t] # <<>> /\ Fits(t, Frame("relock", c)) /\ Of(t) = c
  BY <1>1, <1>2, TopKnown, TopFrame DEF TypeOK, Stacks, Nested, Top1
<1>4. CASE Become(t, Frame("notify", s))
  <2>1. Frame("notify", s) \in Frames
    BY <1>2, MakeFrame, StopPoints, ClientPoints, Constants, ChildOrderSound
  <2>2. Fits(t, Frame("notify", s))
    BY <1>2, <1>3, FitsRequest, RequestIs
  <2> QED
    BY <1>3, <1>4, <2>1, <2>2, BecomeNested
<1> QED
  BY <1>3, <1>4 DEF Relock

\* The constructor.
LEMMA TryAddCallbackNested ==
    ASSUME TypeOK, Nested, Chain, NEW t \in Threads, TryAddCallback(t)
    PROVE  NestedFrames'
<1> DEFINE c == Of(t)
           s == SourceOf[c]
<1>1. At(t, "add")
  BY DEF TryAddCallback
<1>2. /\ c \in Callbacks /\ Top1(t, "add", c) /\ c = Top(t).of
      /\ s \in Sources /\ c \in CallbacksOf(s)
  BY <1>1, CallbackTop
<1>3. Stacks /\ NestedFrames /\ stack[t] # <<>> /\ Fits(t, Frame("add", c)) /\ Of(t) = c
  BY <1>1, <1>2, TopKnown, TopFrame DEF TypeOK, Stacks, Nested, Top1
<1>4. CASE Become(t, Frame("callback", c))
  <2>1. Frame("callback", c) \in Frames
    BY <1>2, MakeFrame, StopPoints, ClientPoints, Constants, ChildOrderSound
  <2>2. Fits(t, Frame("callback", c))
    BY <1>3, FitsConstructor
  <2> QED
    BY <1>3, <1>4, <2>1, <2>2, BecomeNested
<1>5. CASE Become(t, Frame("link", c))
  <2>1. Frame("link", c) \in Frames
    BY <1>2, MakeFrame, StopPoints, ClientPoints, Constants, ChildOrderSound
  <2>2. Fits(t, Frame("link", c))
    BY <1>3, FitsConstructor
  <2> QED
    BY <1>3, <1>5, <2>1, <2>2, BecomeNested
<1> QED
  BY <1>3, <1>4, <1>5 DEF TryAddCallback, Goto

\* Linking the callback.
LEMMA LinkCallbackNested ==
    ASSUME TypeOK, Nested, Chain, NEW t \in Threads, LinkCallback(t)
    PROVE  NestedFrames'
<1> DEFINE c == Of(t)
           s == SourceOf[c]
<1>1. At(t, "link")
  BY DEF LinkCallback
<1>2. /\ c \in Callbacks /\ Top1(t, "link", c) /\ c = Top(t).of
      /\ s \in Sources /\ c \in CallbacksOf(s)
  BY <1>1, CallbackTop
<1>3. Stacks /\ NestedFrames /\ stack[t] # <<>> /\ Fits(t, Frame("link", c)) /\ Of(t) = c
  BY <1>1, <1>2, TopKnown, TopFrame DEF TypeOK, Stacks, Nested, Top1
<1>4. CASE Return(t)
  BY <1>3, <1>4, ReturnNested
<1> QED
  BY <1>3, <1>4 DEF LinkCallback

\* The destructor.
LEMMA RemoveCallbackNested ==
    ASSUME TypeOK, Nested, Chain, NEW t \in Threads, RemoveCallback(t)
    PROVE  NestedFrames'
<1> DEFINE c == Of(t)
           s == SourceOf[c]
<1>1. At(t, "remove")
  BY DEF RemoveCallback
<1>2. /\ c \in Callbacks /\ Top1(t, "remove", c) /\ c = Top(t).of
      /\ s \in Sources /\ c \in CallbacksOf(s)
  BY <1>1, CallbackTop
<1>3. Stacks /\ NestedFrames /\ stack[t] # <<>> /\ Fits(t, Frame("remove", c)) /\ Of(t) = c
  BY <1>1, <1>2, TopKnown, TopFrame DEF TypeOK, Stacks, Nested, Top1
<1>4. CASE Return(t)
  BY <1>3, <1>4, ReturnNested
<1>5. CASE Become(t, Frame("unlink", c))
  <2>1. Frame("unlink", c) \in Frames
    BY <1>2, MakeFrame, StopPoints, ClientPoints, Constants, ChildOrderSound
  <2>2. Fits(t, Frame("unlink", c))
    BY <1>3, FitsDestructor DEF DestructorPoints
  <2> QED
    BY <1>3, <1>5, <2>1, <2>2, BecomeNested
<1> QED
  BY <1>3, <1>4, <1>5 DEF RemoveCallback, Goto

\* Its branches under the lock.
LEMMA UnlinkCallbackNested ==
    ASSUME TypeOK, Nested, Chain, NEW t \in Threads, UnlinkCallback(t)
    PROVE  NestedFrames'
<1> DEFINE c == Of(t)
           s == SourceOf[c]
<1>1. At(t, "unlink")
  BY DEF UnlinkCallback
<1>2. /\ c \in Callbacks /\ Top1(t, "unlink", c) /\ c = Top(t).of
      /\ s \in Sources /\ c \in CallbacksOf(s)
  BY <1>1, CallbackTop
<1>3. Stacks /\ NestedFrames /\ stack[t] # <<>> /\ Fits(t, Frame("unlink", c)) /\ Of(t) = c
  BY <1>1, <1>2, TopKnown, TopFrame DEF TypeOK, Stacks, Nested, Top1
<1>4. CASE Return(t)
  BY <1>3, <1>4, ReturnNested
<1>5. CASE Become(t, Frame("await", c))
  <2>1. Frame("await", c) \in Frames
    BY <1>2, MakeFrame, StopPoints, ClientPoints, Constants, ChildOrderSound
  <2>2. Fits(t, Frame("await", c))
    BY <1>3, FitsDestructor DEF DestructorPoints
  <2> QED
    BY <1>3, <1>5, <2>1, <2>2, BecomeNested
<1> QED
  BY <1>3, <1>4, <1>5 DEF UnlinkCallback, Goto

\* Waiting for the end of the run.
LEMMA AwaitCallbackNested ==
    ASSUME TypeOK, Nested, Chain, NEW t \in Threads, AwaitCallback(t)
    PROVE  NestedFrames'
<1> DEFINE c == Of(t)
           s == SourceOf[c]
<1>1. At(t, "await")
  BY DEF AwaitCallback
<1>2. /\ c \in Callbacks /\ Top1(t, "await", c) /\ c = Top(t).of
      /\ s \in Sources /\ c \in CallbacksOf(s)
  BY <1>1, CallbackTop
<1>3. Stacks /\ NestedFrames /\ stack[t] # <<>> /\ Fits(t, Frame("await", c)) /\ Of(t) = c
  BY <1>1, <1>2, TopKnown, TopFrame DEF TypeOK, Stacks, Nested, Top1
<1>4. CASE Return(t)
  BY <1>3, <1>4, ReturnNested
<1>5. CASE stack' = stack
  BY <1>3, <1>5 DEF NestedFrames
<1> QED
  BY <1>3, <1>4, <1>5 DEF AwaitCallback

\* start.
LEMMA StartNested ==
    ASSUME TypeOK, Nested, Chain, NEW t \in Threads, Start(t)
    PROVE  NestedFrames'
<1>1. At(t, "start")
  BY DEF Start
<1>2. OnStop \in Callbacks /\ Top1(t, "start", OnStop) /\ OnStop = Top(t).of
  BY <1>1, StartTop
<1>3. Stacks /\ NestedFrames /\ stack[t] # <<>> /\ Fits(t, Frame("start", OnStop)) /\ Of(t) = OnStop
  BY <1>1, <1>2, TopKnown, TopFrame DEF TypeOK, Stacks, Nested, Top1
<1>0. t = Starter /\ Len(stack[t]) = 1
  <2>1. Known(t, Len(stack[t]), Top(t)) /\ Top(t).at \in StartPoints
    BY <1>2, <1>3, TopKnown DEF Top1, Frame, StartPoints, Nested, NestedFrames
  <2> QED
    BY <2>1 DEF Known
<1>4. CASE Call(t, Frame("add", OnStop), "check")
  <2>1. Frame("add", OnStop) \in Frames /\ "check" \in Points /\ Top(t).of = OnStop
    BY <1>2, MakeFrame, StopPoints, ClientPoints, Constants
  <2>2. Fits(t, Frame("check", OnStop))
    BY <1>0, <1>2, ChildOrderSound DEF Fits, Outermost, Frame
  <2>3. CalledFrom(Frame("add", OnStop), Frame("check", OnStop))
    BY <1>2 DEF CalledFrom, Frame, RequestFrame, ChildFrame, ChildPoints, ConstructorPoints,
       DestructorPoints
  <2> QED
    BY <1>3, <1>4, <2>1, <2>2, <2>3, CallNested
<1>5. CASE Become(t, Frame("check", OnStop))
  <2>1. Frame("check", OnStop) \in Frames
    BY <1>2, MakeFrame, StopPoints, ClientPoints, Constants, ChildOrderSound
  <2>2. Fits(t, Frame("check", OnStop))
    BY <1>0, <1>2, ChildOrderSound DEF Fits, Outermost, Frame
  <2> QED
    BY <1>3, <1>5, <2>1, <2>2, BecomeNested
<1> QED
  BY <1>3, <1>4, <1>5 DEF Start, Goto

\* start: the early stop.
LEMMA CheckStoppedNested ==
    ASSUME TypeOK, Nested, Chain, NEW t \in Threads, CheckStopped(t)
    PROVE  NestedFrames'
<1>1. At(t, "check")
  BY DEF CheckStopped
<1>2. OnStop \in Callbacks /\ Top1(t, "check", OnStop) /\ OnStop = Top(t).of
  BY <1>1, StartTop
<1>3. Stacks /\ NestedFrames /\ stack[t] # <<>> /\ Fits(t, Frame("check", OnStop)) /\ Of(t) = OnStop
  BY <1>1, <1>2, TopKnown, TopFrame DEF TypeOK, Stacks, Nested, Top1
<1>0. t = Starter /\ Len(stack[t]) = 1
  <2>1. Known(t, Len(stack[t]), Top(t)) /\ Top(t).at \in StartPoints
    BY <1>2, <1>3, TopKnown DEF Top1, Frame, StartPoints, Nested, NestedFrames
  <2> QED
    BY <2>1 DEF Known
<1>4. CASE Call(t, Frame("remove", OnStop), "abandon")
  <2>1. Frame("remove", OnStop) \in Frames /\ "abandon" \in Points /\ Top(t).of = OnStop
    BY <1>2, MakeFrame, StopPoints, ClientPoints, Constants
  <2>2. Fits(t, Frame("abandon", OnStop))
    BY <1>0, <1>2, ChildOrderSound DEF Fits, Outermost, Frame
  <2>3. CalledFrom(Frame("remove", OnStop), Frame("abandon", OnStop))
    BY <1>2 DEF CalledFrom, Frame, RequestFrame, ChildFrame, ChildPoints, ConstructorPoints,
       DestructorPoints
  <2> QED
    BY <1>3, <1>4, <2>1, <2>2, <2>3, CallNested
<1>5. CASE Become(t, Frame("start_child", ChildOrder[1]))
  <2>1. Frame("start_child", ChildOrder[1]) \in Frames
    BY <1>2, MakeFrame, StopPoints, ClientPoints, Constants, ChildOrderSound
  <2>2. Fits(t, Frame("start_child", ChildOrder[1]))
    BY <1>0, <1>2, ChildOrderSound DEF Fits, Outermost, Frame
  <2> QED
    BY <1>3, <1>5, <2>1, <2>2, BecomeNested
<1> QED
  BY <1>3, <1>4, <1>5 DEF CheckStopped

\* start: the completion of an operation stopped early.
LEMMA AbandonNested ==
    ASSUME TypeOK, Nested, Chain, NEW t \in Threads, Abandon(t)
    PROVE  NestedFrames'
<1>1. At(t, "abandon")
  BY DEF Abandon
<1>2. OnStop \in Callbacks /\ Top1(t, "abandon", OnStop) /\ OnStop = Top(t).of
  BY <1>1, StartTop
<1>3. Stacks /\ NestedFrames /\ stack[t] # <<>> /\ Fits(t, Frame("abandon", OnStop)) /\ Of(t) = OnStop
  BY <1>1, <1>2, TopKnown, TopFrame DEF TypeOK, Stacks, Nested, Top1
<1>0. t = Starter /\ Len(stack[t]) = 1
  <2>1. Known(t, Len(stack[t]), Top(t)) /\ Top(t).at \in StartPoints
    BY <1>2, <1>3, TopKnown DEF Top1, Frame, StartPoints, Nested, NestedFrames
  <2> QED
    BY <2>1 DEF Known
<1>4. CASE Return(t)
  BY <1>3, <1>4, ReturnNested
<1> QED
  BY <1>3, <1>4 DEF Abandon

\* Starting a child.
LEMMA StartChildNested ==
    ASSUME TypeOK, Nested, Chain, NEW t \in Threads, StartChild(t)
    PROVE  NestedFrames'
<1> DEFINE c == Of(t)
<1>1. At(t, "start_child")
  BY DEF StartChild
<1>2. c \in Callbacks /\ c \in Children /\ Top1(t, "start_child", c) /\ c = Top(t).of
  BY <1>1, ChildTop DEF ChainPoints, ChildPoints
<1>3. Stacks /\ NestedFrames /\ stack[t] # <<>> /\ Fits(t, Frame("start_child", c)) /\ Of(t) = c
  BY <1>1, <1>2, TopKnown, TopFrame DEF TypeOK, Stacks, Nested, Top1
<1>0. t = Starter /\ Len(stack[t]) = 1
  <2>1. Known(t, Len(stack[t]), Top(t)) /\ Top(t).at \in StartPoints
    BY <1>2, <1>3, TopKnown DEF Top1, Frame, StartPoints, Nested, NestedFrames
  <2> QED
    BY <2>1 DEF Known
<1>4. ASSUME NEW signal \in Signals, Call(t, Frame(signal, c), "started")
      PROVE  NestedFrames'
  <2>1. Frame(signal, c) \in Frames /\ "started" \in Points /\ Top(t).of = c
    BY <1>2, MakeFrame, ClientPoints DEF Signals
  <2>2. Fits(t, Frame("started", c))
    BY <1>0, <1>2 DEF Fits, Outermost, Frame
  <2>3. CalledFrom(Frame(signal, c), Frame("started", c))
    BY <1>2 DEF CalledFrom, Frame, ChildFrame, ChildPoints, Signals
  <2> QED
    BY <1>3, <1>4, <2>1, <2>2, <2>3, CallNested
<1>5. CASE Call(t, Frame("add", c), "hand_off")
  <2>1. Frame("add", c) \in Frames /\ "hand_off" \in Points /\ Top(t).of = c
    BY <1>2, MakeFrame, StopPoints, ClientPoints, Constants
  <2>2. Fits(t, Frame("hand_off", c))
    BY <1>0, <1>2, ChildOrderSound DEF Fits, Outermost, Frame
  <2>3. CalledFrom(Frame("add", c), Frame("hand_off", c))
    BY <1>2 DEF CalledFrom, Frame, RequestFrame, ChildFrame, ChildPoints, ConstructorPoints,
       DestructorPoints
  <2> QED
    BY <1>3, <1>5, <2>1, <2>2, <2>3, CallNested
<1> QED
  BY <1>3, <1>4, <1>5 DEF StartChild, Signals

\* Handing it off.
LEMMA HandOffNested ==
    ASSUME TypeOK, Nested, Chain, NEW t \in Threads, HandOff(t)
    PROVE  NestedFrames'
<1> DEFINE c == Of(t)
<1>1. At(t, "hand_off")
  BY DEF HandOff
<1>2. c \in Callbacks /\ c \in Children /\ Top1(t, "hand_off", c) /\ c = Top(t).of
  BY <1>1, ChildTop DEF ChainPoints, ChildPoints
<1>3. Stacks /\ NestedFrames /\ stack[t] # <<>> /\ Fits(t, Frame("hand_off", c)) /\ Of(t) = c
  BY <1>1, <1>2, TopKnown, TopFrame DEF TypeOK, Stacks, Nested, Top1
<1>0. t = Starter /\ Len(stack[t]) = 1
  <2>1. Known(t, Len(stack[t]), Top(t)) /\ Top(t).at \in StartPoints
    BY <1>2, <1>3, TopKnown DEF Top1, Frame, StartPoints, Nested, NestedFrames
  <2> QED
    BY <2>1 DEF Known
<1>4. CASE Call(t, Frame("finish_child", c), "started")
  <2>1. Frame("finish_child", c) \in Frames /\ "started" \in Points /\ Top(t).of = c
    BY <1>2, MakeFrame, StopPoints, ClientPoints, Constants
  <2>2. Fits(t, Frame("started", c))
    BY <1>0, <1>2, ChildOrderSound DEF Fits, Outermost, Frame
  <2>3. CalledFrom(Frame("finish_child", c), Frame("started", c))
    BY <1>2 DEF CalledFrom, Frame, RequestFrame, ChildFrame, ChildPoints, ConstructorPoints,
       DestructorPoints
  <2> QED
    BY <1>3, <1>4, <2>1, <2>2, <2>3, CallNested
<1>5. CASE Become(t, Frame("started", c))
  <2>1. Frame("started", c) \in Frames
    BY <1>2, MakeFrame, StopPoints, ClientPoints, Constants, ChildOrderSound
  <2>2. Fits(t, Frame("started", c))
    BY <1>0, <1>2, ChildOrderSound DEF Fits, Outermost, Frame
  <2> QED
    BY <1>3, <1>5, <2>1, <2>2, BecomeNested
<1> QED
  BY <1>3, <1>4, <1>5 DEF HandOff, Goto

\* __start_all: the next child.
LEMMA StartNextChildNested ==
    ASSUME TypeOK, Nested, Chain, NEW t \in Threads, StartNextChild(t)
    PROVE  NestedFrames'
<1> DEFINE c == Of(t)
<1>1. At(t, "started")
  BY DEF StartNextChild
<1>2. c \in Callbacks /\ c \in Children /\ Top1(t, "started", c) /\ c = Top(t).of
  BY <1>1, ChildTop DEF ChainPoints, ChildPoints
<1>3. Stacks /\ NestedFrames /\ stack[t] # <<>> /\ Fits(t, Frame("started", c)) /\ Of(t) = c
  BY <1>1, <1>2, TopKnown, TopFrame DEF TypeOK, Stacks, Nested, Top1
<1>0. t = Starter /\ Len(stack[t]) = 1
  <2>1. Known(t, Len(stack[t]), Top(t)) /\ Top(t).at \in StartPoints
    BY <1>2, <1>3, TopKnown DEF Top1, Frame, StartPoints, Nested, NestedFrames
  <2> QED
    BY <2>1 DEF Known
<1>4. CASE Return(t)
  BY <1>3, <1>4, ReturnNested
<1>5. ASSUME NEW i \in DOMAIN ChildOrder, i # Len(ChildOrder),
             Become(t, Frame("start_child", ChildOrder[i + 1]))
      PROVE  NestedFrames'
  <2>0. ChildOrder[i + 1] \in Children
    BY <1>5, ChildOrderSound
  <2>1. Frame("start_child", ChildOrder[i + 1]) \in Frames
    BY <2>0, MakeFrame, ClientPoints, Constants
  <2>2. Fits(t, Frame("start_child", ChildOrder[i + 1]))
    BY <1>0, <2>0 DEF Fits, Outermost, Frame
  <2> QED
    BY <1>3, <1>5, <2>1, <2>2, BecomeNested
<1>6. \E k \in DOMAIN ChildOrder : ChildOrder[k] = c
  BY <1>2, ChildOrderSound
<1> QED
  BY <1>4, <1>5, <1>6 DEF StartNextChild

\* The body of a stop callback.
LEMMA InCallbackNested ==
    ASSUME TypeOK, Nested, Chain, NEW t \in Threads, InCallback(t)
    PROVE  NestedFrames'
<1> DEFINE c == Of(t)
           s == SourceOf[c]
<1>1. At(t, "callback")
  BY DEF InCallback
<1>2. /\ c \in Callbacks /\ Top1(t, "callback", c) /\ c = Top(t).of
      /\ s \in Sources /\ c \in CallbacksOf(s)
  BY <1>1, CallbackTop
<1>3. Stacks /\ NestedFrames /\ stack[t] # <<>> /\ Fits(t, Frame("callback", c)) /\ Of(t) = c
  BY <1>1, <1>2, TopKnown, TopFrame DEF TypeOK, Stacks, Nested, Top1
<1>4. CASE Return(t)
  BY <1>3, <1>4, ReturnNested
<1>5. ASSUME c = OnStop, Become(t, Frame("request_stop", Inner))
      PROVE  NestedFrames'
  <2>1. Frame("request_stop", Inner) \in Frames
    BY Constants, MakeFrame, StopPoints
  <2>2. Fits(t, Frame("request_stop", Inner))
    BY <1>3, <1>5, FitsForward
  <2> QED
    BY <1>3, <1>5, <2>1, <2>2, BecomeNested
<1>6. ASSUME c # OnStop, owner[c] = "undecided", Become(t, Frame("finish_child", c))
      PROVE  NestedFrames'
  <2>1. Frame("finish_child", c) \in Frames /\ c \in Children
    BY <1>2, <1>6, Constants, MakeFrame, ClientPoints
  <2>2. Fits(t, Frame("finish_child", c))
    BY <1>2, <1>3, <1>6, <2>1, FitsFinish DEF Top1
  <2> QED
    BY <1>3, <1>6, <2>1, <2>2, BecomeNested
<1> QED
  BY <1>3, <1>4, <1>5, <1>6 DEF InCallback

\* The end of a child.
LEMMA FinishChildNested ==
    ASSUME TypeOK, Nested, Chain, NEW t \in Threads, FinishChild(t)
    PROVE  NestedFrames'
<1> DEFINE c == Of(t)
<1>1. At(t, "finish_child")
  BY DEF FinishChild
<1>2. c \in Callbacks /\ c \in Children /\ Top1(t, "finish_child", c) /\ c = Top(t).of
  BY <1>1, ChildTop DEF ChainPoints, ChildPoints
<1>3. Stacks /\ NestedFrames /\ stack[t] # <<>> /\ Fits(t, Frame("finish_child", c)) /\ Of(t) = c
  BY <1>1, <1>2, TopKnown, TopFrame DEF TypeOK, Stacks, Nested, Top1
<1>4. CASE Call(t, Frame("remove", c), "complete_child")
  <2>1. Frame("remove", c) \in Frames /\ "complete_child" \in Points /\ Top(t).of = c
    BY <1>2, MakeFrame, StopPoints, ClientPoints, Constants
  <2>2. Fits(t, Frame("complete_child", c))
    BY <1>2, <1>3, FitsChild DEF ChildPoints
  <2>3. CalledFrom(Frame("remove", c), Frame("complete_child", c))
    BY <1>2 DEF CalledFrom, Frame, RequestFrame, ChildFrame, ChildPoints, ConstructorPoints,
       DestructorPoints
  <2> QED
    BY <1>3, <1>4, <2>1, <2>2, <2>3, CallNested
<1> QED
  BY <1>3, <1>4 DEF FinishChild

\* Its signal.
LEMMA CompleteChildNested ==
    ASSUME TypeOK, Nested, Chain, NEW t \in Threads, CompleteChild(t)
    PROVE  NestedFrames'
<1> DEFINE c == Of(t)
<1>1. At(t, "complete_child")
  BY DEF CompleteChild
<1>2. c \in Callbacks /\ c \in Children /\ Top1(t, "complete_child", c) /\ c = Top(t).of
  BY <1>1, ChildTop DEF ChainPoints, ChildPoints
<1>3. Stacks /\ NestedFrames /\ stack[t] # <<>> /\ Fits(t, Frame("complete_child", c)) /\ Of(t) = c
  BY <1>1, <1>2, TopKnown, TopFrame DEF TypeOK, Stacks, Nested, Top1
<1>4. ASSUME NEW signal \in Signals, Goto(t, signal)
      PROVE  NestedFrames'
  <2>1. Frame(signal, c) \in Frames
    BY <1>2, MakeFrame, ClientPoints DEF Signals
  <2>2. Fits(t, Frame(signal, c))
    BY <1>2, <1>3, FitsChild DEF ChildPoints, Signals
  <2> QED
    BY <1>3, <1>4, <2>1, <2>2, BecomeNested DEF Goto
<1> QED
  BY <1>3, <1>4 DEF CompleteChild, Signals

\* set_value.
LEMMA SetValueNested ==
    ASSUME TypeOK, Nested, Chain, NEW t \in Threads, SetValue(t)
    PROVE  NestedFrames'
<1> DEFINE c == Of(t)
<1>1. At(t, "set_value")
  BY DEF SetValue
<1>2. c \in Callbacks /\ c \in Children /\ Top1(t, "set_value", c) /\ c = Top(t).of
  BY <1>1, ChildTop DEF ChainPoints, ChildPoints
<1>3. Stacks /\ NestedFrames /\ stack[t] # <<>> /\ Fits(t, Frame("set_value", c)) /\ Of(t) = c
  BY <1>1, <1>2, TopKnown, TopFrame DEF TypeOK, Stacks, Nested, Top1
<1>4. CASE Become(t, Frame("arrive", c))
  <2>1. Frame("arrive", c) \in Frames
    BY <1>2, MakeFrame, StopPoints, ClientPoints, Constants, ChildOrderSound
  <2>2. Fits(t, Frame("arrive", c))
    BY <1>2, <1>3, FitsChild DEF ChildPoints
  <2> QED
    BY <1>3, <1>4, <2>1, <2>2, BecomeNested
<1>5. CASE Become(t, Frame("set_error", c))
  <2>1. Frame("set_error", c) \in Frames
    BY <1>2, MakeFrame, StopPoints, ClientPoints, Constants, ChildOrderSound
  <2>2. Fits(t, Frame("set_error", c))
    BY <1>2, <1>3, FitsChild DEF ChildPoints
  <2> QED
    BY <1>3, <1>5, <2>1, <2>2, BecomeNested
<1> QED
  BY <1>3, <1>4, <1>5 DEF SetValue, Goto

\* set_error.
LEMMA SetErrorNested ==
    ASSUME TypeOK, Nested, Chain, NEW t \in Threads, SetError(t)
    PROVE  NestedFrames'
<1> DEFINE c == Of(t)
<1>1. At(t, "set_error")
  BY DEF SetError
<1>2. c \in Callbacks /\ c \in Children /\ Top1(t, "set_error", c) /\ c = Top(t).of
  BY <1>1, ChildTop DEF ChainPoints, ChildPoints
<1>3. Stacks /\ NestedFrames /\ stack[t] # <<>> /\ Fits(t, Frame("set_error", c)) /\ Of(t) = c
  BY <1>1, <1>2, TopKnown, TopFrame DEF TypeOK, Stacks, Nested, Top1
<1>4. CASE Become(t, Frame("arrive", c))
  <2>1. Frame("arrive", c) \in Frames
    BY <1>2, MakeFrame, StopPoints, ClientPoints, Constants, ChildOrderSound
  <2>2. Fits(t, Frame("arrive", c))
    BY <1>2, <1>3, FitsChild DEF ChildPoints
  <2> QED
    BY <1>3, <1>4, <2>1, <2>2, BecomeNested
<1>5. CASE Call(t, Frame("request_stop", Inner), "emplace")
  <2>1. Frame("request_stop", Inner) \in Frames /\ "emplace" \in Points /\ Top(t).of = c
    BY <1>2, MakeFrame, StopPoints, ClientPoints, Constants
  <2>2. Fits(t, Frame("emplace", c))
    BY <1>2, <1>3, FitsChild DEF ChildPoints
  <2>3. CalledFrom(Frame("request_stop", Inner), Frame("emplace", c))
    BY <1>2 DEF CalledFrom, Frame, RequestFrame, ChildFrame, ChildPoints, ConstructorPoints,
       DestructorPoints
  <2> QED
    BY <1>3, <1>5, <2>1, <2>2, <2>3, CallNested
<1> QED
  BY <1>3, <1>4, <1>5 DEF SetError, Goto

\* Storing the error.
LEMMA EmplaceErrorNested ==
    ASSUME TypeOK, Nested, Chain, NEW t \in Threads, EmplaceError(t)
    PROVE  NestedFrames'
<1> DEFINE c == Of(t)
<1>1. At(t, "emplace")
  BY DEF EmplaceError
<1>2. c \in Callbacks /\ c \in Children /\ Top1(t, "emplace", c) /\ c = Top(t).of
  BY <1>1, ChildTop DEF ChainPoints, ChildPoints
<1>3. Stacks /\ NestedFrames /\ stack[t] # <<>> /\ Fits(t, Frame("emplace", c)) /\ Of(t) = c
  BY <1>1, <1>2, TopKnown, TopFrame DEF TypeOK, Stacks, Nested, Top1
<1>4. CASE Become(t, Frame("arrive", c))
  <2>1. Frame("arrive", c) \in Frames
    BY <1>2, MakeFrame, StopPoints, ClientPoints, Constants, ChildOrderSound
  <2>2. Fits(t, Frame("arrive", c))
    BY <1>2, <1>3, FitsChild DEF ChildPoints
  <2> QED
    BY <1>3, <1>4, <2>1, <2>2, BecomeNested
<1> QED
  BY <1>3, <1>4 DEF EmplaceError, Goto

\* set_stopped.
LEMMA SetStoppedNested ==
    ASSUME TypeOK, Nested, Chain, NEW t \in Threads, SetStopped(t)
    PROVE  NestedFrames'
<1> DEFINE c == Of(t)
<1>1. At(t, "set_stopped")
  BY DEF SetStopped
<1>2. c \in Callbacks /\ c \in Children /\ Top1(t, "set_stopped", c) /\ c = Top(t).of
  BY <1>1, ChildTop DEF ChainPoints, ChildPoints
<1>3. Stacks /\ NestedFrames /\ stack[t] # <<>> /\ Fits(t, Frame("set_stopped", c)) /\ Of(t) = c
  BY <1>1, <1>2, TopKnown, TopFrame DEF TypeOK, Stacks, Nested, Top1
<1>4. CASE Become(t, Frame("arrive", c))
  <2>1. Frame("arrive", c) \in Frames
    BY <1>2, MakeFrame, StopPoints, ClientPoints, Constants, ChildOrderSound
  <2>2. Fits(t, Frame("arrive", c))
    BY <1>2, <1>3, FitsChild DEF ChildPoints
  <2> QED
    BY <1>3, <1>4, <2>1, <2>2, BecomeNested
<1>5. CASE Call(t, Frame("request_stop", Inner), "arrive")
  <2>1. Frame("request_stop", Inner) \in Frames /\ "arrive" \in Points /\ Top(t).of = c
    BY <1>2, MakeFrame, StopPoints, ClientPoints, Constants
  <2>2. Fits(t, Frame("arrive", c))
    BY <1>2, <1>3, FitsChild DEF ChildPoints
  <2>3. CalledFrom(Frame("request_stop", Inner), Frame("arrive", c))
    BY <1>2 DEF CalledFrom, Frame, RequestFrame, ChildFrame, ChildPoints, ConstructorPoints,
       DestructorPoints
  <2> QED
    BY <1>3, <1>5, <2>1, <2>2, <2>3, CallNested
<1> QED
  BY <1>3, <1>4, <1>5 DEF SetStopped, Goto

\* __arrive.
LEMMA ArriveNested ==
    ASSUME TypeOK, Nested, Chain, NEW t \in Threads, Arrive(t)
    PROVE  NestedFrames'
<1> DEFINE c == Of(t)
<1>1. At(t, "arrive")
  BY DEF Arrive
<1>2. c \in Callbacks /\ c \in Children /\ Top1(t, "arrive", c) /\ c = Top(t).of
  BY <1>1, ChildTop DEF ChainPoints, ChildPoints
<1>3. Stacks /\ NestedFrames /\ stack[t] # <<>> /\ Fits(t, Frame("arrive", c)) /\ Of(t) = c
  BY <1>1, <1>2, TopKnown, TopFrame DEF TypeOK, Stacks, Nested, Top1
<1>4. CASE Return(t)
  BY <1>3, <1>4, ReturnNested
<1>5. CASE Call(t, Frame("remove", OnStop), "deliver")
  <2>1. Frame("remove", OnStop) \in Frames /\ "deliver" \in Points /\ Top(t).of = c
    BY <1>2, MakeFrame, StopPoints, ClientPoints, Constants
  <2>2. Fits(t, Frame("deliver", c))
    BY <1>2, <1>3, FitsChild DEF ChildPoints
  <2>3. CalledFrom(Frame("remove", OnStop), Frame("deliver", c))
    BY <1>2 DEF CalledFrom, Frame, RequestFrame, ChildFrame, ChildPoints, ConstructorPoints,
       DestructorPoints
  <2> QED
    BY <1>3, <1>5, <2>1, <2>2, <2>3, CallNested
<1>6. CASE Become(t, Frame("deliver", c))
  <2>1. Frame("deliver", c) \in Frames
    BY <1>2, MakeFrame, StopPoints, ClientPoints, Constants, ChildOrderSound
  <2>2. Fits(t, Frame("deliver", c))
    BY <1>2, <1>3, FitsChild DEF ChildPoints
  <2> QED
    BY <1>3, <1>6, <2>1, <2>2, BecomeNested
<1> QED
  BY <1>3, <1>4, <1>5, <1>6 DEF Arrive, Goto

\* The completion of the receiver.
LEMMA DeliverNested ==
    ASSUME TypeOK, Nested, Chain, NEW t \in Threads, Deliver(t)
    PROVE  NestedFrames'
<1> DEFINE c == Of(t)
<1>1. At(t, "deliver")
  BY DEF Deliver
<1>2. c \in Callbacks /\ c \in Children /\ Top1(t, "deliver", c) /\ c = Top(t).of
  BY <1>1, ChildTop DEF ChainPoints, ChildPoints
<1>3. Stacks /\ NestedFrames /\ stack[t] # <<>> /\ Fits(t, Frame("deliver", c)) /\ Of(t) = c
  BY <1>1, <1>2, TopKnown, TopFrame DEF TypeOK, Stacks, Nested, Top1
<1>4. CASE Return(t)
  BY <1>3, <1>4, ReturnNested
<1> QED
  BY <1>3, <1>4 DEF Deliver

\* The request from outside.
LEMMA AskStopNested ==
    ASSUME TypeOK, Nested, Chain, AskStop
    PROVE  NestedFrames'
<1>1. stack' = [stack EXCEPT ![Stopper] = <<Frame("request_stop", Outer)>>] /\ ~asked
  BY DEF AskStop
<1>2. stack[Stopper] = <<>> /\ Stacks /\ Stopper \in Threads /\ NestedFrames
  BY <1>1, Constants DEF Nested, TypeOK, Stacks
<1>3. Frame("request_stop", Outer) \in Frames
  BY Constants, MakeFrame, StopPoints
<1>4. Outermost(Stopper, Frame("request_stop", Outer))
  BY DEF Outermost, RequestFrame, Frame
<1> QED
  BY <1>1, <1>2, <1>3, <1>4, PushNested

\* A child's own thread.
LEMMA ChildWorksNested ==
    ASSUME TypeOK, Nested, Chain, NEW c \in Children, ChildWorks(c)
    PROVE  NestedFrames'
<1>1. stack' = [stack EXCEPT ![c] = <<Frame("finish_child", c)>>] /\ owner[c] = "undecided"
  BY DEF ChildWorks
<1>2. stack[c] = <<>> /\ Stacks /\ c \in Threads /\ NestedFrames
  BY <1>1, UndecidedIdle, Constants DEF TypeOK, Stacks, Nested
<1>3. Frame("finish_child", c) \in Frames
  BY Constants, MakeFrame, ClientPoints
<1>4. Outermost(c, Frame("finish_child", c))
  BY DEF Outermost, Frame, ChildFrame, ChildPoints
<1> QED
  BY <1>1, <1>2, <1>3, <1>4, PushNested

\* Every step.
LEMMA NestedFramesStep ==
    ASSUME TypeOK, Nested, Chain, [Next]_vars
    PROVE  NestedFrames'
<1>1. ASSUME NEW t \in Threads, Step(t) PROVE NestedFrames'
  <2>1. CASE StopStep(t)
    BY <2>1, RequestStopNested, NotifyNextNested, RunCallbackNested, CallbackRanNested, RelockNested,
       TryAddCallbackNested, LinkCallbackNested, RemoveCallbackNested, UnlinkCallbackNested,
       AwaitCallbackNested DEF StopStep
  <2> QED
    BY <1>1, <2>1, StartNested, CheckStoppedNested, AbandonNested, StartChildNested, HandOffNested,
       StartNextChildNested, InCallbackNested, FinishChildNested, CompleteChildNested,
       SetValueNested, SetErrorNested, EmplaceErrorNested, SetStoppedNested, ArriveNested,
       DeliverNested DEF Step
<1>2. CASE UNCHANGED vars \/ Done
  BY <1>2 DEF vars, Done, NestedFrames, Nested
<1> QED
  BY <1>1, <1>2, AskStopNested, ChildWorksNested DEF Next
\* The innermost frame is at one of some points, and the new ones are at others.
Within(t, A, B) ==
    stack[t] # <<>> /\ Top(t).at \in A /\ \E N : Changes(t, N) /\ \A f \in N : f.at \in B

\* It returns.
LEMMA WithinReturn ==
    ASSUME NEW t, NEW A, NEW B, NEW p \in A, NEW x, Top1(t, p, x), Changes(t, {})
    PROVE  Within(t, A, B)
  BY DEF Within, Top1, Frame

\* It goes on.
LEMMA WithinGoto ==
    ASSUME NEW t, NEW A, NEW B, NEW p \in A, NEW x, Top1(t, p, x),
           NEW q \in B, NEW y, Changes(t, {Frame(q, y)})
    PROVE  Within(t, A, B)
<1>1. Frame(p, x).at = p /\ \A f \in {Frame(q, y)} : f.at \in B
  BY DEF Frame
<1> QED
  BY <1>1 DEF Within, Top1

\* It calls.
LEMMA WithinCall ==
    ASSUME NEW t, NEW A, NEW B, NEW p \in A, NEW x, Top1(t, p, x),
           NEW q \in B, NEW y, NEW r \in B, NEW z, Changes(t, {Frame(q, y), Frame(r, z)})
    PROVE  Within(t, A, B)
<1>1. Frame(p, x).at = p /\ \A f \in {Frame(q, y), Frame(r, z)} : f.at \in B
  BY DEF Frame
<1> QED
  BY <1>1 DEF Within, Top1

\* A step of the stop sources moves between their own points.
StopOnly == {"request_stop", "notify", "run", "ran", "relock", "callback", "add", "link",
             "remove", "unlink", "await"}
LEMMA StopShape ==
    ASSUME NEW t \in Threads, StopEvent(t)
    PROVE  Within(t, StopOnly \ {"callback"}, StopOnly \ {"add", "remove", "request_stop"})
<1> DEFINE A == StopOnly \ {"callback"}
           B == StopOnly \ {"add", "remove", "request_stop"}
<1>0. /\ "request_stop" \in A /\ "notify" \in A /\ "run" \in A /\ "ran" \in A /\ "relock" \in A
      /\ "add" \in A /\ "link" \in A /\ "remove" \in A /\ "unlink" \in A /\ "await" \in A
      /\ "notify" \in B /\ "run" \in B /\ "ran" \in B /\ "relock" \in B /\ "callback" \in B
      /\ "link" \in B /\ "unlink" \in B /\ "await" \in B
  BY DEF StopOnly
<1> HIDE DEF A, B
<1>1. ASSUME NEW s, RequestLate(t, s) PROVE Within(t, A, B)
  BY <1>0, <1>1, WithinReturn DEF RequestLate
<1>2. ASSUME NEW s, RequestFirst(t, s) PROVE Within(t, A, B)
  BY <1>0, <1>2, WithinGoto DEF RequestFirst
<1>3. ASSUME NEW s, NotifyEnd(t, s) PROVE Within(t, A, B)
  BY <1>0, <1>3, WithinReturn DEF NotifyEnd
<1>4. ASSUME NEW s, NEW c, NotifyOne(t, s, c) PROVE Within(t, A, B)
  BY <1>0, <1>4, WithinGoto DEF NotifyOne
<1>5. ASSUME NEW s, NEW c, RunOne(t, s, c) PROVE Within(t, A, B)
  BY <1>0, <1>5, WithinCall DEF RunOne
<1>6. ASSUME NEW s, NEW c, RanRemoved(t, s, c) PROVE Within(t, A, B)
  BY <1>0, <1>6, WithinGoto DEF RanRemoved
<1>7. ASSUME NEW s, NEW c, RanAlive(t, s, c) PROVE Within(t, A, B)
  BY <1>0, <1>7, WithinGoto DEF RanAlive
<1>8. ASSUME NEW s, NEW c, LockedAgain(t, s, c) PROVE Within(t, A, B)
  BY <1>0, <1>8, WithinGoto DEF LockedAgain
<1>9. ASSUME NEW s, NEW c, AddLate(t, s, c) PROVE Within(t, A, B)
  BY <1>0, <1>9, WithinGoto DEF AddLate
<1>10. ASSUME NEW s, NEW c, AddLocks(t, s, c) PROVE Within(t, A, B)
  BY <1>0, <1>10, WithinGoto DEF AddLocks
<1>11. ASSUME NEW s, NEW c, Links(t, s, c) PROVE Within(t, A, B)
  BY <1>0, <1>11, WithinReturn DEF Links
<1>12. ASSUME NEW s, NEW c, RemoveDetached(t, s, c) PROVE Within(t, A, B)
  BY <1>0, <1>12, WithinReturn DEF RemoveDetached
<1>13. ASSUME NEW s, NEW c, RemoveLocks(t, s, c) PROVE Within(t, A, B)
  BY <1>0, <1>13, WithinGoto DEF RemoveLocks
<1>14. ASSUME NEW s, NEW c, UnlinkListed(t, s, c) PROVE Within(t, A, B)
  BY <1>0, <1>14, WithinReturn DEF UnlinkListed
<1>15. ASSUME NEW s, NEW c, UnlinkOwn(t, s, c) PROVE Within(t, A, B)
  BY <1>0, <1>15, WithinReturn DEF UnlinkOwn
<1>16. ASSUME NEW s, NEW c, UnlinkWaits(t, s, c) PROVE Within(t, A, B)
  BY <1>0, <1>16, WithinGoto DEF UnlinkWaits
<1>17. ASSUME NEW s, NEW c, AwaitEnds(t, s, c) PROVE Within(t, A, B)
  BY <1>0, <1>17, WithinReturn DEF AwaitEnds
<1> QED
  BY <1>1, <1>2, <1>3, <1>4, <1>5, <1>6, <1>7, <1>8, <1>9, <1>10, <1>11, <1>12, <1>13, <1>14, <1>15, <1>16, <1>17 DEF StopEvent, A, B

\* A step of the operation moves between its points, and may call the stop
\* sources.
ClientOnly == StartPoints \union ChildPoints \union {"callback"}
ClientNext == StartPoints \union ChildPoints \union {"request_stop", "add", "remove"}
LEMMA ClientShape ==
    ASSUME NEW t \in Threads, ClientEvent(t)
    PROVE  Within(t, ClientOnly, ClientNext) /\ src' = src /\ SameConfig /\ asked' = asked
<1> DEFINE A == ClientOnly
           B == ClientNext
           Good == Within(t, A, B) /\ src' = src /\ SameConfig /\ asked' = asked
<1>a. /\ StartPoints \subseteq A /\ ChildPoints \subseteq A /\ "callback" \in A
      /\ StartPoints \subseteq B /\ ChildPoints \subseteq B
      /\ "request_stop" \in B /\ "add" \in B /\ "remove" \in B
  BY DEF ClientOnly, ClientNext
<1>b. /\ "start" \in StartPoints /\ "check" \in StartPoints /\ "abandon" \in StartPoints
      /\ "start_child" \in StartPoints /\ "hand_off" \in StartPoints /\ "started" \in StartPoints
      /\ "finish_child" \in ChildPoints /\ "complete_child" \in ChildPoints
      /\ "set_value" \in ChildPoints /\ "set_error" \in ChildPoints /\ "set_stopped" \in ChildPoints
      /\ "emplace" \in ChildPoints /\ "arrive" \in ChildPoints /\ "deliver" \in ChildPoints
      /\ Signals \subseteq ChildPoints
  BY DEF StartPoints, ChildPoints, Signals
<1>0. /\ "start" \in A /\ "check" \in A /\ "abandon" \in A /\ "start_child" \in A
      /\ "hand_off" \in A /\ "started" \in A /\ "finish_child" \in A /\ "complete_child" \in A
      /\ "set_value" \in A /\ "set_error" \in A /\ "set_stopped" \in A /\ "emplace" \in A
      /\ "arrive" \in A /\ "deliver" \in A /\ "callback" \in A
      /\ "check" \in B /\ "abandon" \in B /\ "start_child" \in B
      /\ "hand_off" \in B /\ "started" \in B /\ "finish_child" \in B /\ "complete_child" \in B
      /\ "set_error" \in B /\ "emplace" \in B /\ "arrive" \in B /\ "deliver" \in B
      /\ "request_stop" \in B /\ "add" \in B /\ "remove" \in B
      /\ \A signal \in Signals : signal \in B
  BY <1>a, <1>b
<1> HIDE DEF A, B
<1>1. ASSUME StartStoppable(t) PROVE Good
  BY <1>0, <1>1, WithinCall DEF StartStoppable, SameOperation, SameConfig
<1>2. ASSUME StartNever(t) PROVE Good
  BY <1>0, <1>2, WithinGoto DEF StartNever, SameOperation, SameConfig
<1>3. ASSUME CheckStops(t) PROVE Good
  BY <1>0, <1>3, WithinCall DEF CheckStops, SameOperation, SameConfig
<1>4. ASSUME CheckGoes(t) PROVE Good
  BY <1>0, <1>4, WithinGoto DEF CheckGoes, SameOperation, SameConfig
<1>5. ASSUME Abandons(t) PROVE Good
  BY <1>0, <1>5, WithinReturn DEF Abandons, SameOperation, SameConfig
<1>6. ASSUME NEW c \in Children, NEW signal \in Signals, StartInline(t, c, signal) PROVE Good
  BY <1>0, <1>6, WithinCall DEF StartInline, SameOperation, SameConfig
<1>7. ASSUME NEW c \in Children, StartAsync(t, c) PROVE Good
  BY <1>0, <1>7, WithinCall DEF StartAsync, SameOperation, SameConfig
<1>8. ASSUME NEW c \in Children, HandEager(t, c) PROVE Good
  BY <1>0, <1>8, WithinCall DEF HandEager, SameOperation, SameConfig
<1>9. ASSUME NEW c \in Children, HandOver(t, c) PROVE Good
  BY <1>0, <1>9, WithinGoto DEF HandOver, SameOperation, SameConfig
<1>10. ASSUME NEW c \in Children, NextEnds(t, c) PROVE Good
  BY <1>0, <1>10, WithinReturn DEF NextEnds, SameOperation, SameConfig
<1>11. ASSUME NEW c \in Children, NEW i \in DOMAIN ChildOrder, NextStarts(t, c, i) PROVE Good
  BY <1>0, <1>11, WithinGoto DEF NextStarts, SameOperation, SameConfig
<1>12. ASSUME CallbackForwards(t) PROVE Good
  BY <1>0, <1>12, WithinGoto DEF CallbackForwards, SameOperation, SameConfig
<1>13. ASSUME NEW c \in Children, CallbackFinishes(t, c) PROVE Good
  BY <1>0, <1>13, WithinGoto DEF CallbackFinishes, SameOperation, SameConfig
<1>14. ASSUME NEW c \in Children, CallbackNotes(t, c) PROVE Good
  BY <1>0, <1>14, WithinReturn DEF CallbackNotes, SameOperation, SameConfig
<1>15. ASSUME NEW c \in Children, Finishes(t, c) PROVE Good
  BY <1>0, <1>15, WithinCall DEF Finishes, SameOperation, SameConfig
<1>16. ASSUME NEW c \in Children, NEW signal \in Signals, CompletesChild(t, c, signal) PROVE Good
  BY <1>0, <1>16, WithinGoto DEF CompletesChild, SameOperation, SameConfig
<1>17. ASSUME NEW c \in Children, SetsValue(t, c) PROVE Good
  BY <1>0, <1>17, WithinGoto DEF SetsValue, SameOperation, SameConfig
<1>18. ASSUME NEW c \in Children, ValueThrows(t, c) PROVE Good
  BY <1>0, <1>18, WithinGoto DEF ValueThrows, SameOperation, SameConfig
<1>19. ASSUME NEW c \in Children, ErrorLate(t, c) PROVE Good
  BY <1>0, <1>19, WithinGoto DEF ErrorLate, SameOperation, SameConfig
<1>20. ASSUME NEW c \in Children, ErrorFirst(t, c) PROVE Good
  BY <1>0, <1>20, WithinCall DEF ErrorFirst, SameOperation, SameConfig
<1>21. ASSUME NEW c \in Children, Emplaces(t, c) PROVE Good
  BY <1>0, <1>21, WithinGoto DEF Emplaces, SameOperation, SameConfig
<1>22. ASSUME NEW c \in Children, StoppedFirst(t, c) PROVE Good
  BY <1>0, <1>22, WithinCall DEF StoppedFirst, SameOperation, SameConfig
<1>23. ASSUME NEW c \in Children, StoppedLate(t, c) PROVE Good
  BY <1>0, <1>23, WithinGoto DEF StoppedLate, SameOperation, SameConfig
<1>24. ASSUME NEW c \in Children, ArrivesEarly(t, c) PROVE Good
  BY <1>0, <1>24, WithinReturn DEF ArrivesEarly, SameOperation, SameConfig
<1>25. ASSUME NEW c \in Children, ArrivesLastStoppable(t, c) PROVE Good
  BY <1>0, <1>25, WithinCall DEF ArrivesLastStoppable, SameOperation, SameConfig
<1>26. ASSUME NEW c \in Children, ArrivesLast(t, c) PROVE Good
  BY <1>0, <1>26, WithinGoto DEF ArrivesLast, SameOperation, SameConfig
<1>27. ASSUME NEW c \in Children, Delivers(t, c) PROVE Good
  BY <1>0, <1>27, WithinReturn DEF Delivers, SameOperation, SameConfig
<1> HIDE DEF Good
<1>28. Good
  BY <1>1, <1>2, <1>3, <1>4, <1>5, <1>6, <1>7, <1>8, <1>9, <1>10, <1>11, <1>12, <1>13, <1>14, <1>15, <1>16, <1>17, <1>18, <1>19, <1>20, <1>21, <1>22, <1>23, <1>24, <1>25, <1>26, <1>27 DEF ClientEvent
<1> QED
  BY <1>28 DEF Good, A, B

\* What each step does to the stacks, in a few words.
LEMMA NextShape ==
    ASSUME TypeOK, Nested, Chain, [Next]_vars
    PROVE  \/ stack' = stack /\ SameConfig /\ asked' = asked
           \/ /\ SameConfig /\ \E t \in Threads : \E N : Changes(t, N)
              /\ asked' \in {asked, TRUE}
<1>1. ASSUME NEW t \in Threads, NEW A, NEW B, Within(t, A, B)
      PROVE  \E N : Changes(t, N)
  BY <1>1 DEF Within
<1>2. CASE \E t \in Threads : StopEvent(t) /\ SameOperation
  BY <1>1, <1>2, StopShape DEF SameOperation, SameConfig
<1>3. CASE \E t \in Threads : ClientEvent(t)
  BY <1>1, <1>3, ClientShape
<1>4. CASE Asks
  BY <1>4, Constants DEF Asks
<1>5. CASE \E c \in Children : Works(c)
  BY <1>5, Constants DEF Works
<1>6. CASE Stutter
  BY <1>6 DEF Stutter, SameOperation, SameConfig
<1> QED
  BY <1>2, <1>3, <1>4, <1>5, <1>6, NextEvents
\* A thread that returns from its last call is idle, and others begin only
\* by AskStop and ChildWorks.
LEMMA ChangesIdle ==
    ASSUME Stacks, NEW t \in Threads, NEW N, Changes(t, N), NEW u \in Threads, u # t
    PROVE  stack'[u] = stack[u]
  BY DEF Changes, Moved

\* What a callback's body does.
LEMMA CallbackCases ==
    ASSUME NEW t \in Threads, ClientEvent(t), Top(t).at = "callback"
    PROVE  CallbackForwards(t) \/ \E c \in Children : CallbackFinishes(t, c) \/ CallbackNotes(t, c)
<1>0. \A p, x : Frame(p, x).at = p
  BY DEF Frame
<1>1. ASSUME StartStoppable(t) PROVE FALSE
  BY <1>0, <1>1 DEF StartStoppable, Top1
<1>2. ASSUME StartNever(t) PROVE FALSE
  BY <1>0, <1>2 DEF StartNever, Top1
<1>3. ASSUME CheckStops(t) PROVE FALSE
  BY <1>0, <1>3 DEF CheckStops, Top1
<1>4. ASSUME CheckGoes(t) PROVE FALSE
  BY <1>0, <1>4 DEF CheckGoes, Top1
<1>5. ASSUME Abandons(t) PROVE FALSE
  BY <1>0, <1>5 DEF Abandons, Top1
<1>6. ASSUME NEW c \in Children, NEW signal \in Signals, StartInline(t, c, signal) PROVE FALSE
  BY <1>0, <1>6 DEF StartInline, Top1
<1>7. ASSUME NEW c \in Children, StartAsync(t, c) PROVE FALSE
  BY <1>0, <1>7 DEF StartAsync, Top1
<1>8. ASSUME NEW c \in Children, HandEager(t, c) PROVE FALSE
  BY <1>0, <1>8 DEF HandEager, Top1
<1>9. ASSUME NEW c \in Children, HandOver(t, c) PROVE FALSE
  BY <1>0, <1>9 DEF HandOver, Top1
<1>10. ASSUME NEW c \in Children, NextEnds(t, c) PROVE FALSE
  BY <1>0, <1>10 DEF NextEnds, Top1
<1>11. ASSUME NEW c \in Children, NEW i \in DOMAIN ChildOrder, NextStarts(t, c, i) PROVE FALSE
  BY <1>0, <1>11 DEF NextStarts, Top1
<1>12. ASSUME NEW c \in Children, Finishes(t, c) PROVE FALSE
  BY <1>0, <1>12 DEF Finishes, Top1
<1>13. ASSUME NEW c \in Children, NEW signal \in Signals, CompletesChild(t, c, signal) PROVE FALSE
  BY <1>0, <1>13 DEF CompletesChild, Top1
<1>14. ASSUME NEW c \in Children, SetsValue(t, c) PROVE FALSE
  BY <1>0, <1>14 DEF SetsValue, Top1
<1>15. ASSUME NEW c \in Children, ValueThrows(t, c) PROVE FALSE
  BY <1>0, <1>15 DEF ValueThrows, Top1
<1>16. ASSUME NEW c \in Children, ErrorLate(t, c) PROVE FALSE
  BY <1>0, <1>16 DEF ErrorLate, Top1
<1>17. ASSUME NEW c \in Children, ErrorFirst(t, c) PROVE FALSE
  BY <1>0, <1>17 DEF ErrorFirst, Top1
<1>18. ASSUME NEW c \in Children, Emplaces(t, c) PROVE FALSE
  BY <1>0, <1>18 DEF Emplaces, Top1
<1>19. ASSUME NEW c \in Children, StoppedFirst(t, c) PROVE FALSE
  BY <1>0, <1>19 DEF StoppedFirst, Top1
<1>20. ASSUME NEW c \in Children, StoppedLate(t, c) PROVE FALSE
  BY <1>0, <1>20 DEF StoppedLate, Top1
<1>21. ASSUME NEW c \in Children, ArrivesEarly(t, c) PROVE FALSE
  BY <1>0, <1>21 DEF ArrivesEarly, Top1
<1>22. ASSUME NEW c \in Children, ArrivesLastStoppable(t, c) PROVE FALSE
  BY <1>0, <1>22 DEF ArrivesLastStoppable, Top1
<1>23. ASSUME NEW c \in Children, ArrivesLast(t, c) PROVE FALSE
  BY <1>0, <1>23 DEF ArrivesLast, Top1
<1>24. ASSUME NEW c \in Children, Delivers(t, c) PROVE FALSE
  BY <1>0, <1>24 DEF Delivers, Top1
<1> QED
  BY <1>1, <1>2, <1>3, <1>4, <1>5, <1>6, <1>7, <1>8, <1>9, <1>10, <1>11, <1>12, <1>13, <1>14, <1>15, <1>16, <1>17, <1>18, <1>19, <1>20, <1>21, <1>22, <1>23, <1>24 DEF ClientEvent

\* Each step keeps the nesting.
LEMMA NestedStep ==
    ASSUME TypeOK, Nested, Chain, [Next]_vars
    PROVE  Nested'
<1>1. NestedFrames'
  BY NestedFramesStep
<1>2. SameConfig /\ (asked => asked')
  BY NextShape DEF SameConfig, TypeOK
<1>3. Stacks /\ Stopper \in Threads /\ Starter # Stopper
  BY Constants DEF TypeOK, Stacks
<1> DEFINE P == stack'[Stopper] # <<>> => stoppable' /\ asked'
<1>4. ASSUME NEW t \in Threads, StopEvent(t), SameOperation PROVE P
  <2>1. PICK N : Changes(t, N) /\ \A f \in N : f.at \in StopOnly
    BY <1>4, StopShape DEF Within
  <2>2. stack[t] # <<>>
    BY <1>4, StopShape DEF Within
  <2> QED
    BY <1>2, <1>3, <2>1, <2>2, ChangesIdle DEF Nested, SameConfig
<1>5. ASSUME NEW t \in Threads, ClientEvent(t) PROVE P
  <2>1. PICK N : Changes(t, N) /\ \A f \in N : f.at \in ClientNext
    BY <1>5, ClientShape DEF Within
  <2>2. stack[t] # <<>>
    BY <1>5, ClientShape DEF Within
  <2> QED
    BY <1>2, <1>3, <2>1, <2>2, ChangesIdle DEF Nested, SameConfig
<1>6. ASSUME Asks PROVE P
  BY <1>2, <1>6 DEF Asks, SameConfig
<1>7. ASSUME NEW c \in Children, Works(c) PROVE P
  <2>1. Changes(c, {Frame("finish_child", c)}) /\ c \in Threads /\ c # Stopper
    BY <1>7, Constants DEF Works
  <2> QED
    BY <1>2, <1>3, <2>1, ChangesIdle DEF Nested, SameConfig
<1>8. ASSUME Stutter PROVE P
  BY <1>2, <1>8 DEF Stutter, Nested, SameConfig
<1>9. P
  BY <1>4, <1>5, <1>6, <1>7, <1>8, NextEvents
<1> QED
  BY <1>1, <1>9 DEF Nested
-----------------------------------------------------------------------------
(* The locks and the notifying calls.                                       *)

\* Which frames are of a kind.
LEMMA FrameIn ==
    ASSUME NEW p \in Points, NEW x \in Sources \union Callbacks, NEW points, NEW xs
    PROVE  Frame(p, x) \in FramesAt(points, xs) <=> p \in points /\ x \in xs
  BY MakeFrame DEF FramesAt

\* The frames that hold a lock.
LEMMA LockFrame ==
    ASSUME NEW p \in Points, NEW x \in Sources \union Callbacks, NEW s \in Sources
    PROVE  /\ Frame(p, x) \in LockFrames(s)
                <=> (p = "notify" /\ x = s) \/ (p \in {"link", "unlink"} /\ x \in CallbacksOf(s))
           /\ Frame(p, x) \in LinkFrames(s) <=> p = "link" /\ x \in CallbacksOf(s)
           /\ LinkFrames(s) \subseteq LockFrames(s)
<1>1. /\ Frame(p, x) \in LockFrames(s)
           <=> (p = "notify" /\ x = s) \/ (p \in {"link", "unlink"} /\ x \in CallbacksOf(s))
      /\ Frame(p, x) \in LinkFrames(s) <=> p = "link" /\ x \in CallbacksOf(s)
  BY FrameIn DEF LockFrames, LinkFrames
<1>2. LinkFrames(s) \subseteq LockFrames(s)
  BY DEF LockFrames, LinkFrames, FramesAt
<1> QED
  BY <1>1, <1>2

\* The frames of the call that runs the callbacks.
LEMMA NotifyFrame ==
    ASSUME NEW p \in Points, NEW x \in Sources \union Callbacks, NEW s \in Sources
    PROVE  Frame(p, x) \in NotifyFrames(s)
             <=> (p = "notify" /\ x = s) \/ (p \in {"run", "ran", "relock"} /\ x \in CallbacksOf(s))
  BY FrameIn DEF NotifyFrames

\* Two sources share no callback.
LEMMA Apart ==
    ASSUME NEW s \in Sources, NEW c \in CallbacksOf(s)
    PROVE  /\ c \in Callbacks /\ SourceOf[c] = s
           /\ c \in Sources \union Callbacks /\ s \in Sources \union Callbacks
           /\ \A x \in Sources : x # s => c \notin CallbacksOf(x)
  BY DEF CallbacksOf

\* A step that neither takes away nor adds a frame of a set.
Leaves(t, S) ==
    \E N : /\ Changes(t, N) /\ (stack[t] # <<>> => Top(t) \notin S)
           /\ \A f \in N : f \notin S

\* What such a step leaves as it is.
LEMMA LeavesKept ==
    ASSUME Stacks, NEW t \in Threads, NEW S, Leaves(t, S)
    PROVE  /\ Once(S) => Once(S)'
           /\ Occurs(S)' <=> Occurs(S)
           /\ \A u \in Threads : \A i \in DOMAIN stack'[u] : stack'[u][i] \in S =>
                i \in DOMAIN stack[u] /\ stack'[u][i] = stack[u][i]
<1>1. PICK N : Changes(t, N) /\ (stack[t] # <<>> => Top(t) \notin S) /\ \A f \in N : f \notin S
  BY DEF Leaves
<1>2. Once(S) => Once(S)'
  BY <1>1, OnceStays
<1>3. Occurs(S) => Occurs(S)'
  BY <1>1, OccursStays
<1>4. Occurs(S)' => Occurs(S)
  BY <1>1, OccursWas
<1>5. ASSUME NEW u \in Threads, NEW i \in DOMAIN stack'[u], stack'[u][i] \in S
      PROVE  i \in DOMAIN stack[u] /\ stack'[u][i] = stack[u][i]
  BY <1>1, <1>5, ChangesFrames
<1> QED
  BY <1>2, <1>3, <1>4, <1>5

\* It leaves smaller sets too.
LEMMA LeavesLess ==
    ASSUME NEW t, NEW S, NEW R \in SUBSET S, Leaves(t, S)
    PROVE  Leaves(t, R)
  BY DEF Leaves

\* A step that touches neither the lock nor the frames that hold it.
LEMMA LockStays ==
    ASSUME Stacks, NEW t \in Threads, NEW s \in Sources, Locked(s), Leaves(t, LockFrames(s)),
           src'[s].locked = src[s].locked, src'[s].requested = src[s].requested
    PROVE  Locked(s)'
<1>1. LinkFrames(s) \in SUBSET LockFrames(s)
  BY DEF LinkFrames, LockFrames, FramesAt
<1>2. Leaves(t, LinkFrames(s))
  BY <1>1, LeavesLess
<1>3. Once(LockFrames(s))' /\ (Occurs(LockFrames(s))' <=> Occurs(LockFrames(s)))
  BY LeavesKept DEF Locked
<1>4. Occurs(LinkFrames(s))' <=> Occurs(LinkFrames(s))
  BY <1>2, LeavesKept
<1> QED
  BY <1>3, <1>4 DEF Locked

\* The holder releases the lock.
LEMMA LockReleased ==
    ASSUME Stacks, NEW t \in Threads, NEW s \in Sources, Locked(s), stack[t] # <<>>,
           Top(t) \in LockFrames(s), NEW N, Changes(t, N), \A f \in N : f \notin LockFrames(s)
    PROVE  Locked(s)'
<1>1. Once(LockFrames(s))
  BY DEF Locked
<1>2. ~Occurs(LockFrames(s))'
  BY <1>1, OccursEnds
<1>3. Once(LockFrames(s))'
  BY <1>1, OnceStays
<1>4. LinkFrames(s) \subseteq LockFrames(s)
  BY DEF LinkFrames, LockFrames, FramesAt
<1>5. ~Occurs(LinkFrames(s))'
  BY <1>2, <1>4 DEF Occurs
<1> QED
  BY <1>2, <1>3, <1>5 DEF Locked

\* A call takes the lock when it is free.
LEMMA LockTaken ==
    ASSUME Stacks, NEW t \in Threads, NEW s \in Sources, Locked(s), ~src[s].locked,
           NEW f \in LockFrames(s), Changes(t, {f}), src'[s].locked,
           f \in LinkFrames(s) => ~src'[s].requested
    PROVE  Locked(s)'
<1>1. Once(LockFrames(s)) /\ ~Occurs(LockFrames(s))
  BY DEF Locked
<1>2. Once(LockFrames(s))'
  <2>1. \A g, h \in {f} : g \in LockFrames(s) /\ h \in LockFrames(s) => g = h
    OBVIOUS
  <2> QED
    BY <1>1, <2>1, OnceStays
<1>3. LinkFrames(s) \subseteq LockFrames(s)
  BY DEF LinkFrames, LockFrames, FramesAt
<1>4. ~Occurs(LinkFrames(s))
  BY <1>1, <1>3 DEF Occurs
<1>5. Occurs(LinkFrames(s))' => f \in LinkFrames(s)
  BY <1>4, OccursWas
<1> QED
  BY <1>2, <1>5 DEF Locked

\* A step outside of the call that runs the callbacks.
LEMMA NotifyStays ==
    ASSUME Stacks, NEW t \in Threads, NEW s \in Sources, Notified(s), Leaves(t, NotifyFrames(s)),
           src'[s].requested = src[s].requested, src'[s].notifying = src[s].notifying,
           src[s].requested /\ src'[s].callbacks # <<>> => src[s].callbacks # <<>>
    PROVE  Notified(s)'
<1>1. Once(NotifyFrames(s))' /\ (Occurs(NotifyFrames(s))' <=> Occurs(NotifyFrames(s)))
  BY LeavesKept DEF Notified
<1>2. ASSUME NEW u \in Threads, NEW i \in DOMAIN stack'[u], stack'[u][i] \in NotifyFrames(s)
      PROVE  src'[s].requested /\ src'[s].notifying = u
  <2>1. i \in DOMAIN stack[u] /\ stack'[u][i] = stack[u][i]
    BY <1>2, LeavesKept
  <2> QED
    BY <1>2, <2>1 DEF Notified
<1> QED
  BY <1>1, <1>2 DEF Notified

\* The call goes on, with one frame for another.
LEMMA NotifyGoes ==
    ASSUME Stacks, NEW t \in Threads, NEW s \in Sources, Notified(s), stack[t] # <<>>,
           Top(t) \in NotifyFrames(s), NEW N, Changes(t, N),
           NEW f \in N, f \in NotifyFrames(s), \A g \in N : g \in NotifyFrames(s) => g = f,
           src'[s].requested = src[s].requested, src'[s].notifying = src[s].notifying
    PROVE  Notified(s)'
<1>1. Once(NotifyFrames(s))'
  BY OnceStays DEF Notified
<1>2. Occurs(NotifyFrames(s))'
  BY OccursComes
<1>3. src[s].requested /\ src[s].notifying = t
  BY StackShape DEF Notified, Top, Stacks
<1>4. ASSUME NEW u \in Threads, NEW i \in DOMAIN stack'[u], stack'[u][i] \in NotifyFrames(s)
      PROVE  src'[s].requested /\ src'[s].notifying = u
  <2>1. \/ i \in DOMAIN stack[u] /\ stack'[u][i] = stack[u][i]
        \/ u = t
    BY ChangesFrames
  <2> QED
    BY <1>3, <1>4, <2>1 DEF Notified
<1> QED
  BY <1>1, <1>2, <1>4 DEF Notified

\* The call ends, with no callback left.
LEMMA NotifyDone ==
    ASSUME Stacks, NEW t \in Threads, NEW s \in Sources, Notified(s), stack[t] # <<>>,
           Top(t) \in NotifyFrames(s), Changes(t, {}), src'[s].callbacks = <<>>
    PROVE  Notified(s)'
<1>1. Once(NotifyFrames(s))' /\ ~Occurs(NotifyFrames(s))'
  BY OnceStays, OccursEnds DEF Notified
<1> QED
  BY <1>1 DEF Notified, Occurs

\* The first request begins the call.
LEMMA NotifyBegins ==
    ASSUME Stacks, NEW t \in Threads, NEW s \in Sources, Notified(s), ~src[s].requested,
           NEW f \in NotifyFrames(s), Changes(t, {f}),
           src'[s].requested, src'[s].notifying = t
    PROVE  Notified(s)'
<1>1. ~Occurs(NotifyFrames(s))
  BY DEF Notified, Occurs
<1>2. Once(NotifyFrames(s))'
  <2>1. \A g, h \in {f} : g \in NotifyFrames(s) /\ h \in NotifyFrames(s) => g = h
    OBVIOUS
  <2> QED
    BY <1>1, <2>1, OnceStays DEF Notified
<1>3. Occurs(NotifyFrames(s))'
  BY OccursComes
<1>4. ASSUME NEW u \in Threads, NEW i \in DOMAIN stack'[u], stack'[u][i] \in NotifyFrames(s)
      PROVE  src'[s].requested /\ src'[s].notifying = u
  <2>1. \/ i \in DOMAIN stack[u] /\ stack'[u][i] = stack[u][i]
        \/ u = t
    BY ChangesFrames
  <2> QED
    BY <1>1, <1>4, <2>1 DEF Occurs
<1> QED
  BY <1>2, <1>3, <1>4 DEF Notified
\* What the frames of a source and of its callbacks are.
LEMMA StopFrame ==
    ASSUME NEW s \in Sources, NEW c \in CallbacksOf(s), NEW x \in Sources
    PROVE  /\ \A p \in {"request_stop", "notify"} :
                /\ Frame(p, s) \in LockFrames(x) <=> x = s /\ p = "notify"
                /\ Frame(p, s) \in NotifyFrames(x) <=> x = s /\ p = "notify"
                /\ Frame(p, s) \notin LinkFrames(x)
           /\ \A p \in {"add", "link", "remove", "unlink", "await", "run", "ran", "relock", "callback"} :
                /\ Frame(p, c) \in LockFrames(x) <=> x = s /\ p \in {"link", "unlink"}
                /\ Frame(p, c) \in NotifyFrames(x) <=> x = s /\ p \in {"run", "ran", "relock"}
                /\ Frame(p, c) \in LinkFrames(x) <=> x = s /\ p = "link"
<1>1. /\ c \in Sources \union Callbacks /\ s \in Sources \union Callbacks
      /\ c \in CallbacksOf(x) <=> x = s
  BY Apart
<1>2. ASSUME NEW p \in {"request_stop", "notify"}
      PROVE  /\ Frame(p, s) \in LockFrames(x) <=> x = s /\ p = "notify"
             /\ Frame(p, s) \in NotifyFrames(x) <=> x = s /\ p = "notify"
             /\ Frame(p, s) \notin LinkFrames(x)
  <2>1. p \in Points
    BY StopPoints
  <2> QED
    BY <1>1, <2>1, LockFrame, NotifyFrame
<1>3. ASSUME NEW p \in {"add", "link", "remove", "unlink", "await", "run", "ran", "relock", "callback"}
      PROVE  /\ Frame(p, c) \in LockFrames(x) <=> x = s /\ p \in {"link", "unlink"}
             /\ Frame(p, c) \in NotifyFrames(x) <=> x = s /\ p \in {"run", "ran", "relock"}
             /\ Frame(p, c) \in LinkFrames(x) <=> x = s /\ p = "link"
  <2>1. p \in Points
    BY StopPoints
  <2> QED
    BY <1>1, <2>1, LockFrame, NotifyFrame
<1> QED
  BY <1>2, <1>3

\* A return, another frame or a call, none of them of the set.
LEMMA LeavesReturn ==
    ASSUME NEW t, NEW f, NEW S, stack[t] # <<>>, Top(t) = f, Changes(t, {}), f \notin S
    PROVE  Leaves(t, S)
  BY DEF Leaves

\* Another frame.
LEMMA LeavesGoto ==
    ASSUME NEW t, NEW f, NEW S, stack[t] # <<>>, Top(t) = f, NEW g, Changes(t, {g}),
           f \notin S, g \notin S
    PROVE  Leaves(t, S)
<1>1. \A h \in {g} : h \notin S
  OBVIOUS
<1> QED
  BY <1>1 DEF Leaves

\* A call.
LEMMA LeavesCall ==
    ASSUME NEW t, NEW f, NEW S, stack[t] # <<>>, Top(t) = f, NEW g, NEW h, Changes(t, {g, h}),
           f \notin S, g \notin S, h \notin S
    PROVE  Leaves(t, S)
<1>1. \A k \in {g, h} : k \notin S
  OBVIOUS
<1> QED
  BY <1>1 DEF Leaves

\* A late request touches no lock.
LEMMA RequestLateLocks ==
    ASSUME Stacks, Locks, Notifying, NEW t \in Threads, NEW s \in Sources, RequestLate(t, s),
           NEW x \in Sources
    PROVE  Locked(x)' /\ Notified(x)'
<1>0. /\ Frame("request_stop", s) \notin LockFrames(x)
      /\ Frame("request_stop", s) \notin NotifyFrames(x)
      /\ Frame("request_stop", s) \notin LinkFrames(x)
  <2>1. "request_stop" \in Points /\ "notify" \in Points /\ s \in Sources \union Callbacks
    BY StopPoints
  <2> QED
    BY <2>1, LockFrame, NotifyFrame
<1>1. stack[t] # <<>> /\ Top(t) = Frame("request_stop", s) /\ Changes(t, {})
  BY DEF RequestLate, Top1
<1>2. Locked(x) /\ Notified(x)
  BY DEF Locks, Notifying
<1>3. ASSUME x # s PROVE Locked(x)' /\ Notified(x)'
  <2>1. src'[x] = src[x]
    BY <1>3 DEF RequestLate, OtherSources
  <2>2. Leaves(t, LockFrames(x)) /\ Leaves(t, NotifyFrames(x))
    BY <1>0, <1>1, <1>3, LeavesReturn
  <2> QED
    BY <1>2, <2>1, <2>2, LockStays, NotifyStays
<1>4. ASSUME x = s PROVE Locked(s)'
  <2>1. Leaves(t, LockFrames(s))
    BY <1>0, <1>1, <1>4, LeavesReturn
  <2>2. src'[s].locked = src[s].locked /\ src'[s].requested = src[s].requested
    BY DEF RequestLate
  <2> QED
    BY <1>2, <1>4, <2>1, <2>2, LockStays
<1>5. ASSUME x = s PROVE Notified(s)'
  <2>1. Leaves(t, NotifyFrames(s))
    BY <1>0, <1>1, <1>5, LeavesReturn
  <2>2. src'[s].requested = src[s].requested /\ src'[s].notifying = src[s].notifying
    BY DEF RequestLate
  <2>3. src'[s].callbacks = src[s].callbacks
    BY DEF RequestLate
  <2> QED
    BY <1>2, <1>5, <2>1, <2>2, <2>3, NotifyStays
<1> QED
  BY <1>3, <1>4, <1>5

\* The first request takes the lock and begins the call.
LEMMA RequestFirstLocks ==
    ASSUME Stacks, Locks, Notifying, NEW t \in Threads, NEW s \in Sources, RequestFirst(t, s),
           NEW x \in Sources
    PROVE  Locked(x)' /\ Notified(x)'
<1>0. /\ Frame("request_stop", s) \notin LockFrames(x)
      /\ Frame("request_stop", s) \notin NotifyFrames(x)
      /\ Frame("request_stop", s) \notin LinkFrames(x)
      /\ Frame("notify", s) \in LockFrames(x) <=> x = s
      /\ Frame("notify", s) \in NotifyFrames(x) <=> x = s
      /\ Frame("notify", s) \notin LinkFrames(x)
  <2>1. "request_stop" \in Points /\ "notify" \in Points /\ s \in Sources \union Callbacks
    BY StopPoints
  <2> QED
    BY <2>1, LockFrame, NotifyFrame
<1>1. stack[t] # <<>> /\ Top(t) = Frame("request_stop", s) /\ Changes(t, {Frame("notify", s)})
  BY DEF RequestFirst, Top1
<1>2. Locked(x) /\ Notified(x)
  BY DEF Locks, Notifying
<1>3. ASSUME x # s PROVE Locked(x)' /\ Notified(x)'
  <2>1. src'[x] = src[x]
    BY <1>3 DEF RequestFirst, OtherSources
  <2>2. Leaves(t, LockFrames(x)) /\ Leaves(t, NotifyFrames(x))
    BY <1>0, <1>1, <1>3, LeavesGoto
  <2> QED
    BY <1>2, <2>1, <2>2, LockStays, NotifyStays
<1>4. ASSUME x = s PROVE Locked(s)'
  <2>1. ~src[s].locked /\ src'[s].locked
    BY DEF RequestFirst
  <2> QED
    BY <1>0, <1>1, <1>2, <1>4, <2>1, LockTaken
<1>5. ASSUME x = s PROVE Notified(s)'
  <2>1. ~src[s].requested /\ src'[s].requested /\ src'[s].notifying = t
    BY DEF RequestFirst
  <2> QED
    BY <1>0, <1>1, <1>2, <1>5, <2>1, NotifyBegins
<1> QED
  BY <1>3, <1>4, <1>5

\* The last look at the list.
LEMMA NotifyEndLocks ==
    ASSUME Stacks, Locks, Notifying, NEW t \in Threads, NEW s \in Sources, NotifyEnd(t, s),
           NEW x \in Sources
    PROVE  Locked(x)' /\ Notified(x)'
<1>0. /\ Frame("notify", s) \in LockFrames(x) <=> x = s
      /\ Frame("notify", s) \in NotifyFrames(x) <=> x = s
      /\ Frame("notify", s) \notin LinkFrames(x)
  <2>1. "request_stop" \in Points /\ "notify" \in Points /\ s \in Sources \union Callbacks
    BY StopPoints
  <2> QED
    BY <2>1, LockFrame, NotifyFrame
<1>1. stack[t] # <<>> /\ Top(t) = Frame("notify", s) /\ Changes(t, {})
  BY DEF NotifyEnd, Top1
<1>2. Locked(x) /\ Notified(x)
  BY DEF Locks, Notifying
<1>3. ASSUME x # s PROVE Locked(x)' /\ Notified(x)'
  <2>1. src'[x] = src[x]
    BY <1>3 DEF NotifyEnd, OtherSources
  <2>2. Leaves(t, LockFrames(x)) /\ Leaves(t, NotifyFrames(x))
    BY <1>0, <1>1, <1>3, LeavesReturn
  <2> QED
    BY <1>2, <2>1, <2>2, LockStays, NotifyStays
<1>4. ASSUME x = s PROVE Locked(s)'
  BY <1>0, <1>1, <1>2, <1>4, LockReleased
<1>5. ASSUME x = s PROVE Notified(s)'
  <2>1. src'[s].callbacks = <<>>
    BY DEF NotifyEnd
  <2> QED
    BY <1>0, <1>1, <1>2, <1>5, <2>1, NotifyDone
<1> QED
  BY <1>3, <1>4, <1>5

\* The lock is released for the next callback.
LEMMA NotifyOneLocks ==
    ASSUME Stacks, Locks, Notifying, NEW t \in Threads, NEW s \in Sources, NEW c \in CallbacksOf(s), NotifyOne(t, s, c),
           NEW x \in Sources
    PROVE  Locked(x)' /\ Notified(x)'
<1>0. /\ Frame("notify", s) \in LockFrames(x) <=> x = s
      /\ Frame("notify", s) \in NotifyFrames(x) <=> x = s
      /\ Frame("notify", s) \notin LinkFrames(x)
      /\ Frame("run", c) \notin LockFrames(x)
      /\ Frame("run", c) \in NotifyFrames(x) <=> x = s
      /\ Frame("run", c) \notin LinkFrames(x)
  BY StopFrame
<1>1. stack[t] # <<>> /\ Top(t) = Frame("notify", s) /\ Changes(t, {Frame("run", c)})
  BY DEF NotifyOne, Top1
<1>2. Locked(x) /\ Notified(x)
  BY DEF Locks, Notifying
<1>3. ASSUME x # s PROVE Locked(x)' /\ Notified(x)'
  <2>1. src'[x] = src[x]
    BY <1>3 DEF NotifyOne, OtherSources
  <2>2. Leaves(t, LockFrames(x)) /\ Leaves(t, NotifyFrames(x))
    BY <1>0, <1>1, <1>3, LeavesGoto
  <2> QED
    BY <1>2, <2>1, <2>2, LockStays, NotifyStays
<1>4. ASSUME x = s PROVE Locked(s)'
  <2>1. \A f \in {Frame("run", c)} : f \notin LockFrames(s)
    BY <1>0, <1>4
  <2> QED
    BY <1>0, <1>1, <1>2, <1>4, <2>1, LockReleased
<1>5. ASSUME x = s PROVE Notified(s)'
  <2>1. src'[s].requested = src[s].requested /\ src'[s].notifying = src[s].notifying
    BY DEF NotifyOne
  <2>2. Frame("run", c) \in {Frame("run", c)} /\ \A g \in {Frame("run", c)} : g \in NotifyFrames(s) => g = Frame("run", c)
    BY <1>0, <1>5
  <2> QED
    BY <1>0, <1>1, <1>2, <1>5, <2>1, <2>2, NotifyGoes
<1> QED
  BY <1>3, <1>4, <1>5

\* The callback is run.
LEMMA RunOneLocks ==
    ASSUME Stacks, Locks, Notifying, NEW t \in Threads, NEW s \in Sources, NEW c \in CallbacksOf(s), RunOne(t, s, c),
           NEW x \in Sources
    PROVE  Locked(x)' /\ Notified(x)'
<1>0. /\ Frame("run", c) \notin LockFrames(x)
      /\ Frame("run", c) \in NotifyFrames(x) <=> x = s
      /\ Frame("run", c) \notin LinkFrames(x)
      /\ Frame("ran", c) \notin LockFrames(x)
      /\ Frame("ran", c) \in NotifyFrames(x) <=> x = s
      /\ Frame("ran", c) \notin LinkFrames(x)
      /\ Frame("callback", c) \notin LockFrames(x)
      /\ Frame("callback", c) \notin NotifyFrames(x)
      /\ Frame("callback", c) \notin LinkFrames(x)
  BY StopFrame
<1>1. stack[t] # <<>> /\ Top(t) = Frame("run", c) /\ Changes(t, {Frame("ran", c), Frame("callback", c)})
  BY DEF RunOne, Top1
<1>2. Locked(x) /\ Notified(x)
  BY DEF Locks, Notifying
<1>3. ASSUME x # s PROVE Locked(x)' /\ Notified(x)'
  <2>1. src'[x] = src[x]
    BY <1>3 DEF RunOne, OtherSources
  <2>2. Leaves(t, LockFrames(x)) /\ Leaves(t, NotifyFrames(x))
    BY <1>0, <1>1, <1>3, LeavesCall
  <2> QED
    BY <1>2, <2>1, <2>2, LockStays, NotifyStays
<1>4. ASSUME x = s PROVE Locked(s)'
  <2>1. Leaves(t, LockFrames(s))
    BY <1>0, <1>1, <1>4, LeavesCall
  <2>2. src'[s].locked = src[s].locked /\ src'[s].requested = src[s].requested
    BY DEF RunOne
  <2> QED
    BY <1>2, <1>4, <2>1, <2>2, LockStays
<1>5. ASSUME x = s PROVE Notified(s)'
  <2>1. src'[s].requested = src[s].requested /\ src'[s].notifying = src[s].notifying
    BY DEF RunOne
  <2>2. Frame("ran", c) \in {Frame("ran", c), Frame("callback", c)} /\ \A g \in {Frame("ran", c), Frame("callback", c)} : g \in NotifyFrames(s) => g = Frame("ran", c)
    BY <1>0, <1>5
  <2> QED
    BY <1>0, <1>1, <1>2, <1>5, <2>1, <2>2, NotifyGoes
<1> QED
  BY <1>3, <1>4, <1>5

\* The callback was destroyed meanwhile.
LEMMA RanRemovedLocks ==
    ASSUME Stacks, Locks, Notifying, NEW t \in Threads, NEW s \in Sources, NEW c \in CallbacksOf(s), RanRemoved(t, s, c),
           NEW x \in Sources
    PROVE  Locked(x)' /\ Notified(x)'
<1>0. /\ Frame("ran", c) \notin LockFrames(x)
      /\ Frame("ran", c) \in NotifyFrames(x) <=> x = s
      /\ Frame("ran", c) \notin LinkFrames(x)
      /\ Frame("relock", c) \notin LockFrames(x)
      /\ Frame("relock", c) \in NotifyFrames(x) <=> x = s
      /\ Frame("relock", c) \notin LinkFrames(x)
  BY StopFrame
<1>1. stack[t] # <<>> /\ Top(t) = Frame("ran", c) /\ Changes(t, {Frame("relock", c)})
  BY DEF RanRemoved, Top1
<1>2. Locked(x) /\ Notified(x)
  BY DEF Locks, Notifying
<1>3. ASSUME x # s PROVE Locked(x)' /\ Notified(x)'
  <2>1. src'[x] = src[x]
    BY <1>3 DEF RanRemoved, OtherSources
  <2>2. Leaves(t, LockFrames(x)) /\ Leaves(t, NotifyFrames(x))
    BY <1>0, <1>1, <1>3, LeavesGoto
  <2> QED
    BY <1>2, <2>1, <2>2, LockStays, NotifyStays
<1>4. ASSUME x = s PROVE Locked(s)'
  <2>1. Leaves(t, LockFrames(s))
    BY <1>0, <1>1, <1>4, LeavesGoto
  <2>2. src'[s].locked = src[s].locked /\ src'[s].requested = src[s].requested
    BY DEF RanRemoved
  <2> QED
    BY <1>2, <1>4, <2>1, <2>2, LockStays
<1>5. ASSUME x = s PROVE Notified(s)'
  <2>1. src'[s].requested = src[s].requested /\ src'[s].notifying = src[s].notifying
    BY DEF RanRemoved
  <2>2. Frame("relock", c) \in {Frame("relock", c)} /\ \A g \in {Frame("relock", c)} : g \in NotifyFrames(s) => g = Frame("relock", c)
    BY <1>0, <1>5
  <2> QED
    BY <1>0, <1>1, <1>2, <1>5, <2>1, <2>2, NotifyGoes
<1> QED
  BY <1>3, <1>4, <1>5

\* The callback was not destroyed.
LEMMA RanAliveLocks ==
    ASSUME Stacks, Locks, Notifying, NEW t \in Threads, NEW s \in Sources, NEW c \in CallbacksOf(s), RanAlive(t, s, c),
           NEW x \in Sources
    PROVE  Locked(x)' /\ Notified(x)'
<1>0. /\ Frame("ran", c) \notin LockFrames(x)
      /\ Frame("ran", c) \in NotifyFrames(x) <=> x = s
      /\ Frame("ran", c) \notin LinkFrames(x)
      /\ Frame("relock", c) \notin LockFrames(x)
      /\ Frame("relock", c) \in NotifyFrames(x) <=> x = s
      /\ Frame("relock", c) \notin LinkFrames(x)
  BY StopFrame
<1>1. stack[t] # <<>> /\ Top(t) = Frame("ran", c) /\ Changes(t, {Frame("relock", c)})
  BY DEF RanAlive, Top1
<1>2. Locked(x) /\ Notified(x)
  BY DEF Locks, Notifying
<1>3. ASSUME x # s PROVE Locked(x)' /\ Notified(x)'
  <2>1. src'[x] = src[x]
    BY <1>3 DEF RanAlive, OtherSources
  <2>2. Leaves(t, LockFrames(x)) /\ Leaves(t, NotifyFrames(x))
    BY <1>0, <1>1, <1>3, LeavesGoto
  <2> QED
    BY <1>2, <2>1, <2>2, LockStays, NotifyStays
<1>4. ASSUME x = s PROVE Locked(s)'
  <2>1. Leaves(t, LockFrames(s))
    BY <1>0, <1>1, <1>4, LeavesGoto
  <2>2. src'[s].locked = src[s].locked /\ src'[s].requested = src[s].requested
    BY DEF RanAlive
  <2> QED
    BY <1>2, <1>4, <2>1, <2>2, LockStays
<1>5. ASSUME x = s PROVE Notified(s)'
  <2>1. src'[s].requested = src[s].requested /\ src'[s].notifying = src[s].notifying
    BY DEF RanAlive
  <2>2. Frame("relock", c) \in {Frame("relock", c)} /\ \A g \in {Frame("relock", c)} : g \in NotifyFrames(s) => g = Frame("relock", c)
    BY <1>0, <1>5
  <2> QED
    BY <1>0, <1>1, <1>2, <1>5, <2>1, <2>2, NotifyGoes
<1> QED
  BY <1>3, <1>4, <1>5

\* The lock is taken again.
LEMMA LockedAgainLocks ==
    ASSUME Stacks, Locks, Notifying, NEW t \in Threads, NEW s \in Sources, NEW c \in CallbacksOf(s), LockedAgain(t, s, c),
           NEW x \in Sources
    PROVE  Locked(x)' /\ Notified(x)'
<1>0. /\ Frame("relock", c) \notin LockFrames(x)
      /\ Frame("relock", c) \in NotifyFrames(x) <=> x = s
      /\ Frame("relock", c) \notin LinkFrames(x)
      /\ Frame("notify", s) \in LockFrames(x) <=> x = s
      /\ Frame("notify", s) \in NotifyFrames(x) <=> x = s
      /\ Frame("notify", s) \notin LinkFrames(x)
  BY StopFrame
<1>1. stack[t] # <<>> /\ Top(t) = Frame("relock", c) /\ Changes(t, {Frame("notify", s)})
  BY DEF LockedAgain, Top1
<1>2. Locked(x) /\ Notified(x)
  BY DEF Locks, Notifying
<1>3. ASSUME x # s PROVE Locked(x)' /\ Notified(x)'
  <2>1. src'[x] = src[x]
    BY <1>3 DEF LockedAgain, OtherSources
  <2>2. Leaves(t, LockFrames(x)) /\ Leaves(t, NotifyFrames(x))
    BY <1>0, <1>1, <1>3, LeavesGoto
  <2> QED
    BY <1>2, <2>1, <2>2, LockStays, NotifyStays
<1>4. ASSUME x = s PROVE Locked(s)'
  <2>1. ~src[s].locked /\ src'[s].locked
    BY DEF LockedAgain
  <2> QED
    BY <1>0, <1>1, <1>2, <1>4, <2>1, LockTaken
<1>5. ASSUME x = s PROVE Notified(s)'
  <2>1. src'[s].requested = src[s].requested /\ src'[s].notifying = src[s].notifying
    BY DEF LockedAgain
  <2>2. Frame("notify", s) \in {Frame("notify", s)} /\ \A g \in {Frame("notify", s)} : g \in NotifyFrames(s) => g = Frame("notify", s)
    BY <1>0, <1>5
  <2> QED
    BY <1>0, <1>1, <1>2, <1>5, <2>1, <2>2, NotifyGoes
<1> QED
  BY <1>3, <1>4, <1>5

\* A constructor that comes late.
LEMMA AddLateLocks ==
    ASSUME Stacks, Locks, Notifying, NEW t \in Threads, NEW s \in Sources, NEW c \in CallbacksOf(s), AddLate(t, s, c),
           NEW x \in Sources
    PROVE  Locked(x)' /\ Notified(x)'
<1>0. /\ Frame("add", c) \notin LockFrames(x)
      /\ Frame("add", c) \notin NotifyFrames(x)
      /\ Frame("add", c) \notin LinkFrames(x)
      /\ Frame("callback", c) \notin LockFrames(x)
      /\ Frame("callback", c) \notin NotifyFrames(x)
      /\ Frame("callback", c) \notin LinkFrames(x)
  BY StopFrame
<1>1. stack[t] # <<>> /\ Top(t) = Frame("add", c) /\ Changes(t, {Frame("callback", c)})
  BY DEF AddLate, Top1
<1>2. Locked(x) /\ Notified(x)
  BY DEF Locks, Notifying
<1>3. ASSUME x # s PROVE Locked(x)' /\ Notified(x)'
  <2>1. src'[x] = src[x]
    BY <1>3 DEF AddLate, OtherSources
  <2>2. Leaves(t, LockFrames(x)) /\ Leaves(t, NotifyFrames(x))
    BY <1>0, <1>1, <1>3, LeavesGoto
  <2> QED
    BY <1>2, <2>1, <2>2, LockStays, NotifyStays
<1>4. ASSUME x = s PROVE Locked(s)'
  <2>1. Leaves(t, LockFrames(s))
    BY <1>0, <1>1, <1>4, LeavesGoto
  <2>2. src'[s].locked = src[s].locked /\ src'[s].requested = src[s].requested
    BY DEF AddLate
  <2> QED
    BY <1>2, <1>4, <2>1, <2>2, LockStays
<1>5. ASSUME x = s PROVE Notified(s)'
  <2>1. Leaves(t, NotifyFrames(s))
    BY <1>0, <1>1, <1>5, LeavesGoto
  <2>2. src'[s].requested = src[s].requested /\ src'[s].notifying = src[s].notifying
    BY DEF AddLate
  <2>3. src'[s].callbacks = src[s].callbacks
    BY DEF AddLate
  <2> QED
    BY <1>2, <1>5, <2>1, <2>2, <2>3, NotifyStays
<1> QED
  BY <1>3, <1>4, <1>5

\* A constructor takes the lock.
LEMMA AddLocksLocks ==
    ASSUME Stacks, Locks, Notifying, NEW t \in Threads, NEW s \in Sources, NEW c \in CallbacksOf(s), AddLocks(t, s, c),
           NEW x \in Sources
    PROVE  Locked(x)' /\ Notified(x)'
<1>0. /\ Frame("add", c) \notin LockFrames(x)
      /\ Frame("add", c) \notin NotifyFrames(x)
      /\ Frame("add", c) \notin LinkFrames(x)
      /\ Frame("link", c) \in LockFrames(x) <=> x = s
      /\ Frame("link", c) \notin NotifyFrames(x)
      /\ Frame("link", c) \in LinkFrames(x) <=> x = s
  BY StopFrame
<1>1. stack[t] # <<>> /\ Top(t) = Frame("add", c) /\ Changes(t, {Frame("link", c)})
  BY DEF AddLocks, Top1
<1>2. Locked(x) /\ Notified(x)
  BY DEF Locks, Notifying
<1>3. ASSUME x # s PROVE Locked(x)' /\ Notified(x)'
  <2>1. src'[x] = src[x]
    BY <1>3 DEF AddLocks, OtherSources
  <2>2. Leaves(t, LockFrames(x)) /\ Leaves(t, NotifyFrames(x))
    BY <1>0, <1>1, <1>3, LeavesGoto
  <2> QED
    BY <1>2, <2>1, <2>2, LockStays, NotifyStays
<1>4. ASSUME x = s PROVE Locked(s)'
  <2>1. ~src[s].locked /\ src'[s].locked /\ ~src'[s].requested
    BY DEF AddLocks
  <2> QED
    BY <1>0, <1>1, <1>2, <1>4, <2>1, LockTaken
<1>5. ASSUME x = s PROVE Notified(s)'
  <2>1. Leaves(t, NotifyFrames(s))
    BY <1>0, <1>1, <1>5, LeavesGoto
  <2>2. src'[s].requested = src[s].requested /\ src'[s].notifying = src[s].notifying
    BY DEF AddLocks
  <2>3. src'[s].callbacks = src[s].callbacks
    BY DEF AddLocks
  <2> QED
    BY <1>2, <1>5, <2>1, <2>2, <2>3, NotifyStays
<1> QED
  BY <1>3, <1>4, <1>5

\* A constructor releases it.
LEMMA LinksLocks ==
    ASSUME Stacks, Locks, Notifying, NEW t \in Threads, NEW s \in Sources, NEW c \in CallbacksOf(s), Links(t, s, c),
           NEW x \in Sources
    PROVE  Locked(x)' /\ Notified(x)'
<1>0. /\ Frame("link", c) \in LockFrames(x) <=> x = s
      /\ Frame("link", c) \notin NotifyFrames(x)
      /\ Frame("link", c) \in LinkFrames(x) <=> x = s
  BY StopFrame
<1>1. stack[t] # <<>> /\ Top(t) = Frame("link", c) /\ Changes(t, {})
  BY DEF Links, Top1
<1>2. Locked(x) /\ Notified(x)
  BY DEF Locks, Notifying
<1>3. ASSUME x # s PROVE Locked(x)' /\ Notified(x)'
  <2>1. src'[x] = src[x]
    BY <1>3 DEF Links, OtherSources
  <2>2. Leaves(t, LockFrames(x)) /\ Leaves(t, NotifyFrames(x))
    BY <1>0, <1>1, <1>3, LeavesReturn
  <2> QED
    BY <1>2, <2>1, <2>2, LockStays, NotifyStays
<1>4. ASSUME x = s PROVE Locked(s)'
  BY <1>0, <1>1, <1>2, <1>4, LockReleased
<1>5. ASSUME x = s PROVE Notified(s)'
  <2>1. Leaves(t, NotifyFrames(s))
    BY <1>0, <1>1, <1>5, LeavesReturn
  <2>2. src'[s].requested = src[s].requested /\ src'[s].notifying = src[s].notifying
    BY DEF Links
  <2>3. Len(stack[t]) \in DOMAIN stack[t] /\ stack[t][Len(stack[t])] \in LinkFrames(s)
    BY <1>0, <1>1, <1>5, StackShape DEF Top, Stacks
  <2>4. Occurs(LinkFrames(s))
    BY <2>3 DEF Occurs
  <2>5. ~src[s].requested
    BY <1>2, <1>5, <2>4 DEF Locked
  <2> QED
    BY <1>2, <1>5, <2>1, <2>2, <2>5, NotifyStays
<1> QED
  BY <1>3, <1>4, <1>5

\* A destructor with nothing to do.
LEMMA RemoveDetachedLocks ==
    ASSUME Stacks, Locks, Notifying, NEW t \in Threads, NEW s \in Sources, NEW c \in CallbacksOf(s), RemoveDetached(t, s, c),
           NEW x \in Sources
    PROVE  Locked(x)' /\ Notified(x)'
<1>0. /\ Frame("remove", c) \notin LockFrames(x)
      /\ Frame("remove", c) \notin NotifyFrames(x)
      /\ Frame("remove", c) \notin LinkFrames(x)
  BY StopFrame
<1>1. stack[t] # <<>> /\ Top(t) = Frame("remove", c) /\ Changes(t, {})
  BY DEF RemoveDetached, Top1
<1>2. Locked(x) /\ Notified(x)
  BY DEF Locks, Notifying
<1>3. ASSUME x # s PROVE Locked(x)' /\ Notified(x)'
  <2>1. src'[x] = src[x]
    BY <1>3 DEF RemoveDetached, OtherSources
  <2>2. Leaves(t, LockFrames(x)) /\ Leaves(t, NotifyFrames(x))
    BY <1>0, <1>1, <1>3, LeavesReturn
  <2> QED
    BY <1>2, <2>1, <2>2, LockStays, NotifyStays
<1>4. ASSUME x = s PROVE Locked(s)'
  <2>1. Leaves(t, LockFrames(s))
    BY <1>0, <1>1, <1>4, LeavesReturn
  <2>2. src'[s].locked = src[s].locked /\ src'[s].requested = src[s].requested
    BY DEF RemoveDetached
  <2> QED
    BY <1>2, <1>4, <2>1, <2>2, LockStays
<1>5. ASSUME x = s PROVE Notified(s)'
  <2>1. Leaves(t, NotifyFrames(s))
    BY <1>0, <1>1, <1>5, LeavesReturn
  <2>2. src'[s].requested = src[s].requested /\ src'[s].notifying = src[s].notifying
    BY DEF RemoveDetached
  <2>3. src'[s].callbacks = src[s].callbacks
    BY DEF RemoveDetached
  <2> QED
    BY <1>2, <1>5, <2>1, <2>2, <2>3, NotifyStays
<1> QED
  BY <1>3, <1>4, <1>5

\* A destructor takes the lock.
LEMMA RemoveLocksLocks ==
    ASSUME Stacks, Locks, Notifying, NEW t \in Threads, NEW s \in Sources, NEW c \in CallbacksOf(s), RemoveLocks(t, s, c),
           NEW x \in Sources
    PROVE  Locked(x)' /\ Notified(x)'
<1>0. /\ Frame("remove", c) \notin LockFrames(x)
      /\ Frame("remove", c) \notin NotifyFrames(x)
      /\ Frame("remove", c) \notin LinkFrames(x)
      /\ Frame("unlink", c) \in LockFrames(x) <=> x = s
      /\ Frame("unlink", c) \notin NotifyFrames(x)
      /\ Frame("unlink", c) \notin LinkFrames(x)
  BY StopFrame
<1>1. stack[t] # <<>> /\ Top(t) = Frame("remove", c) /\ Changes(t, {Frame("unlink", c)})
  BY DEF RemoveLocks, Top1
<1>2. Locked(x) /\ Notified(x)
  BY DEF Locks, Notifying
<1>3. ASSUME x # s PROVE Locked(x)' /\ Notified(x)'
  <2>1. src'[x] = src[x]
    BY <1>3 DEF RemoveLocks, OtherSources
  <2>2. Leaves(t, LockFrames(x)) /\ Leaves(t, NotifyFrames(x))
    BY <1>0, <1>1, <1>3, LeavesGoto
  <2> QED
    BY <1>2, <2>1, <2>2, LockStays, NotifyStays
<1>4. ASSUME x = s PROVE Locked(s)'
  <2>1. ~src[s].locked /\ src'[s].locked
    BY DEF RemoveLocks
  <2> QED
    BY <1>0, <1>1, <1>2, <1>4, <2>1, LockTaken
<1>5. ASSUME x = s PROVE Notified(s)'
  <2>1. Leaves(t, NotifyFrames(s))
    BY <1>0, <1>1, <1>5, LeavesGoto
  <2>2. src'[s].requested = src[s].requested /\ src'[s].notifying = src[s].notifying
    BY DEF RemoveLocks
  <2>3. src'[s].callbacks = src[s].callbacks
    BY DEF RemoveLocks
  <2> QED
    BY <1>2, <1>5, <2>1, <2>2, <2>3, NotifyStays
<1> QED
  BY <1>3, <1>4, <1>5

\* It takes a listed callback out and releases the lock.
LEMMA UnlinkListedLocks ==
    ASSUME Stacks, Locks, Notifying, NEW t \in Threads, NEW s \in Sources, NEW c \in CallbacksOf(s), UnlinkListed(t, s, c), src[s].callbacks # <<>>,
           NEW x \in Sources
    PROVE  Locked(x)' /\ Notified(x)'
<1>0. /\ Frame("unlink", c) \in LockFrames(x) <=> x = s
      /\ Frame("unlink", c) \notin NotifyFrames(x)
      /\ Frame("unlink", c) \notin LinkFrames(x)
  BY StopFrame
<1>1. stack[t] # <<>> /\ Top(t) = Frame("unlink", c) /\ Changes(t, {})
  BY DEF UnlinkListed, Top1
<1>2. Locked(x) /\ Notified(x)
  BY DEF Locks, Notifying
<1>3. ASSUME x # s PROVE Locked(x)' /\ Notified(x)'
  <2>1. src'[x] = src[x]
    BY <1>3 DEF UnlinkListed, OtherSources
  <2>2. Leaves(t, LockFrames(x)) /\ Leaves(t, NotifyFrames(x))
    BY <1>0, <1>1, <1>3, LeavesReturn
  <2> QED
    BY <1>2, <2>1, <2>2, LockStays, NotifyStays
<1>4. ASSUME x = s PROVE Locked(s)'
  BY <1>0, <1>1, <1>2, <1>4, LockReleased
<1>5. ASSUME x = s PROVE Notified(s)'
  <2>1. Leaves(t, NotifyFrames(s))
    BY <1>0, <1>1, <1>5, LeavesReturn
  <2>2. src'[s].requested = src[s].requested /\ src'[s].notifying = src[s].notifying
    BY DEF UnlinkListed
  <2> QED
    BY <1>2, <1>5, <2>1, <2>2, NotifyStays
<1> QED
  BY <1>3, <1>4, <1>5

\* It leaves a note and releases the lock.
LEMMA UnlinkOwnLocks ==
    ASSUME Stacks, Locks, Notifying, NEW t \in Threads, NEW s \in Sources, NEW c \in CallbacksOf(s), UnlinkOwn(t, s, c),
           NEW x \in Sources
    PROVE  Locked(x)' /\ Notified(x)'
<1>0. /\ Frame("unlink", c) \in LockFrames(x) <=> x = s
      /\ Frame("unlink", c) \notin NotifyFrames(x)
      /\ Frame("unlink", c) \notin LinkFrames(x)
  BY StopFrame
<1>1. stack[t] # <<>> /\ Top(t) = Frame("unlink", c) /\ Changes(t, {})
  BY DEF UnlinkOwn, Top1
<1>2. Locked(x) /\ Notified(x)
  BY DEF Locks, Notifying
<1>3. ASSUME x # s PROVE Locked(x)' /\ Notified(x)'
  <2>1. src'[x] = src[x]
    BY <1>3 DEF UnlinkOwn, OtherSources
  <2>2. Leaves(t, LockFrames(x)) /\ Leaves(t, NotifyFrames(x))
    BY <1>0, <1>1, <1>3, LeavesReturn
  <2> QED
    BY <1>2, <2>1, <2>2, LockStays, NotifyStays
<1>4. ASSUME x = s PROVE Locked(s)'
  BY <1>0, <1>1, <1>2, <1>4, LockReleased
<1>5. ASSUME x = s PROVE Notified(s)'
  <2>1. Leaves(t, NotifyFrames(s))
    BY <1>0, <1>1, <1>5, LeavesReturn
  <2>2. src'[s].requested = src[s].requested /\ src'[s].notifying = src[s].notifying
    BY DEF UnlinkOwn
  <2>3. src'[s].callbacks = src[s].callbacks
    BY DEF UnlinkOwn
  <2> QED
    BY <1>2, <1>5, <2>1, <2>2, <2>3, NotifyStays
<1> QED
  BY <1>3, <1>4, <1>5

\* It releases the lock and waits.
LEMMA UnlinkWaitsLocks ==
    ASSUME Stacks, Locks, Notifying, NEW t \in Threads, NEW s \in Sources, NEW c \in CallbacksOf(s), UnlinkWaits(t, s, c),
           NEW x \in Sources
    PROVE  Locked(x)' /\ Notified(x)'
<1>0. /\ Frame("unlink", c) \in LockFrames(x) <=> x = s
      /\ Frame("unlink", c) \notin NotifyFrames(x)
      /\ Frame("unlink", c) \notin LinkFrames(x)
      /\ Frame("await", c) \notin LockFrames(x)
      /\ Frame("await", c) \notin NotifyFrames(x)
      /\ Frame("await", c) \notin LinkFrames(x)
  BY StopFrame
<1>1. stack[t] # <<>> /\ Top(t) = Frame("unlink", c) /\ Changes(t, {Frame("await", c)})
  BY DEF UnlinkWaits, Top1
<1>2. Locked(x) /\ Notified(x)
  BY DEF Locks, Notifying
<1>3. ASSUME x # s PROVE Locked(x)' /\ Notified(x)'
  <2>1. src'[x] = src[x]
    BY <1>3 DEF UnlinkWaits, OtherSources
  <2>2. Leaves(t, LockFrames(x)) /\ Leaves(t, NotifyFrames(x))
    BY <1>0, <1>1, <1>3, LeavesGoto
  <2> QED
    BY <1>2, <2>1, <2>2, LockStays, NotifyStays
<1>4. ASSUME x = s PROVE Locked(s)'
  <2>1. \A f \in {Frame("await", c)} : f \notin LockFrames(s)
    BY <1>0, <1>4
  <2> QED
    BY <1>0, <1>1, <1>2, <1>4, <2>1, LockReleased
<1>5. ASSUME x = s PROVE Notified(s)'
  <2>1. Leaves(t, NotifyFrames(s))
    BY <1>0, <1>1, <1>5, LeavesGoto
  <2>2. src'[s].requested = src[s].requested /\ src'[s].notifying = src[s].notifying
    BY DEF UnlinkWaits
  <2>3. src'[s].callbacks = src[s].callbacks
    BY DEF UnlinkWaits
  <2> QED
    BY <1>2, <1>5, <2>1, <2>2, <2>3, NotifyStays
<1> QED
  BY <1>3, <1>4, <1>5

\* It has waited.
LEMMA AwaitEndsLocks ==
    ASSUME Stacks, Locks, Notifying, NEW t \in Threads, NEW s \in Sources, NEW c \in CallbacksOf(s), AwaitEnds(t, s, c),
           NEW x \in Sources
    PROVE  Locked(x)' /\ Notified(x)'
<1>0. /\ Frame("await", c) \notin LockFrames(x)
      /\ Frame("await", c) \notin NotifyFrames(x)
      /\ Frame("await", c) \notin LinkFrames(x)
  BY StopFrame
<1>1. stack[t] # <<>> /\ Top(t) = Frame("await", c) /\ Changes(t, {})
  BY DEF AwaitEnds, Top1
<1>2. Locked(x) /\ Notified(x)
  BY DEF Locks, Notifying
<1>3. ASSUME x # s PROVE Locked(x)' /\ Notified(x)'
  <2>1. src'[x] = src[x]
    BY <1>3 DEF AwaitEnds, OtherSources
  <2>2. Leaves(t, LockFrames(x)) /\ Leaves(t, NotifyFrames(x))
    BY <1>0, <1>1, <1>3, LeavesReturn
  <2> QED
    BY <1>2, <2>1, <2>2, LockStays, NotifyStays
<1>4. ASSUME x = s PROVE Locked(s)'
  <2>1. Leaves(t, LockFrames(s))
    BY <1>0, <1>1, <1>4, LeavesReturn
  <2>2. src'[s].locked = src[s].locked /\ src'[s].requested = src[s].requested
    BY DEF AwaitEnds
  <2> QED
    BY <1>2, <1>4, <2>1, <2>2, LockStays
<1>5. ASSUME x = s PROVE Notified(s)'
  <2>1. Leaves(t, NotifyFrames(s))
    BY <1>0, <1>1, <1>5, LeavesReturn
  <2>2. src'[s].requested = src[s].requested /\ src'[s].notifying = src[s].notifying
    BY DEF AwaitEnds
  <2>3. src'[s].callbacks = src[s].callbacks
    BY DEF AwaitEnds
  <2> QED
    BY <1>2, <1>5, <2>1, <2>2, <2>3, NotifyStays
<1> QED
  BY <1>3, <1>4, <1>5

\* A step between points that neither hold a lock nor run callbacks leaves
\* both as they are.
LEMMA WithinLeaves ==
    ASSUME NEW t, NEW A, NEW B, Within(t, A, B), NEW S, NEW P,
           \A f \in S : f.at \in P, A \intersect P = {}, B \intersect P = {}
    PROVE  Leaves(t, S)
  BY DEF Within, Leaves

\* The points of the frames that the locks and the notifying calls are about.
LEMMA StopSets ==
    ASSUME NEW s
    PROVE  /\ \A f \in LockFrames(s) : f.at \in {"notify", "link", "unlink", "run", "ran", "relock"}
           /\ \A f \in NotifyFrames(s) : f.at \in {"notify", "link", "unlink", "run", "ran", "relock"}
  BY DEF LockFrames, NotifyFrames, FramesAt

\* A constructor or destructor that works on a callback knows it is alive.
LEMMA TopSound ==
    ASSUME Stacks, CallbacksSound, NEW t \in Threads, NEW p, NEW c, Top1(t, p, c)
    PROVE  CallbackFrameSound(Frame(p, c))
<1>1. Len(stack[t]) \in DOMAIN stack[t] /\ stack[t][Len(stack[t])] = Frame(p, c)
  BY StackShape DEF Top1, Top, Stacks
<1> QED
  BY <1>1 DEF CallbacksSound

\* Each step keeps the locks and the notifying calls as they should be.
LEMMA LocksStep ==
    ASSUME TypeOK, Nested, Chain, Locks, Notifying, Listed, CallbacksSound, [Next]_vars
    PROVE  Locks' /\ Notifying'
<1> DEFINE Good(x) == Locked(x)' /\ Notified(x)'
           P == {"notify", "link", "unlink", "run", "ran", "relock"}
<1>0. Stacks
  BY DEF TypeOK, Stacks
<1> SUFFICES ASSUME NEW x \in Sources PROVE Good(x)
  BY DEF Locks, Notifying
<1>1. ASSUME NEW t \in Threads, Leaves(t, LockFrames(x)), Leaves(t, NotifyFrames(x)), src' = src
      PROVE  Good(x)
  BY <1>0, <1>1, LockStays, NotifyStays DEF Locks, Notifying
<1>2. ASSUME NEW t \in Threads, StopEvent(t) PROVE Good(x)
  <2>1. ASSUME NEW s \in Sources, RequestLate(t, s) \/ RequestFirst(t, s) \/ NotifyEnd(t, s)
        PROVE  Good(x)
    BY <1>0, <2>1, RequestLateLocks, RequestFirstLocks, NotifyEndLocks
  <2>2. ASSUME NEW s \in Sources, NEW c \in CallbacksOf(s), UnlinkListed(t, s, c)
        PROVE  Good(x)
    <3>1. Top1(t, "unlink", c) /\ cb[c].linked
      BY <2>2 DEF UnlinkListed
    <3>2. cb[c].life = "alive"
      <4>1. CallbackFrameSound(Frame("unlink", c))
        BY <1>0, <3>1, TopSound
      <4>2. Frame("unlink", c).at = "unlink" /\ Frame("unlink", c).of = c
        BY DEF Frame
      <4> QED
        BY <4>1, <4>2 DEF CallbackFrameSound, DestructorPoints
    <3>3. \E i \in DOMAIN src[s].callbacks : src[s].callbacks[i] = c
      BY <3>1, <3>2 DEF Listed
    <3>4. src[s].callbacks # <<>>
      BY <3>3
    <3> QED
      BY <1>0, <2>2, <3>4, UnlinkListedLocks
  <2>3. ASSUME NEW s \in Sources, NEW c \in CallbacksOf(s),
               \/ NotifyOne(t, s, c) \/ RunOne(t, s, c) \/ RanRemoved(t, s, c) \/ RanAlive(t, s, c)
               \/ LockedAgain(t, s, c) \/ AddLate(t, s, c) \/ AddLocks(t, s, c) \/ Links(t, s, c)
        PROVE  Good(x)
    BY <1>0, <2>3, NotifyOneLocks, RunOneLocks, RanRemovedLocks, RanAliveLocks, LockedAgainLocks,
       AddLateLocks, AddLocksLocks, LinksLocks
  <2>4. ASSUME NEW s \in Sources, NEW c \in CallbacksOf(s),
               \/ RemoveDetached(t, s, c) \/ RemoveLocks(t, s, c)
               \/ UnlinkOwn(t, s, c) \/ UnlinkWaits(t, s, c) \/ AwaitEnds(t, s, c)
        PROVE  Good(x)
    BY <1>0, <2>4, RemoveDetachedLocks, RemoveLocksLocks, UnlinkOwnLocks, UnlinkWaitsLocks, AwaitEndsLocks
  <2> QED
    BY <1>2, <2>1, <2>2, <2>3, <2>4 DEF StopEvent
<1>3. ASSUME NEW t \in Threads, ClientEvent(t) PROVE Good(x)
  <2>1. Within(t, ClientOnly, ClientNext) /\ src' = src
    BY <1>3, ClientShape
  <2>2. ClientOnly \intersect P = {} /\ ClientNext \intersect P = {}
    BY DEF ClientOnly, ClientNext, StartPoints, ChildPoints
  <2>3. Leaves(t, LockFrames(x)) /\ Leaves(t, NotifyFrames(x))
    BY <2>1, <2>2, WithinLeaves, StopSets
  <2> QED
    BY <1>1, <2>1, <2>3
<1>4. ASSUME NEW t \in Threads, NEW p, NEW y, p \notin P, stack[t] = <<>>, Changes(t, {Frame(p, y)}),
             src' = src
      PROVE  Good(x)
  <2>1. \A f \in {Frame(p, y)} : f.at \notin P
    BY <1>4 DEF Frame
  <2>2. Leaves(t, LockFrames(x)) /\ Leaves(t, NotifyFrames(x))
    BY <1>4, <2>1, StopSets DEF Leaves
  <2> QED
    BY <1>1, <1>4, <2>2
<1>5. ASSUME Asks PROVE Good(x)
  BY <1>4, <1>5, Constants DEF Asks
<1>6. ASSUME NEW c \in Children, Works(c) PROVE Good(x)
  BY <1>4, <1>6, Constants DEF Works
<1>7. ASSUME Stutter PROVE Good(x)
  BY <1>7 DEF Stutter, Locks, Notifying, Locked, Notified, Once, Occurs
<1> QED
  BY <1>2, <1>3, <1>5, <1>6, <1>7, NextEvents
-----------------------------------------------------------------------------
(* The list of callbacks.                                                   *)

In(q, d) == \E i \in DOMAIN q : q[i] = d

\* Taking a callback out of the list.
LEMMA UnlinkedSound ==
    ASSUME NEW S, NEW q \in Seq(S), NEW c, In(q, c)
    PROVE  /\ Unlinked(q, c) \in Seq(S)
           /\ IsInjective(q) => /\ IsInjective(Unlinked(q, c))
                                /\ \A d : In(Unlinked(q, c), d) <=> In(q, d) /\ d # c
<1>1. PICK k \in DOMAIN q : q[k] = c /\ Unlinked(q, c) = RemoveAt(q, k)
  BY DEF In, Unlinked
<1> DEFINE n == Len(q)
           a == SubSeq(q, 1, k - 1)
           b == SubSeq(q, k + 1, n)
           r == a \o b
<1>2. n \in Nat /\ DOMAIN q = 1 .. n /\ k \in 1 .. n /\ k - 1 \in Nat /\ n - k \in Nat
  BY <1>1
<1>3. Unlinked(q, c) = r
  BY <1>1 DEF RemoveAt
<1>4. a \in Seq(S) /\ Len(a) = k - 1 /\ \A i \in 1 .. (k - 1) : a[i] = q[i]
  <2>1. k - 1 <= n /\ 1 \in Nat
    BY <1>2
  <2>2. a \in Seq(S)
    BY <1>2, <2>1
  <2>3. Len(a) = k - 1
    BY <1>2, <2>1
  <2>4. \A i \in 1 .. (k - 1) : a[i] = q[i]
    BY <1>2, <2>1
  <2> QED
    BY <2>2, <2>3, <2>4
<1>5. b \in Seq(S) /\ Len(b) = n - k /\ \A i \in 1 .. (n - k) : b[i] = q[k + i]
  <2>1. b \in Seq(S)
    BY <1>2
  <2>2. Len(b) = n - k
    <3>1. CASE k + 1 <= n
      BY <1>2, <3>1
    <3>2. CASE k = n
      BY <1>2, <3>2
    <3> QED
      BY <1>2, <3>1, <3>2
  <2>3. ASSUME NEW i \in 1 .. (n - k) PROVE b[i] = q[k + i]
    <3>1. k + 1 <= n /\ k + 1 \in Nat /\ i \in 1 .. (n - (k + 1) + 1) /\ (k + 1) + i - 1 = k + i
      BY <1>2
    <3>2. b[i] = q[(k + 1) + i - 1]
      BY <1>2, <3>1
    <3> QED
      BY <3>1, <3>2
  <2> QED
    BY <2>1, <2>2, <2>3
<1> HIDE DEF a, b
<1>6. r \in Seq(S) /\ Len(r) = n - 1 /\ DOMAIN r = 1 .. (n - 1)
  <2>1. Len(r) = (k - 1) + (n - k)
    <3>1. a \in Seq(S) /\ b \in Seq(S)
      BY <1>4, <1>5
    <3>2. Len(a \o b) = Len(a) + Len(b)
      BY <3>1
    <3> QED
      BY <1>4, <1>5, <3>2
  <2>2. r \in Seq(S)
    BY <1>4, <1>5
  <2>3. (k - 1) + (n - k) = n - 1
    BY <1>2
  <2> HIDE DEF r
  <2> QED
    BY <2>1, <2>2, <2>3
<1>7. \A i \in 1 .. (k - 1) : r[i] = q[i]
  BY <1>2, <1>4, <1>5
<1>8. ASSUME NEW i \in k .. (n - 1) PROVE r[i] = q[i + 1]
  <2>1. i - (k - 1) \in 1 .. (n - k) /\ i = (k - 1) + (i - (k - 1)) /\ k + (i - (k - 1)) = i + 1
    BY <1>2
  <2>2. r[i] = b[i - (k - 1)]
    <3>1. PICK j \in 1 .. (n - k) : i = (k - 1) + j /\ j = i - (k - 1)
      BY <2>1
    <3>2. j \in 1 .. Len(b) /\ i = Len(a) + j /\ Len(a) \in Nat
      BY <1>2, <1>4, <1>5, <3>1
    <3>3. a \in Seq(S) /\ b \in Seq(S)
      BY <1>4, <1>5
    <3>4. \A m \in 1 .. Len(b) : (a \o b)[Len(a) + m] = b[m]
      BY <3>3
    <3> QED
      BY <3>1, <3>2, <3>4
  <2> QED
    BY <1>5, <2>1, <2>2
<1> HIDE DEF r, n
<1>9. \A i \in 1 .. (n - 1) : \/ i \in 1 .. (k - 1) /\ r[i] = q[i]
                              \/ i \in k .. (n - 1) /\ r[i] = q[i + 1]
  BY <1>2, <1>7, <1>8
<1>10. ASSUME IsInjective(q) PROVE IsInjective(r)
  <2>1. \A i, j \in 1 .. n : q[i] = q[j] => i = j
    BY <1>2, <1>10 DEF IsInjective
  <2>2. ASSUME NEW i \in 1 .. (n - 1), NEW j \in 1 .. (n - 1), r[i] = r[j] PROVE i = j
    <3>1. i \in 1 .. n /\ j \in 1 .. n /\ i + 1 \in 1 .. n /\ j + 1 \in 1 .. n
      BY <1>2
    <3> QED
      BY <1>2, <1>9, <2>1, <2>2, <3>1
  <2> QED
    BY <1>6, <2>2 DEF IsInjective
<1>11. ASSUME IsInjective(q), NEW d PROVE In(r, d) <=> In(q, d) /\ d # c
  <2>1. \A i, j \in 1 .. n : q[i] = q[j] => i = j
    BY <1>2, <1>11 DEF IsInjective
  <2>2. ASSUME In(r, d) PROVE In(q, d) /\ d # c
    <3>1. PICK i \in 1 .. (n - 1) : r[i] = d
      BY <1>6, <2>2 DEF In
    <3>2. i \in 1 .. n /\ i + 1 \in 1 .. n
      BY <1>2
    <3>3. CASE i \in 1 .. (k - 1) /\ r[i] = q[i]
      BY <1>1, <1>2, <2>1, <3>1, <3>2, <3>3 DEF In
    <3>4. CASE i \in k .. (n - 1) /\ r[i] = q[i + 1]
      BY <1>1, <1>2, <2>1, <3>1, <3>2, <3>4 DEF In
    <3> QED
      BY <1>9, <3>3, <3>4
  <2>3. ASSUME In(q, d), d # c PROVE In(r, d)
    <3>1. PICK i \in 1 .. n : q[i] = d
      BY <1>2, <2>3 DEF In
    <3>2. CASE i < k
      <4>1. i \in 1 .. (k - 1) /\ i \in 1 .. (n - 1)
        BY <1>2, <3>2
      <4> QED
        BY <1>6, <1>7, <3>1, <4>1 DEF In
    <3>3. CASE i > k
      <4>1. PICK j \in k .. (n - 1) : i = j + 1
        BY <1>2, <3>3
      <4>2. j \in 1 .. (n - 1) /\ r[j] = q[i]
        BY <1>2, <1>8, <4>1
      <4> QED
        BY <1>6, <3>1, <4>2 DEF In
    <3>4. i # k
      BY <1>1, <2>3, <3>1
    <3> QED
      BY <1>2, <3>2, <3>3, <3>4
  <2> QED
    BY <2>2, <2>3
<1> QED
  BY <1>3, <1>6, <1>10, <1>11

\* Taking the first one.
LEMMA TailSound ==
    ASSUME NEW S, NEW q \in Seq(S), q # <<>>
    PROVE  /\ Tail(q) \in Seq(S) /\ Head(q) \in S /\ In(q, Head(q))
           /\ IsInjective(q) => /\ IsInjective(Tail(q))
                                /\ \A d : In(Tail(q), d) <=> In(q, d) /\ d # Head(q)
<1> DEFINE n == Len(q)
           r == Tail(q)
<1>1. n \in Nat /\ n # 0 /\ DOMAIN q = 1 .. n /\ Head(q) = q[1] /\ 1 \in 1 .. n
  OBVIOUS
<1>2. r \in Seq(S) /\ Len(r) = n - 1 /\ DOMAIN r = 1 .. (n - 1)
  <2>1. r \in Seq(S) /\ Len(r) = n - 1
    OBVIOUS
  <2> QED
    BY <2>1
<1>3. \A i \in 1 .. (n - 1) : r[i] = q[i + 1] /\ i + 1 \in 1 .. n
  BY <1>1
<1>4. Head(q) \in S /\ In(q, Head(q))
  BY <1>1 DEF In
<1> HIDE DEF n, r
<1>5. ASSUME IsInjective(q) PROVE IsInjective(r)
  <2>1. \A i, j \in 1 .. n : q[i] = q[j] => i = j
    BY <1>1, <1>5 DEF IsInjective
  <2> QED
    BY <1>1, <1>2, <1>3, <2>1 DEF IsInjective
<1>6. ASSUME IsInjective(q), NEW d PROVE In(r, d) <=> In(q, d) /\ d # Head(q)
  <2>1. \A i, j \in 1 .. n : q[i] = q[j] => i = j
    BY <1>1, <1>6 DEF IsInjective
  <2>2. ASSUME In(r, d) PROVE In(q, d) /\ d # Head(q)
    <3>1. PICK i \in 1 .. (n - 1) : r[i] = d
      BY <1>2, <2>2 DEF In
    <3>2. i + 1 \in 1 .. n /\ i + 1 # 1 /\ q[i + 1] = d
      BY <1>1, <1>3, <3>1
    <3> QED
      BY <1>1, <2>1, <3>2 DEF In
  <2>3. ASSUME In(q, d), d # Head(q) PROVE In(r, d)
    <3>1. PICK i \in 1 .. n : q[i] = d
      BY <1>1, <2>3 DEF In
    <3>2. i # 1
      BY <1>1, <2>3, <3>1
    <3>3. PICK j \in 1 .. (n - 1) : i = j + 1
      BY <1>1, <3>2
    <3> QED
      BY <1>2, <1>3, <3>1, <3>3 DEF In
  <2> QED
    BY <2>2, <2>3
<1> QED
  BY <1>2, <1>4, <1>5, <1>6 DEF r

\* Putting one before the others.
LEMMA LinkedSound ==
    ASSUME NEW S, NEW q \in Seq(S), NEW c \in S
    PROVE  /\ <<c>> \o q \in Seq(S)
           /\ \A d : In(<<c>> \o q, d) <=> In(q, d) \/ d = c
           /\ IsInjective(q) /\ ~In(q, c) => IsInjective(<<c>> \o q)
<1> DEFINE n == Len(q)
           r == <<c>> \o q
<1>1. n \in Nat /\ DOMAIN q = 1 .. n
  OBVIOUS
<1>2. <<c>> \in Seq(S) /\ Len(<<c>>) = 1 /\ <<c>>[1] = c
  OBVIOUS
<1>3. r \in Seq(S) /\ Len(r) = n + 1
  <2>1. r \in Seq(S)
    BY <1>2
  <2>2. Len(r) = Len(<<c>>) + Len(q)
    BY <1>2
  <2> QED
    BY <1>1, <1>2, <2>1, <2>2
<1>4. r[1] = c /\ \A i \in 1 .. n : r[i + 1] = q[i]
  BY <1>1, <1>2
<1> HIDE DEF r, n
<1>5. DOMAIN r = 1 .. (n + 1)
  BY <1>3
<1>6. \A i \in 1 .. (n + 1) : i = 1 \/ \E j \in 1 .. n : i = j + 1
  <2> SUFFICES ASSUME NEW i \in 1 .. (n + 1), i # 1 PROVE \E j \in 1 .. n : i = j + 1
    OBVIOUS
  <2>1. i - 1 \in 1 .. n /\ i = (i - 1) + 1
    BY <1>1
  <2> QED
    BY <2>1
<1>7. ASSUME NEW d PROVE In(r, d) <=> In(q, d) \/ d = c
  <2>1. ASSUME In(r, d) PROVE In(q, d) \/ d = c
    <3>1. PICK i \in 1 .. (n + 1) : r[i] = d
      BY <1>5, <2>1 DEF In
    <3>2. i = 1 \/ \E j \in 1 .. n : i = j + 1
      BY <1>6
    <3> QED
      BY <1>1, <1>4, <3>1, <3>2 DEF In
  <2>2. ASSUME In(q, d) PROVE In(r, d)
    <3>1. PICK i \in 1 .. n : q[i] = d
      BY <1>1, <2>2 DEF In
    <3>2. i + 1 \in 1 .. (n + 1) /\ r[i + 1] = d
      BY <1>1, <1>4, <3>1
    <3> QED
      BY <1>5, <3>2 DEF In
  <2>3. In(r, c)
    <3>1. 1 \in 1 .. (n + 1)
      BY <1>1
    <3> QED
      BY <1>4, <1>5, <3>1 DEF In
  <2> QED
    BY <2>1, <2>2, <2>3
<1>8. ASSUME IsInjective(q), ~In(q, c) PROVE IsInjective(r)
  <2>1. \A i, j \in 1 .. n : q[i] = q[j] => i = j
    BY <1>1, <1>8 DEF IsInjective
  <2>2. \A i \in 1 .. n : q[i] # c
    BY <1>1, <1>8 DEF In
  <2>3. \A i, j \in 1 .. (n + 1) : r[i] = r[j] => i = j
    BY <1>4, <1>6, <2>1, <2>2
  <2> QED
    BY <1>5, <2>3 DEF IsInjective
<1> QED
  BY <1>3, <1>7, <1>8 DEF r
-----------------------------------------------------------------------------
(* The types are kept.                                                      *)

SourceRecords == [requested : BOOLEAN, locked : BOOLEAN, callbacks : Seq(Callbacks),
                  notifying : Threads \union {None}, removed : BOOLEAN]
CallbackRecords == [life : {"unborn", "alive", "dead"}, attached : BOOLEAN,
                    linked : BOOLEAN, flagged : BOOLEAN, completed : BOOLEAN]
SourcesOK == /\ src \in [Sources -> SourceRecords]
             /\ \A s \in Sources : src[s].callbacks \in Seq(CallbacksOf(s))
CallbacksOK == cb \in [Callbacks -> CallbackRecords]

\* A callback of a source is a callback.
LEMMA CallbackSeq ==
    ASSUME NEW s \in Sources, NEW q \in Seq(CallbacksOf(s))
    PROVE  q \in Seq(Callbacks)
<1>1. CallbacksOf(s) \subseteq Callbacks
  BY DEF CallbacksOf
<1> QED
  BY <1>1

\* Writing one source.
LEMMA SourceWritten ==
    ASSUME SourcesOK, NEW s \in Sources, NEW r \in SourceRecords, r.callbacks \in Seq(CallbacksOf(s)),
           src' = [src EXCEPT ![s] = r]
    PROVE  SourcesOK'
  BY DEF SourcesOK

\* Writing one callback.
LEMMA CallbackWritten ==
    ASSUME CallbacksOK, NEW c \in Callbacks, NEW r \in CallbackRecords, cb' = [cb EXCEPT ![c] = r]
    PROVE  CallbacksOK'
  BY DEF CallbacksOK

\* request_stop.
LEMMA RequestStopTypes ==
    ASSUME TypeOK, SourcesOK, CallbacksOK, Nested, NEW t \in Threads, RequestStop(t)
    PROVE  SourcesOK' /\ CallbacksOK'
<1>0. At(t, "request_stop") /\ cb' = cb
  BY DEF RequestStop
<1>1. Of(t) \in Sources
  BY <1>0, RequestTop
<1>2. CallbacksOK'
  BY <1>0 DEF CallbacksOK
<1>3. src' = src \/ src' = [src EXCEPT ![Of(t)].requested = TRUE, ![Of(t)].locked = TRUE,
                                       ![Of(t)].notifying = t]
  BY DEF RequestStop
<1>4. SourcesOK'
  <2> DEFINE s == Of(t)
  <2>1. CASE src' = src
    BY <2>1 DEF SourcesOK
  <2>2. CASE src' = [src EXCEPT ![s].requested = TRUE, ![s].locked = TRUE, ![s].notifying = t]
    <3>1. s \in Sources
      BY <1>1
    <3> HIDE DEF s
    <3> QED
      BY <2>2, <3>1 DEF SourcesOK, SourceRecords
  <2> QED
    BY <1>3, <2>1, <2>2
<1> QED
  BY <1>2, <1>4

\* The loop of request_stop.
LEMMA NotifyNextTypes ==
    ASSUME TypeOK, SourcesOK, CallbacksOK, Nested, NEW t \in Threads, NotifyNext(t)
    PROVE  SourcesOK' /\ CallbacksOK'
<1> DEFINE s == Of(t)
<1>0. At(t, "notify")
  BY DEF NotifyNext
<1>1. s \in Sources
  BY <1>0, RequestTop
<1>2. CASE src' = [src EXCEPT ![s].locked = FALSE] /\ cb' = cb
  BY <1>1, <1>2 DEF SourcesOK, SourceRecords, CallbacksOK
<1>3. CASE /\ src[s].callbacks # <<>>
           /\ src' = [src EXCEPT ![s].callbacks = Tail(@), ![s].locked = FALSE]
           /\ cb' = [cb EXCEPT ![Head(src[s].callbacks)].linked = FALSE]
  <2>1. src[s].callbacks \in Seq(CallbacksOf(s))
    BY <1>1 DEF SourcesOK
  <2>2. Head(src[s].callbacks) \in CallbacksOf(s) /\ Tail(src[s].callbacks) \in Seq(CallbacksOf(s))
    BY <1>3, <2>1, TailSound
  <2>3. Head(src[s].callbacks) \in Callbacks /\ Tail(src[s].callbacks) \in Seq(Callbacks)
    BY <1>1, <2>2, CallbackSeq, Apart
  <2>4. SourcesOK'
    BY <1>1, <1>3, <2>2, <2>3 DEF SourcesOK, SourceRecords
  <2>5. CallbacksOK'
    BY <1>3, <2>3 DEF CallbacksOK, CallbackRecords
  <2> QED
    BY <2>4, <2>5
<1> QED
  BY <1>2, <1>3 DEF NotifyNext

\* The run of a callback.
LEMMA RunTypes ==
    ASSUME TypeOK, SourcesOK, CallbacksOK, Nested, NEW t \in Threads,
           RunCallback(t) \/ CallbackRan(t) \/ Relock(t)
    PROVE  SourcesOK' /\ CallbacksOK'
<1> DEFINE c == Of(t)
           s == SourceOf[c]
<1>0. At(t, "run") \/ At(t, "ran") \/ At(t, "relock")
  BY DEF RunCallback, CallbackRan, Relock
<1>1. c \in Callbacks /\ s \in Sources
  BY <1>0, CallbackTop
<1>2. CASE RunCallback(t)
  <2>1. src' = [src EXCEPT ![s].removed = FALSE] /\ cb' = [cb EXCEPT ![c].flagged = TRUE]
    BY <1>2 DEF RunCallback
  <2>s. SourcesOK'
    BY <1>1, <2>1 DEF SourcesOK, SourceRecords
  <2>c. CallbacksOK'
    BY <1>1, <2>1 DEF CallbacksOK, CallbackRecords
  <2> QED
    BY <2>s, <2>c
<1>3. CASE CallbackRan(t)
  <2>1. src' = src /\ (cb' = cb \/ cb' = [cb EXCEPT ![c].flagged = FALSE, ![c].completed = TRUE])
    BY <1>3 DEF CallbackRan
  <2>s. SourcesOK'
    BY <2>1 DEF SourcesOK
  <2>c. CallbacksOK'
    <3>1. CASE cb' = [cb EXCEPT ![c].flagged = FALSE, ![c].completed = TRUE]
      <4> HIDE DEF c
      <4> QED
        BY <1>1, <3>1 DEF CallbacksOK, CallbackRecords
    <3> QED
      BY <2>1, <3>1 DEF CallbacksOK
  <2> QED
    BY <2>s, <2>c
<1>4. CASE Relock(t)
  <2>1. src' = [src EXCEPT ![s].locked = TRUE] /\ cb' = cb
    BY <1>4 DEF Relock
  <2> QED
    BY <1>1, <2>1 DEF SourcesOK, SourceRecords, CallbacksOK
<1> QED
  BY <1>2, <1>3, <1>4

\* The constructor.
LEMMA AddTypes ==
    ASSUME TypeOK, SourcesOK, CallbacksOK, Nested, NEW t \in Threads,
           TryAddCallback(t) \/ LinkCallback(t)
    PROVE  SourcesOK' /\ CallbacksOK'
<1> DEFINE c == Of(t)
           s == SourceOf[c]
<1>0. At(t, "add") \/ At(t, "link")
  BY DEF TryAddCallback, LinkCallback
<1>1. c \in Callbacks /\ s \in Sources /\ c \in CallbacksOf(s)
  BY <1>0, CallbackTop
<1>2. CASE TryAddCallback(t)
  <2>1. \/ src' = src /\ cb' = [cb EXCEPT ![c].attached = FALSE]
        \/ src' = [src EXCEPT ![s].locked = TRUE] /\ cb' = cb
    BY <1>2 DEF TryAddCallback
  <2>s. SourcesOK'
    <3>1. CASE src' = src
      BY <3>1 DEF SourcesOK
    <3>2. CASE src' = [src EXCEPT ![s].locked = TRUE]
      <4> HIDE DEF s
      <4> QED
        BY <1>1, <3>2 DEF SourcesOK, SourceRecords
    <3> QED
      BY <2>1, <3>1, <3>2
  <2>c. CallbacksOK'
    BY <1>1, <2>1 DEF CallbacksOK, CallbackRecords
  <2> QED
    BY <2>s, <2>c
<1>3. CASE LinkCallback(t)
  <2>1. /\ src' = [src EXCEPT ![s].callbacks = <<c>> \o @, ![s].locked = FALSE]
        /\ cb' = [cb EXCEPT ![c].linked = TRUE]
    BY <1>3 DEF LinkCallback
  <2>2. src[s].callbacks \in Seq(CallbacksOf(s))
    BY <1>1 DEF SourcesOK
  <2>3. <<c>> \o src[s].callbacks \in Seq(CallbacksOf(s))
    BY <1>1, <2>2, LinkedSound
  <2>4. <<c>> \o src[s].callbacks \in Seq(Callbacks)
    BY <1>1, <2>3, CallbackSeq
  <2>5. CallbacksOK'
    BY <1>1, <2>1 DEF CallbacksOK, CallbackRecords
  <2>6. SourcesOK'
    <3> DEFINE q == <<c>> \o src[s].callbacks
    <3>1. src' = [src EXCEPT ![s].callbacks = q, ![s].locked = FALSE]
      BY <2>1
    <3>2. q \in Seq(Callbacks) /\ q \in Seq(CallbacksOf(s))
      BY <2>3, <2>4
    <3> HIDE DEF q, s
    <3> QED
      BY <1>1, <3>1, <3>2 DEF SourcesOK, SourceRecords
  <2> QED
    BY <2>5, <2>6
<1> QED
  BY <1>2, <1>3

\* The destructor.
LEMMA RemoveTypes ==
    ASSUME TypeOK, SourcesOK, CallbacksOK, Nested, Listed, CallbacksSound, NEW t \in Threads,
           RemoveCallback(t) \/ UnlinkCallback(t) \/ AwaitCallback(t)
    PROVE  SourcesOK' /\ CallbacksOK'
<1> DEFINE c == Of(t)
           s == SourceOf[c]
<1>0. At(t, "remove") \/ At(t, "unlink") \/ At(t, "await")
  BY DEF RemoveCallback, UnlinkCallback, AwaitCallback
<1>1. c \in Callbacks /\ s \in Sources /\ c \in CallbacksOf(s)
  BY <1>0, CallbackTop
<1>2. CASE RemoveCallback(t)
  <2>1. \/ src' = src /\ cb' = [cb EXCEPT ![c].life = "dead"]
        \/ src' = [src EXCEPT ![s].locked = TRUE] /\ cb' = cb
    BY <1>2 DEF RemoveCallback
  <2>s. SourcesOK'
    <3>1. CASE src' = src
      BY <3>1 DEF SourcesOK
    <3>2. CASE src' = [src EXCEPT ![s].locked = TRUE]
      <4> HIDE DEF s
      <4> QED
        BY <1>1, <3>2 DEF SourcesOK, SourceRecords
    <3> QED
      BY <2>1, <3>1, <3>2
  <2>c. CallbacksOK'
    BY <1>1, <2>1 DEF CallbacksOK, CallbackRecords
  <2> QED
    BY <2>s, <2>c
<1>3. CASE AwaitCallback(t)
  <2>1. src' = src /\ (cb' = [cb EXCEPT ![c].life = "dead"] \/ cb' = cb)
    BY <1>3 DEF AwaitCallback
  <2> QED
    BY <1>1, <2>1 DEF SourcesOK, CallbacksOK, CallbackRecords
<1>4. CASE UnlinkCallback(t)
  <2>1. CASE /\ cb[c].linked /\ cb' = [cb EXCEPT ![c].life = "dead"]
             /\ src' = [src EXCEPT ![s].callbacks = Unlinked(@, c), ![s].locked = FALSE]
    <3>1. Stacks /\ Top1(t, "unlink", c)
      BY <1>4, CallbackTop DEF TypeOK, Stacks, UnlinkCallback
    <3>2. CallbackFrameSound(Frame("unlink", c))
      BY <3>1, TopSound
    <3>3. cb[c].life = "alive"
      <4>1. Frame("unlink", c).at = "unlink" /\ Frame("unlink", c).of = c
        BY DEF Frame
      <4> QED
        BY <3>2, <4>1 DEF CallbackFrameSound, DestructorPoints
    <3>4. In(src[s].callbacks, c)
      BY <1>1, <2>1, <3>3 DEF Listed, In
    <3>5. src[s].callbacks \in Seq(CallbacksOf(s))
      BY <1>1 DEF SourcesOK
    <3>6. Unlinked(src[s].callbacks, c) \in Seq(CallbacksOf(s))
      BY <3>4, <3>5, UnlinkedSound
    <3>7. Unlinked(src[s].callbacks, c) \in Seq(Callbacks)
      BY <1>1, <3>6, CallbackSeq
    <3>8. SourcesOK'
      <4> DEFINE q == Unlinked(src[s].callbacks, c)
      <4>1. src' = [src EXCEPT ![s].callbacks = q, ![s].locked = FALSE]
        BY <2>1
      <4>2. q \in Seq(Callbacks) /\ q \in Seq(CallbacksOf(s))
        BY <3>6, <3>7
      <4> HIDE DEF q, s
      <4> QED
        BY <1>1, <4>1, <4>2 DEF SourcesOK, SourceRecords
    <3>9. CallbacksOK'
      BY <1>1, <2>1 DEF CallbacksOK, CallbackRecords
    <3> QED
      BY <3>8, <3>9
  <2>2. CASE /\ src' = [src EXCEPT ![s].removed = @ \/ cb[c].flagged, ![s].locked = FALSE]
             /\ cb' = [cb EXCEPT ![c].life = "dead"]
    <3>1. CallbacksOK'
      BY <1>1, <2>2 DEF CallbacksOK, CallbackRecords
    <3>2. SourcesOK'
      <4> DEFINE b == src[s].removed \/ cb[c].flagged
      <4>1. src' = [src EXCEPT ![s].removed = b, ![s].locked = FALSE] /\ b \in BOOLEAN
        BY <2>2
      <4> HIDE DEF b
      <4> QED
        BY <1>1, <4>1 DEF SourcesOK, SourceRecords
    <3> QED
      BY <3>1, <3>2
  <2>3. CASE src' = [src EXCEPT ![s].locked = FALSE] /\ cb' = cb
    BY <1>1, <2>3 DEF SourcesOK, SourceRecords, CallbacksOK
  <2> QED
    BY <1>4, <2>1, <2>2, <2>3 DEF UnlinkCallback
<1> QED
  BY <1>2, <1>3, <1>4

\* The sources and the callbacks keep their types.
LEMMA StopTypes ==
    ASSUME TypeOK, SourcesOK, CallbacksOK, Nested, Listed, CallbacksSound, NEW t \in Threads,
           StopStep(t)
    PROVE  SourcesOK' /\ CallbacksOK'
  BY RequestStopTypes, NotifyNextTypes, RunTypes, AddTypes, RemoveTypes DEF StopStep

\* There are as many children as there are places in their order.
LEMMA ChildrenCounted ==
    IsFiniteSet(Children) /\ Cardinality(Children) = Len(ChildOrder) /\ Len(ChildOrder) \in Nat
<1> DEFINE n == Len(ChildOrder)
<1>1. n \in Nat /\ ChildOrder \in [1 .. n -> Children]
  <2>1. ChildOrder \in Seq(Children)
    BY ChildOrderSound
  <2> QED
    BY <2>1
<1>2. \A c \in Children : \E i \in 1 .. n : ChildOrder[i] = c
  BY ChildOrderSound
<1>3. IsInjective(ChildOrder)
  BY WhenAllConstants
<1> HIDE DEF n
<1>4. ChildOrder \in Bijection(1 .. n, Children)
  BY <1>1, <1>2, <1>3 DEF Bijection, Injection, Surjection
<1>5. ExistsBijection(1 .. n, Children)
  BY <1>4 DEF ExistsBijection
<1> QED
  BY <1>1, <1>5, FS_NatBijection, FS_CountingElements DEF n

PendingChildren == {c \in Children : Pending(c)}

\* The number of the pending children.
LEMMA PendingCounted ==
    /\ IsFiniteSet(PendingChildren) /\ Cardinality(PendingChildren) \in Nat
    /\ Cardinality(PendingChildren) = 0 <=> PendingChildren = {}
    /\ \A x \in PendingChildren : /\ IsFiniteSet(PendingChildren \ {x})
                                  /\ Cardinality(PendingChildren \ {x}) = Cardinality(PendingChildren) - 1
<1>1. PendingChildren \in SUBSET Children
  BY DEF PendingChildren
<1>2. IsFiniteSet(PendingChildren)
  BY <1>1, ChildrenCounted, FS_Subset
<1> HIDE DEF PendingChildren
<1> QED
  BY <1>2, FS_CardinalityType, FS_EmptySet, FS_RemoveElement

\* A child that arrives was pending, so the count is not 0.
LEMMA ArrivingPending ==
    ASSUME Stacks, Counted, NEW t \in Threads, NEW c \in Children, Top1(t, "arrive", c)
    PROVE  count \in Nat /\ count # 0 /\ c \in PendingChildren
           /\ count = Cardinality(PendingChildren)
<1>1. Len(stack[t]) \in DOMAIN stack[t] /\ stack[t][Len(stack[t])] = Frame("arrive", c)
  BY StackShape DEF Top1, Top, Stacks
<1>2. Frame("arrive", c) \in FramesAt({"emplace", "arrive"}, {c})
  BY ClientPoints, Constants, FrameIn
<1>3. c \in PendingChildren
  BY <1>1, <1>2 DEF PendingChildren, Pending, Occurs
<1>4. count = Cardinality(PendingChildren)
  BY DEF Counted, PendingChildren
<1> QED
  BY <1>3, <1>4, PendingCounted

OperationOK ==
    /\ stoppable \in BOOLEAN /\ kind \in [Children -> Kinds] /\ asked \in BOOLEAN
    /\ owner \in [Children -> Threads \union {None, "undecided"}]
    /\ cancelled \in [Children -> BOOLEAN]
    /\ count \in Nat
    /\ state \in {"started", "error", "stopped"}
    /\ errors \in Children \union {None}
    /\ values \in SUBSET Children
    /\ sent \in [Children -> {None, "set_value", "set_error", "set_stopped"}]
    /\ result \in Seq({"set_value", "set_error", "set_stopped"})

\* The operation's variables keep their types.
LEMMA OperationTypes ==
    ASSUME TypeOK, OperationOK, Counted, NEW t \in Threads, ClientEvent(t)
    PROVE  OperationOK'
<1>0. Stacks
  BY DEF TypeOK, Stacks
<1>s. ASSUME SameOperation PROVE OperationOK'
  BY <1>s DEF SameOperation, OperationOK
<1>1. ASSUME \/ StartStoppable(t) \/ StartNever(t) \/ CheckStops(t) \/ CheckGoes(t)
             \/ CallbackForwards(t)
      PROVE  OperationOK'
  BY <1>s, <1>1 DEF StartStoppable, StartNever, CheckStops, CheckGoes, CallbackForwards
<1>2. ASSUME NEW c \in Children,
             \/ StartAsync(t, c) \/ NextEnds(t, c) \/ Finishes(t, c) \/ ValueThrows(t, c)
             \/ \E signal \in Signals : StartInline(t, c, signal) \/ CompletesChild(t, c, signal)
             \/ \E i \in DOMAIN ChildOrder : NextStarts(t, c, i)
      PROVE  OperationOK'
  BY <1>s, <1>2
  DEF StartAsync, NextEnds, Finishes, ValueThrows, StartInline, CompletesChild, NextStarts
<1>3. ASSUME Abandons(t) PROVE OperationOK'
  BY <1>3 DEF Abandons, SameConfig, SameChild, SameOp, OperationOK
<1>4. ASSUME NEW c \in Children, HandEager(t, c) PROVE OperationOK'
  BY <1>4 DEF HandEager, SameConfig, SameOp, SameHistory, OperationOK
<1>5. ASSUME NEW c \in Children, HandOver(t, c) PROVE OperationOK'
  BY <1>5 DEF HandOver, SameConfig, SameOp, SameHistory, OperationOK
<1>6. ASSUME NEW c \in Children, CallbackFinishes(t, c) PROVE OperationOK'
  BY <1>6 DEF CallbackFinishes, SameConfig, SameOp, SameHistory, OperationOK
<1>7. ASSUME NEW c \in Children, CallbackNotes(t, c) PROVE OperationOK'
  BY <1>7 DEF CallbackNotes, SameConfig, SameOp, SameHistory, OperationOK
<1>8. ASSUME NEW c \in Children, SetsValue(t, c) PROVE OperationOK'
  BY <1>8 DEF SetsValue, SameConfig, SameChild, OperationOK
<1>9. ASSUME NEW c \in Children, ErrorLate(t, c) PROVE OperationOK'
  BY <1>9 DEF ErrorLate, SameConfig, SameChild, OperationOK
<1>10. ASSUME NEW c \in Children, ErrorFirst(t, c) PROVE OperationOK'
  BY <1>10 DEF ErrorFirst, SameConfig, SameChild, OperationOK
<1>11. ASSUME NEW c \in Children, Emplaces(t, c) PROVE OperationOK'
  BY <1>11 DEF Emplaces, SameConfig, SameChild, SameHistory, OperationOK
<1>12. ASSUME NEW c \in Children, StoppedFirst(t, c) PROVE OperationOK'
  BY <1>12 DEF StoppedFirst, SameConfig, SameChild, OperationOK
<1>13. ASSUME NEW c \in Children, StoppedLate(t, c) PROVE OperationOK'
  BY <1>13 DEF StoppedLate, SameConfig, SameChild, SameOp, OperationOK
<1>14. ASSUME NEW c \in Children,
              ArrivesEarly(t, c) \/ ArrivesLastStoppable(t, c) \/ ArrivesLast(t, c)
       PROVE  OperationOK'
  <2>1. Top1(t, "arrive", c)
    BY <1>14 DEF ArrivesEarly, ArrivesLastStoppable, ArrivesLast
  <2>2. count \in Nat /\ count # 0
    BY <1>0, <2>1, ArrivingPending
  <2>3. count' = count - 1 /\ SameConfig /\ asked' = asked /\ SameChild /\ state' = state
        /\ errors' = errors /\ values' = values /\ SameHistory
    BY <1>14 DEF ArrivesEarly, ArrivesLastStoppable, ArrivesLast
  <2>4. count' \in Nat
    BY <2>2, <2>3
  <2> QED
    BY <2>3, <2>4 DEF SameConfig, SameChild, SameHistory, OperationOK
<1>15. ASSUME NEW c \in Children, Delivers(t, c) PROVE OperationOK'
  <2>1. Outcome \in {"set_value", "set_error", "set_stopped"}
    BY DEF Outcome, OperationOK
  <2> QED
    BY <1>15, <2>1 DEF Delivers, SameConfig, SameChild, SameOp, OperationOK
<1> HIDE DEF OperationOK
<1> QED
  BY <1>1, <1>2, <1>3, <1>4, <1>5, <1>6, <1>7, <1>8, <1>9, <1>10, <1>11, <1>12, <1>13, <1>14, <1>15
  DEF ClientEvent

\* The actions of the operation leave the sources alone, and the callbacks
\* are callbacks.
LEMMA ClientTypes ==
    ASSUME TypeOK, Nested, SourcesOK, CallbacksOK, NEW t \in Threads,
           \/ Start(t) \/ CheckStopped(t) \/ Abandon(t) \/ StartChild(t) \/ HandOff(t)
           \/ StartNextChild(t) \/ InCallback(t) \/ FinishChild(t) \/ CompleteChild(t)
           \/ SetValue(t) \/ SetError(t) \/ EmplaceError(t) \/ SetStopped(t)
           \/ Arrive(t) \/ Deliver(t)
    PROVE  SourcesOK' /\ CallbacksOK'
<1>1. src' = src /\ (Start(t) \/ StartChild(t) \/ cb' = cb)
  BY DEF Start, CheckStopped, Abandon, StartChild, HandOff, StartNextChild, InCallback, FinishChild,
         CompleteChild, SetValue, SetError, EmplaceError, SetStopped, Arrive, Deliver
<1>2. SourcesOK'
  BY <1>1 DEF SourcesOK
<1>3. Born \in CallbackRecords
  BY DEF Born, Unborn, CallbackRecords
<1>4. CASE cb' = cb
  BY <1>2, <1>4 DEF CallbacksOK
<1>5. CASE Start(t)
  <2>1. cb' = cb \/ cb' = [cb EXCEPT ![OnStop] = Born]
    BY <1>5 DEF Start
  <2> QED
    BY <1>3, <1>2, <1>4, <2>1, Constants, CallbackWritten
<1>6. CASE StartChild(t)
  <2>1. Of(t) \in Callbacks
    BY <1>6, ChildTop DEF StartChild, ChainPoints
  <2>2. cb' = cb \/ cb' = [cb EXCEPT ![Of(t)] = Born]
    BY <1>6 DEF StartChild
  <2> QED
    BY <1>3, <1>2, <1>4, <2>1, <2>2, CallbackWritten
<1> QED
  BY <1>1, <1>2, <1>4, <1>5, <1>6

\* Each step keeps the types.
LEMMA TypeStep ==
    ASSUME TypeOK, Nested, Chain, Counted, Listed, CallbacksSound, [Next]_vars
    PROVE  TypeOK'
<1>0. SourcesOK /\ CallbacksOK /\ OperationOK /\ Stacks
  BY DEF TypeOK, SourcesOK, CallbacksOK, OperationOK, SourceRecords, CallbackRecords, Stacks
<1>1. Stacks'
  BY <1>0, NextShape, ChangesType DEF Stacks
<1>2. SourcesOK' /\ CallbacksOK'
  <2>0. ASSUME src' = src, cb' = cb PROVE SourcesOK' /\ CallbacksOK'
    BY <1>0, <2>0 DEF SourcesOK, CallbacksOK
  <2>1. CASE AskStop \/ (\E c \in Children : ChildWorks(c)) \/ Done \/ UNCHANGED vars
    <3>1. src' = src /\ cb' = cb
      BY <2>1 DEF AskStop, ChildWorks, Done, vars
    <3> QED
      BY <2>0, <3>1
  <2>2. ASSUME NEW t \in Threads, Step(t) PROVE SourcesOK' /\ CallbacksOK'
    BY <1>0, <2>2, StopTypes, ClientTypes DEF Step
  <2> QED
    BY <2>1, <2>2 DEF Next
<1>3. OperationOK'
  <2>1. ASSUME SameOperation PROVE OperationOK'
    BY <1>0, <2>1 DEF SameOperation, OperationOK
  <2>2. ASSUME NEW t \in Threads, ClientEvent(t) PROVE OperationOK'
    BY <1>0, <2>2, OperationTypes
  <2>3. ASSUME Asks PROVE OperationOK'
    BY <1>0, <2>3 DEF Asks, SameConfig, SameChild, SameOp, SameHistory, OperationOK
  <2>4. ASSUME NEW c \in Children, Works(c) PROVE OperationOK'
    <3>1. c \in Threads
      BY Constants
    <3> QED
      BY <1>0, <2>4, <3>1 DEF Works, SameConfig, SameOp, SameHistory, OperationOK
  <2> HIDE DEF OperationOK
  <2> QED
    BY <2>1, <2>2, <2>3, <2>4, NextEvents DEF Stutter
<1> QED
  BY <1>1, <1>2, <1>3
  DEF TypeOK, SourcesOK, CallbacksOK, OperationOK, SourceRecords, CallbackRecords, Stacks
-----------------------------------------------------------------------------
(* The completion of the children.                                          *)

\* New frames are frames.
LEMMA ChangesIn ==
    ASSUME NEW t, NEW N, Changes(t, N), NEW f \in N
    PROVE  f \in Frames
<1>1. PICK w \in Seq(Frames) : \E j \in 1 .. Len(w) : w[j] = f
  BY DEF Changes
<1> QED
  BY <1>1

\* What the innermost frame knows.
LEMMA ChainTop ==
    ASSUME Stacks, Chain, NEW t \in Threads, NEW p, NEW c, Top1(t, p, c)
    PROVE  ChainFrameSound(Frame(p, c)) /\ Frame(p, c).at = p /\ Frame(p, c).of = c
<1>1. Len(stack[t]) \in DOMAIN stack[t] /\ stack[t][Len(stack[t])] = Frame(p, c)
  BY StackShape DEF Top1, Top, Stacks
<1>2. ChainFrameSound(Frame(p, c))
  BY <1>1 DEF Chain
<1> QED
  BY <1>2 DEF Frame

\* The frames of a child's completion.
LEMMA ChainFrame ==
    ASSUME Stacks, Nested, NEW t \in Threads, NEW i \in DOMAIN stack[t],
           stack[t][i].at \in ChainPoints
    PROVE  stack[t][i].of \in Children /\ stack[t][i] \in ChainFrames(stack[t][i].of)
<1>1. stack[t][i].of \in Children
  BY FrameKinds DEF Known
<1>2. stack[t][i] \in Frames
  BY StackShape DEF Stacks
<1> QED
  BY <1>1, <1>2 DEF ChainFrames, FramesAt

\* No completion of a child is under way: nothing is known of its owner.
LEMMA NoChain ==
    ASSUME Stacks, Nested, Chain, NEW c \in Children, owner[c] = "undecided"
    PROVE  ~Occurs(ChainFrames(c))
<1> SUFFICES ASSUME NEW t \in Threads, NEW i \in DOMAIN stack[t], stack[t][i] \in ChainFrames(c)
             PROVE  FALSE
  BY DEF Occurs
<1>1. stack[t][i].at \in ChainPoints /\ stack[t][i].of = c
  BY DEF ChainFrames, FramesAt
<1>2. ChainFrameSound(stack[t][i])
  BY DEF Chain
<1> QED
  BY <1>1, <1>2 DEF ChainFrameSound

\* A step that begins, moves or ends the completion of one child.
LEMMA ChainMove ==
    ASSUME Stacks, Nested, Chain, NEW t \in Threads, NEW c \in Children, NEW N, Changes(t, N),
           (stack[t] # <<>> /\ Top(t) \in ChainFrames(c)) \/ ~Occurs(ChainFrames(c)),
           \A f \in N : f.at \in ChainPoints => f.of = c,
           \A f \in N : ChainFrameSound(f)',
           \A f, g \in N : f.at \in ChainPoints /\ g.at \in ChainPoints => f = g,
           \A x \in Children : x # c => owner'[x] = owner[x] /\ sent'[x] = sent[x],
           owner'[c] = "undecided" => sent'[c] = None,
           result' = result, count' = count \/ count # 0,
           \A f \in N : f.at = "deliver" => count # 0
    PROVE  Chain'
<1>1. ASSUME NEW x \in Children PROVE Once(ChainFrames(x))'
  <2>1. \A f \in N : f \in ChainFrames(x) => f.at \in ChainPoints /\ f.of = x
    BY DEF ChainFrames, FramesAt
  <2>2. \A f, g \in N : f \in ChainFrames(x) /\ g \in ChainFrames(x) => f = g
    BY <2>1
  <2>3. Once(ChainFrames(x))
    BY DEF Chain
  <2>4. (\E f \in N : f \in ChainFrames(x)) => x = c
    BY <2>1
  <2> QED
    BY <2>2, <2>3, <2>4, OnceStays
<1> DEFINE D == FramesAt({"deliver"}, Children)
<1>2. count # 0 => ~Occurs(D)
  <2> SUFFICES ASSUME NEW u \in Threads, NEW i \in DOMAIN stack[u], stack[u][i] \in D
               PROVE  count = 0
    BY DEF Occurs
  <2>1. stack[u][i].at = "deliver" /\ ChainFrameSound(stack[u][i])
    BY DEF FramesAt, Chain
  <2> QED
    BY <2>1 DEF ChainFrameSound
<1>3. Once(D)'
  <2>1. \A f \in N : f \in D => f.at = "deliver" /\ f.at \in ChainPoints
    BY DEF FramesAt, ChainPoints, ChildPoints
  <2>2. \A f, g \in N : f \in D /\ g \in D => f = g
    BY <2>1
  <2>3. (\E f \in N : f \in D) => ~Occurs(D)
    BY <1>2, <2>1
  <2>4. Once(D)
    BY DEF Chain
  <2> QED
    BY <2>2, <2>3, <2>4, OnceStays
<1>4. ASSUME NEW u \in Threads, NEW i \in DOMAIN stack'[u], NEW f, f = stack'[u][i]
      PROVE  ChainFrameSound(f)'
  <2>1. CASE stack'[u][i] \in N
    BY <1>4, <2>1
  <2>2. CASE /\ i \in DOMAIN stack[u] /\ stack'[u][i] = stack[u][i]
             /\ u = t => i # Len(stack[t])
    <3>0. f = stack[u][i]
      BY <1>4, <2>2
    <3>1. ChainFrameSound(f) /\ f \in Frames
      BY <2>2, <3>0, StackShape DEF Chain, Stacks
    <3>2. f.at \in ChainPoints => f.of \in Children /\ f \in ChainFrames(f.of)
      BY <2>2, <3>0, ChainFrame
    <3>3. f.at \in ChainPoints => f.of # c
      <4> SUFFICES ASSUME f \in ChainFrames(c) PROVE FALSE
        BY <3>2
      <4>1. Occurs(ChainFrames(c))
        BY <2>2, <3>0 DEF Occurs
      <4>2. stack[t] # <<>> /\ Top(t) \in ChainFrames(c) /\ Len(stack[t]) \in DOMAIN stack[t]
        BY <4>1, StackShape DEF Stacks
      <4>3. Once(ChainFrames(c))
        BY DEF Chain
      <4> QED
        BY <2>2, <3>0, <4>2, <4>3 DEF Once, Top
    <3>4. f.at = "deliver" => count = 0 /\ count' = 0
      BY <3>1 DEF ChainFrameSound
    <3>5. f.at \in {"start_child", "hand_off", "emplace", "arrive", "deliver"} => f.at \in ChainPoints
      BY DEF ChainPoints, ChildPoints
    <3> QED
      BY <3>1, <3>2, <3>3, <3>4, <3>5 DEF ChainFrameSound
  <2> QED
    BY <2>1, <2>2, ChangesFrames
<1>5. \A x \in Children : owner'[x] = "undecided" => sent'[x] = None
  BY DEF Chain
<1> QED
  BY <1>1, <1>3, <1>4, <1>5 DEF Chain, ChainFrameSound

\* A step that adds no frame of a completion.
LEMMA ChainQuiet ==
    ASSUME Stacks, Nested, Chain, NEW t \in Threads, NEW N, Changes(t, N),
           \A f \in N : f.at \notin ChainPoints /\ (f.at = "abandon" => result' = <<>>),
           owner' = owner, sent' = sent, count' = count,
           \/ result' = result
           \/ \A u \in Threads : \A i \in DOMAIN stack[u] :
                stack[u][i].at \in {"deliver", "abandon"} => u = t /\ i = Len(stack[t])
    PROVE  Chain'
<1>1. ASSUME NEW x \in Children PROVE Once(ChainFrames(x))'
  <2>1. \A f \in N : f \notin ChainFrames(x)
    BY DEF ChainFrames, FramesAt
  <2> QED
    BY <2>1, OnceStays DEF Chain
<1>2. Once(FramesAt({"deliver"}, Children))'
  <2>1. \A f \in N : f \notin FramesAt({"deliver"}, Children)
    BY DEF FramesAt, ChainPoints, ChildPoints
  <2> QED
    BY <2>1, OnceStays DEF Chain
<1>3. ASSUME NEW u \in Threads, NEW i \in DOMAIN stack'[u], NEW f, f = stack'[u][i]
      PROVE  ChainFrameSound(f)'
  <2>1. CASE stack'[u][i] \in N
    <3>1. f.at \notin ChainPoints /\ (f.at = "abandon" => result' = <<>>)
      BY <1>3, <2>1
    <3>2. {"start_child", "hand_off", "emplace", "arrive", "deliver"} \subseteq ChainPoints
      BY DEF ChainPoints, ChildPoints
    <3> QED
      BY <3>1, <3>2 DEF ChainFrameSound
  <2>2. CASE /\ i \in DOMAIN stack[u] /\ stack'[u][i] = stack[u][i]
             /\ u = t => i # Len(stack[t])
    <3>1. f = stack[u][i] /\ ChainFrameSound(f)
      BY <1>3, <2>2 DEF Chain
    <3>2. result' = result \/ f.at \notin {"deliver", "abandon"}
      BY <2>2, <3>1
    <3> QED
      BY <3>1, <3>2 DEF ChainFrameSound
  <2> QED
    BY <2>1, <2>2, ChangesFrames
<1>5. \A x \in Children : owner'[x] = "undecided" => sent'[x] = None
  BY DEF Chain
<1> QED
  BY <1>1, <1>2, <1>3, <1>5 DEF Chain, ChainFrameSound

\* The frames of start() are at the bottom of the stack of its thread.
LEMMA StartAt ==
    ASSUME Stacks, Nested, NEW t \in Threads, NEW p \in StartPoints, NEW x, Top1(t, p, x)
    PROVE  /\ t = Starter /\ Len(stack[t]) = 1 /\ stack[Starter] # <<>>
           /\ stack[Starter][1] = Frame(p, x) /\ Frame(p, x).at = p /\ Frame(p, x).of = x
<1>1. stack[t] # <<>> /\ Top(t) = Frame(p, x)
  BY DEF Top1
<1>2. Frame(p, x).at = p /\ Frame(p, x).of = x
  BY DEF Frame
<1>3. Known(t, Len(stack[t]), Top(t))
  BY <1>1, TopKnown
<1>4. t = Starter /\ Len(stack[t]) = 1
  BY <1>1, <1>2, <1>3 DEF Known
<1> QED
  BY <1>1, <1>2, <1>4 DEF Top

\* Before the children are started none has begun.
LEMMA NoneBegun ==
    ASSUME Stacks, Nested, StartOrder, NEW t \in Threads, NEW p \in {"start", "check", "abandon"},
           NEW x, Top1(t, p, x)
    PROVE  result = <<>> /\ \A c \in Children : ~Begun(c)
<1>1. p \in StartPoints
  BY DEF StartPoints
<1>2. stack[Starter] # <<>> /\ stack[Starter][1].at = p
  BY <1>1, StartAt
<1> QED
  BY <1>2 DEF StartOrder

\* The children are begun in order.
LEMMA NextNotBegun ==
    ASSUME Stacks, Nested, StartOrder, NEW t \in Threads,
           NEW p \in {"start_child", "hand_off", "started"},
           NEW i \in DOMAIN ChildOrder, Top1(t, p, ChildOrder[i])
    PROVE  \A j \in DOMAIN ChildOrder : Begun(ChildOrder[j]) <=> j <= i
<1>1. p \in StartPoints
  BY DEF StartPoints
<1>2. stack[Starter] # <<>> /\ stack[Starter][1].at = p /\ stack[Starter][1].of = ChildOrder[i]
  BY <1>1, StartAt
<1> QED
  BY <1>2 DEF StartOrder

\* A child's completion moves to another point, or begins there.
LEMMA ChainGo ==
    ASSUME Stacks, Nested, Chain, NEW t \in Threads, NEW c \in Children, NEW q \in ChainPoints,
           NEW N, Changes(t, N),
           \A f \in N : f = Frame(q, c) \/ f.at \notin ChainPoints \union {"abandon"},
           (stack[t] # <<>> /\ Top(t) \in ChainFrames(c)) \/ ~Occurs(ChainFrames(c)),
           \A x \in Children : x # c => owner'[x] = owner[x] /\ sent'[x] = sent[x],
           owner'[c] # "undecided",
           q \in {"start_child", "hand_off"} => owner'[c] = None,
           q \notin {"emplace", "arrive", "deliver"} => sent'[c] = None,
           q = "emplace" => sent'[c] = "set_error",
           q \in {"arrive", "deliver"} => sent'[c] # None,
           q = "deliver" => count' = 0 /\ count # 0 /\ result' = <<>>,
           result' = result, count' = count \/ count # 0
    PROVE  Chain'
<1>1. Frame(q, c).at = q /\ Frame(q, c).of = c
  BY DEF Frame
<1>2. \A f \in N : f.at \in ChainPoints => f.of = c /\ f = Frame(q, c)
  BY <1>1
<1>3. {"start_child", "hand_off", "emplace", "arrive", "deliver"} \subseteq ChainPoints
      /\ "abandon" \notin ChainPoints
  BY DEF ChainPoints, ChildPoints
<1>4. ASSUME NEW f \in N PROVE ChainFrameSound(f)'
  <2>1. CASE f = Frame(q, c)
    <3>1. f.at = q /\ f.of = c
      BY <1>1, <2>1
    <3> QED
      BY <1>3, <3>1 DEF ChainFrameSound
  <2>2. CASE f.at \notin ChainPoints \union {"abandon"}
    BY <1>3, <2>2 DEF ChainFrameSound
  <2> QED
    BY <2>1, <2>2
<1>5. \A f \in N : f.at = "deliver" => count # 0
  BY <1>1, <1>2, <1>3
<1> QED
  BY <1>2, <1>4, <1>5, ChainMove

\* The innermost frame is of a child's completion.
LEMMA ChainTopIn ==
    ASSUME Stacks, Chain, NEW t \in Threads, NEW p \in ChainPoints, NEW c \in Children, Top1(t, p, c)
    PROVE  /\ stack[t] # <<>> /\ Top(t) \in ChainFrames(c) /\ owner[c] # "undecided"
           /\ p \in {"start_child", "hand_off"} => owner[c] = None
           /\ p \in ChainPoints \ {"emplace", "arrive", "deliver"} => sent[c] = None
           /\ p = "emplace" => sent[c] = "set_error"
           /\ p \in {"arrive", "deliver"} => sent[c] # None
           /\ p = "deliver" => count = 0 /\ result = <<>>
<1>1. stack[t] # <<>> /\ Top(t) = Frame(p, c)
  BY DEF Top1
<1>2. ChainFrameSound(Frame(p, c)) /\ Frame(p, c).at = p /\ Frame(p, c).of = c
  BY ChainTop
<1>3. Frame(p, c) \in Frames
  BY <1>1, StackShape DEF Stacks
<1>4. Frame(p, c) \in ChainFrames(c)
  BY <1>2, <1>3 DEF ChainFrames, FramesAt
<1> QED
  BY <1>1, <1>2, <1>4 DEF ChainFrameSound

\* Each step of a child's completion keeps what is known of it.
LEMMA ChainClient ==
    ASSUME TypeOK, Nested, Chain, NEW t \in Threads, NEW c \in Children,
           \/ \E signal \in Signals : StartInline(t, c, signal)
           \/ StartAsync(t, c)
           \/ HandEager(t, c)
           \/ Finishes(t, c)
           \/ \E signal \in Signals : CompletesChild(t, c, signal)
           \/ SetsValue(t, c)
           \/ ValueThrows(t, c)
           \/ ErrorLate(t, c)
           \/ ErrorFirst(t, c)
           \/ Emplaces(t, c)
           \/ StoppedFirst(t, c)
           \/ StoppedLate(t, c)
    PROVE  Chain'
<1>0. Stacks /\ owner \in [Children -> Threads \union {None, "undecided"}]
      /\ sent \in [Children -> {None, "set_value", "set_error", "set_stopped"}]
  BY DEF TypeOK, Stacks
<1>a. /\ "start_child" \in ChainPoints /\ "hand_off" \in ChainPoints /\ "finish_child" \in ChainPoints
      /\ "complete_child" \in ChainPoints /\ "set_value" \in ChainPoints /\ "set_error" \in ChainPoints
      /\ "set_stopped" \in ChainPoints /\ "emplace" \in ChainPoints /\ "arrive" \in ChainPoints
      /\ "deliver" \in ChainPoints /\ Signals \subseteq ChainPoints
      /\ "started" \notin ChainPoints /\ "add" \notin ChainPoints /\ "remove" \notin ChainPoints
      /\ "request_stop" \notin ChainPoints
      /\ \A signal \in Signals : signal \notin {"start_child", "hand_off", "emplace", "arrive", "deliver"}
  BY DEF ChainPoints, ChildPoints, Signals
<1>b. \A p, x : Frame(p, x).at = p
  BY DEF Frame
<1>t. t # "undecided" /\ t # None
  BY Constants
<1>1. ASSUME NEW signal \in Signals, StartInline(t, c, signal) PROVE Chain'
  <2>1. Top1(t, "start_child", c) /\ Changes(t, {Frame("started", c), Frame(signal, c)})
    BY <1>1 DEF StartInline
  <2>2. /\ count' = count /\ result' = result
        /\ \A x \in Children : x # c => owner'[x] = owner[x] /\ sent'[x] = sent[x]
    BY <1>0, <1>1 DEF StartInline, SameOperation, SameConfig, SameChild, SameOp, SameHistory
  <2>3. owner'[c] = owner[c] /\ sent'[c] = sent[c]
    BY <1>0, <1>1 DEF StartInline, SameOperation, SameChild, SameHistory
  <2>4. \A f \in {Frame("started", c), Frame(signal, c)} : f = Frame(signal, c) \/ f.at \notin ChainPoints \union {"abandon"}
    BY <1>a, <1>b
  <2>5. /\ stack[t] # <<>> /\ Top(t) \in ChainFrames(c) /\ owner[c] # "undecided"
        /\ owner[c] = None /\ sent[c] = None
    BY <1>0, <1>a, <2>1, ChainTopIn
  <2> QED
    BY <1>0, <1>a, <1>t, <2>1, <2>2, <2>3, <2>4, <2>5, Constants, ChainGo
<1>2. ASSUME StartAsync(t, c) PROVE Chain'
  <2>1. Top1(t, "start_child", c) /\ Changes(t, {Frame("hand_off", c), Frame("add", c)})
    BY <1>2 DEF StartAsync
  <2>2. /\ count' = count /\ result' = result
        /\ \A x \in Children : x # c => owner'[x] = owner[x] /\ sent'[x] = sent[x]
    BY <1>0, <1>2 DEF StartAsync, SameOperation, SameConfig, SameChild, SameOp, SameHistory
  <2>3. owner'[c] = owner[c] /\ sent'[c] = sent[c]
    BY <1>0, <1>2 DEF StartAsync, SameOperation, SameChild, SameHistory
  <2>4. \A f \in {Frame("hand_off", c), Frame("add", c)} : f = Frame("hand_off", c) \/ f.at \notin ChainPoints \union {"abandon"}
    BY <1>a, <1>b
  <2>5. /\ stack[t] # <<>> /\ Top(t) \in ChainFrames(c) /\ owner[c] # "undecided"
        /\ owner[c] = None /\ sent[c] = None
    BY <1>0, <1>a, <2>1, ChainTopIn
  <2> QED
    BY <1>0, <1>a, <1>t, <2>1, <2>2, <2>3, <2>4, <2>5, Constants, ChainGo
<1>3. ASSUME HandEager(t, c) PROVE Chain'
  <2>1. Top1(t, "hand_off", c) /\ Changes(t, {Frame("started", c), Frame("finish_child", c)})
    BY <1>3 DEF HandEager
  <2>2. /\ count' = count /\ result' = result
        /\ \A x \in Children : x # c => owner'[x] = owner[x] /\ sent'[x] = sent[x]
    BY <1>0, <1>3 DEF HandEager, SameOperation, SameConfig, SameChild, SameOp, SameHistory
  <2>3. owner'[c] = t /\ sent'[c] = sent[c]
    BY <1>0, <1>3 DEF HandEager, SameOperation, SameChild, SameHistory
  <2>4. \A f \in {Frame("started", c), Frame("finish_child", c)} : f = Frame("finish_child", c) \/ f.at \notin ChainPoints \union {"abandon"}
    BY <1>a, <1>b
  <2>5. /\ stack[t] # <<>> /\ Top(t) \in ChainFrames(c) /\ owner[c] # "undecided"
        /\ owner[c] = None /\ sent[c] = None
    BY <1>0, <1>a, <2>1, ChainTopIn
  <2> QED
    BY <1>0, <1>a, <1>t, <2>1, <2>2, <2>3, <2>4, <2>5, Constants, ChainGo
<1>4. ASSUME Finishes(t, c) PROVE Chain'
  <2>1. Top1(t, "finish_child", c) /\ Changes(t, {Frame("complete_child", c), Frame("remove", c)})
    BY <1>4 DEF Finishes
  <2>2. /\ count' = count /\ result' = result
        /\ \A x \in Children : x # c => owner'[x] = owner[x] /\ sent'[x] = sent[x]
    BY <1>0, <1>4 DEF Finishes, SameOperation, SameConfig, SameChild, SameOp, SameHistory
  <2>3. owner'[c] = owner[c] /\ sent'[c] = sent[c]
    BY <1>0, <1>4 DEF Finishes, SameOperation, SameChild, SameHistory
  <2>4. \A f \in {Frame("complete_child", c), Frame("remove", c)} : f = Frame("complete_child", c) \/ f.at \notin ChainPoints \union {"abandon"}
    BY <1>a, <1>b
  <2>5. /\ stack[t] # <<>> /\ Top(t) \in ChainFrames(c) /\ owner[c] # "undecided"
        /\ sent[c] = None
    BY <1>0, <1>a, <2>1, ChainTopIn
  <2> QED
    BY <1>0, <1>a, <1>t, <2>1, <2>2, <2>3, <2>4, <2>5, Constants, ChainGo
<1>5. ASSUME NEW signal \in Signals, CompletesChild(t, c, signal) PROVE Chain'
  <2>1. Top1(t, "complete_child", c) /\ Changes(t, {Frame(signal, c)})
    BY <1>5 DEF CompletesChild
  <2>2. /\ count' = count /\ result' = result
        /\ \A x \in Children : x # c => owner'[x] = owner[x] /\ sent'[x] = sent[x]
    BY <1>0, <1>5 DEF CompletesChild, SameOperation, SameConfig, SameChild, SameOp, SameHistory
  <2>3. owner'[c] = owner[c] /\ sent'[c] = sent[c]
    BY <1>0, <1>5 DEF CompletesChild, SameOperation, SameChild, SameHistory
  <2>4. \A f \in {Frame(signal, c)} : f = Frame(signal, c) \/ f.at \notin ChainPoints \union {"abandon"}
    BY <1>a, <1>b
  <2>5. /\ stack[t] # <<>> /\ Top(t) \in ChainFrames(c) /\ owner[c] # "undecided"
        /\ sent[c] = None
    BY <1>0, <1>a, <2>1, ChainTopIn
  <2> QED
    BY <1>0, <1>a, <1>t, <2>1, <2>2, <2>3, <2>4, <2>5, Constants, ChainGo
<1>6. ASSUME SetsValue(t, c) PROVE Chain'
  <2>1. Top1(t, "set_value", c) /\ Changes(t, {Frame("arrive", c)})
    BY <1>6 DEF SetsValue
  <2>2. /\ count' = count /\ result' = result
        /\ \A x \in Children : x # c => owner'[x] = owner[x] /\ sent'[x] = sent[x]
    BY <1>0, <1>6 DEF SetsValue, SameOperation, SameConfig, SameChild, SameOp, SameHistory
  <2>3. owner'[c] = owner[c] /\ sent'[c] = "set_value"
    BY <1>0, <1>6 DEF SetsValue, SameOperation, SameChild, SameHistory
  <2>4. \A f \in {Frame("arrive", c)} : f = Frame("arrive", c) \/ f.at \notin ChainPoints \union {"abandon"}
    BY <1>a, <1>b
  <2>5. /\ stack[t] # <<>> /\ Top(t) \in ChainFrames(c) /\ owner[c] # "undecided"
        /\ sent[c] = None
    BY <1>0, <1>a, <2>1, ChainTopIn
  <2> QED
    BY <1>0, <1>a, <1>t, <2>1, <2>2, <2>3, <2>4, <2>5, Constants, ChainGo
<1>7. ASSUME ValueThrows(t, c) PROVE Chain'
  <2>1. Top1(t, "set_value", c) /\ Changes(t, {Frame("set_error", c)})
    BY <1>7 DEF ValueThrows
  <2>2. /\ count' = count /\ result' = result
        /\ \A x \in Children : x # c => owner'[x] = owner[x] /\ sent'[x] = sent[x]
    BY <1>0, <1>7 DEF ValueThrows, SameOperation, SameConfig, SameChild, SameOp, SameHistory
  <2>3. owner'[c] = owner[c] /\ sent'[c] = sent[c]
    BY <1>0, <1>7 DEF ValueThrows, SameOperation, SameChild, SameHistory
  <2>4. \A f \in {Frame("set_error", c)} : f = Frame("set_error", c) \/ f.at \notin ChainPoints \union {"abandon"}
    BY <1>a, <1>b
  <2>5. /\ stack[t] # <<>> /\ Top(t) \in ChainFrames(c) /\ owner[c] # "undecided"
        /\ sent[c] = None
    BY <1>0, <1>a, <2>1, ChainTopIn
  <2> QED
    BY <1>0, <1>a, <1>t, <2>1, <2>2, <2>3, <2>4, <2>5, Constants, ChainGo
<1>8. ASSUME ErrorLate(t, c) PROVE Chain'
  <2>1. Top1(t, "set_error", c) /\ Changes(t, {Frame("arrive", c)})
    BY <1>8 DEF ErrorLate
  <2>2. /\ count' = count /\ result' = result
        /\ \A x \in Children : x # c => owner'[x] = owner[x] /\ sent'[x] = sent[x]
    BY <1>0, <1>8 DEF ErrorLate, SameOperation, SameConfig, SameChild, SameOp, SameHistory
  <2>3. owner'[c] = owner[c] /\ sent'[c] = "set_error"
    BY <1>0, <1>8 DEF ErrorLate, SameOperation, SameChild, SameHistory
  <2>4. \A f \in {Frame("arrive", c)} : f = Frame("arrive", c) \/ f.at \notin ChainPoints \union {"abandon"}
    BY <1>a, <1>b
  <2>5. /\ stack[t] # <<>> /\ Top(t) \in ChainFrames(c) /\ owner[c] # "undecided"
        /\ sent[c] = None
    BY <1>0, <1>a, <2>1, ChainTopIn
  <2> QED
    BY <1>0, <1>a, <1>t, <2>1, <2>2, <2>3, <2>4, <2>5, Constants, ChainGo
<1>9. ASSUME ErrorFirst(t, c) PROVE Chain'
  <2>1. Top1(t, "set_error", c) /\ Changes(t, {Frame("emplace", c), Frame("request_stop", Inner)})
    BY <1>9 DEF ErrorFirst
  <2>2. /\ count' = count /\ result' = result
        /\ \A x \in Children : x # c => owner'[x] = owner[x] /\ sent'[x] = sent[x]
    BY <1>0, <1>9 DEF ErrorFirst, SameOperation, SameConfig, SameChild, SameOp, SameHistory
  <2>3. owner'[c] = owner[c] /\ sent'[c] = "set_error"
    BY <1>0, <1>9 DEF ErrorFirst, SameOperation, SameChild, SameHistory
  <2>4. \A f \in {Frame("emplace", c), Frame("request_stop", Inner)} : f = Frame("emplace", c) \/ f.at \notin ChainPoints \union {"abandon"}
    BY <1>a, <1>b
  <2>5. /\ stack[t] # <<>> /\ Top(t) \in ChainFrames(c) /\ owner[c] # "undecided"
        /\ sent[c] = None
    BY <1>0, <1>a, <2>1, ChainTopIn
  <2> QED
    BY <1>0, <1>a, <1>t, <2>1, <2>2, <2>3, <2>4, <2>5, Constants, ChainGo
<1>10. ASSUME Emplaces(t, c) PROVE Chain'
  <2>1. Top1(t, "emplace", c) /\ Changes(t, {Frame("arrive", c)})
    BY <1>10 DEF Emplaces
  <2>2. /\ count' = count /\ result' = result
        /\ \A x \in Children : x # c => owner'[x] = owner[x] /\ sent'[x] = sent[x]
    BY <1>0, <1>10 DEF Emplaces, SameOperation, SameConfig, SameChild, SameOp, SameHistory
  <2>3. owner'[c] = owner[c] /\ sent'[c] = sent[c]
    BY <1>0, <1>10 DEF Emplaces, SameOperation, SameChild, SameHistory
  <2>4. \A f \in {Frame("arrive", c)} : f = Frame("arrive", c) \/ f.at \notin ChainPoints \union {"abandon"}
    BY <1>a, <1>b
  <2>5. /\ stack[t] # <<>> /\ Top(t) \in ChainFrames(c) /\ owner[c] # "undecided"
        /\ sent[c] = "set_error"
    BY <1>0, <1>a, <2>1, ChainTopIn
  <2> QED
    BY <1>0, <1>a, <1>t, <2>1, <2>2, <2>3, <2>4, <2>5, Constants, ChainGo
<1>11. ASSUME StoppedFirst(t, c) PROVE Chain'
  <2>1. Top1(t, "set_stopped", c) /\ Changes(t, {Frame("arrive", c), Frame("request_stop", Inner)})
    BY <1>11 DEF StoppedFirst
  <2>2. /\ count' = count /\ result' = result
        /\ \A x \in Children : x # c => owner'[x] = owner[x] /\ sent'[x] = sent[x]
    BY <1>0, <1>11 DEF StoppedFirst, SameOperation, SameConfig, SameChild, SameOp, SameHistory
  <2>3. owner'[c] = owner[c] /\ sent'[c] = "set_stopped"
    BY <1>0, <1>11 DEF StoppedFirst, SameOperation, SameChild, SameHistory
  <2>4. \A f \in {Frame("arrive", c), Frame("request_stop", Inner)} : f = Frame("arrive", c) \/ f.at \notin ChainPoints \union {"abandon"}
    BY <1>a, <1>b
  <2>5. /\ stack[t] # <<>> /\ Top(t) \in ChainFrames(c) /\ owner[c] # "undecided"
        /\ sent[c] = None
    BY <1>0, <1>a, <2>1, ChainTopIn
  <2> QED
    BY <1>0, <1>a, <1>t, <2>1, <2>2, <2>3, <2>4, <2>5, Constants, ChainGo
<1>12. ASSUME StoppedLate(t, c) PROVE Chain'
  <2>1. Top1(t, "set_stopped", c) /\ Changes(t, {Frame("arrive", c)})
    BY <1>12 DEF StoppedLate
  <2>2. /\ count' = count /\ result' = result
        /\ \A x \in Children : x # c => owner'[x] = owner[x] /\ sent'[x] = sent[x]
    BY <1>0, <1>12 DEF StoppedLate, SameOperation, SameConfig, SameChild, SameOp, SameHistory
  <2>3. owner'[c] = owner[c] /\ sent'[c] = "set_stopped"
    BY <1>0, <1>12 DEF StoppedLate, SameOperation, SameChild, SameHistory
  <2>4. \A f \in {Frame("arrive", c)} : f = Frame("arrive", c) \/ f.at \notin ChainPoints \union {"abandon"}
    BY <1>a, <1>b
  <2>5. /\ stack[t] # <<>> /\ Top(t) \in ChainFrames(c) /\ owner[c] # "undecided"
        /\ sent[c] = None
    BY <1>0, <1>a, <2>1, ChainTopIn
  <2> QED
    BY <1>0, <1>a, <1>t, <2>1, <2>2, <2>3, <2>4, <2>5, Constants, ChainGo
<1> QED
  BY <1>1, <1>2, <1>3, <1>4, <1>5, <1>6, <1>7, <1>8, <1>9, <1>10, <1>11, <1>12

\* A child whose completion is under way has begun.
LEMMA ChainBegun ==
    ASSUME Stacks, Nested, NEW t \in Threads, NEW i \in DOMAIN stack[t], stack[t][i].at \in ChainPoints
    PROVE  stack[t][i].of \in Children /\ Begun(stack[t][i].of)
<1>1. stack[t][i].of \in Children /\ stack[t][i] \in ChainFrames(stack[t][i].of)
  BY ChainFrame
<1>2. Occurs(ChainFrames(stack[t][i].of))
  BY <1>1 DEF Occurs
<1> QED
  BY <1>1, <1>2 DEF Begun

\* While a child arrives the receiver has not been completed.
LEMMA ArrivingOpen ==
    ASSUME TypeOK, Nested, Chain, Counted, EndSound, NEW t \in Threads, NEW c \in Children,
           Top1(t, "arrive", c)
    PROVE  result = <<>> /\ count \in Nat /\ count # 0
<1>0. Stacks
  BY DEF TypeOK, Stacks
<1>1. count \in Nat /\ count # 0 /\ c \in PendingChildren
  BY <1>0, ArrivingPending
<1>2. Pending(c)
  BY <1>1 DEF PendingChildren
<1>3. "arrive" \in ChainPoints
  BY DEF ChainPoints, ChildPoints
<1>4. sent[c] # None
  BY <1>0, <1>3, ChainTopIn
<1>5. Begun(c)
  BY <1>4 DEF Begun
<1> QED
  BY <1>1, <1>2, <1>5 DEF EndSound

\* The other steps of the operation.
LEMMA ChainOther ==
    ASSUME TypeOK, Nested, Chain, StartOrder, Counted, EndSound, NEW t \in Threads, ClientEvent(t)
    PROVE  Chain'
<1>0. Stacks /\ owner \in [Children -> Threads \union {None, "undecided"}]
      /\ sent \in [Children -> {None, "set_value", "set_error", "set_stopped"}]
  BY DEF TypeOK, Stacks
<1>a. /\ "start_child" \in ChainPoints /\ "hand_off" \in ChainPoints /\ "finish_child" \in ChainPoints
      /\ "arrive" \in ChainPoints /\ "deliver" \in ChainPoints
      /\ "started" \notin ChainPoints /\ "add" \notin ChainPoints /\ "remove" \notin ChainPoints
      /\ "request_stop" \notin ChainPoints /\ "check" \notin ChainPoints /\ "abandon" \notin ChainPoints
  BY DEF ChainPoints, ChildPoints
<1>b. \A p, x : Frame(p, x).at = p
  BY DEF Frame
<1>t. t # "undecided" /\ t # None
  BY Constants
<1>1. ASSUME StartStoppable(t) PROVE Chain'
  <2>1. Changes(t, {Frame("check", OnStop), Frame("add", OnStop)})
    BY <1>1 DEF StartStoppable
  <2>2. \A f \in {Frame("check", OnStop), Frame("add", OnStop)} :
          f.at \notin ChainPoints /\ (f.at = "abandon" => result' = <<>>)
    BY <1>a, <1>b
  <2>3. owner' = owner /\ sent' = sent /\ count' = count /\ result' = result
    BY <1>1 DEF StartStoppable, SameOperation
  <2> QED
    BY <1>0, <2>1, <2>2, <2>3, ChainQuiet
<1>2. ASSUME StartNever(t) PROVE Chain'
  <2>1. Changes(t, {Frame("check", OnStop)})
    BY <1>2 DEF StartNever
  <2>2. \A f \in {Frame("check", OnStop)} :
          f.at \notin ChainPoints /\ (f.at = "abandon" => result' = <<>>)
    BY <1>a, <1>b
  <2>3. owner' = owner /\ sent' = sent /\ count' = count /\ result' = result
    BY <1>2 DEF StartNever, SameOperation
  <2> QED
    BY <1>0, <2>1, <2>2, <2>3, ChainQuiet
<1>3. ASSUME CallbackForwards(t) PROVE Chain'
  <2>1. Changes(t, {Frame("request_stop", Inner)})
    BY <1>3 DEF CallbackForwards
  <2>2. \A f \in {Frame("request_stop", Inner)} :
          f.at \notin ChainPoints /\ (f.at = "abandon" => result' = <<>>)
    BY <1>a, <1>b
  <2>3. owner' = owner /\ sent' = sent /\ count' = count /\ result' = result
    BY <1>3 DEF CallbackForwards, SameOperation
  <2> QED
    BY <1>0, <2>1, <2>2, <2>3, ChainQuiet
<1>4. ASSUME NEW c \in Children, CallbackNotes(t, c) \/ NextEnds(t, c) PROVE Chain'
  <2>1. Changes(t, {})
    BY <1>4 DEF CallbackNotes, NextEnds
  <2>2. owner' = owner /\ sent' = sent /\ count' = count /\ result' = result
    BY <1>4 DEF CallbackNotes, NextEnds, SameOperation, SameOp, SameHistory
  <2> QED
    BY <1>0, <2>1, <2>2, ChainQuiet
<1>5. ASSUME CheckStops(t) PROVE Chain'
  <2>1. Changes(t, {Frame("abandon", OnStop), Frame("remove", OnStop)}) /\ Top1(t, "check", OnStop)
    BY <1>5 DEF CheckStops
  <2>2. owner' = owner /\ sent' = sent /\ count' = count /\ result' = result
    BY <1>5 DEF CheckStops, SameOperation
  <2>3. result' = <<>>
    BY <1>0, <2>1, <2>2, NoneBegun
  <2>4. \A f \in {Frame("abandon", OnStop), Frame("remove", OnStop)} :
          f.at \notin ChainPoints /\ (f.at = "abandon" => result' = <<>>)
    BY <1>a, <1>b, <2>3
  <2> QED
    BY <1>0, <2>1, <2>2, <2>4, ChainQuiet
<1>6. ASSUME NEW c \in Children, ~Begun(c), Changes(t, {Frame("start_child", c)}),
             owner' = owner, sent' = sent, count' = count, result' = result
      PROVE  Chain'
  <2>1. owner[c] = None /\ sent[c] = None /\ ~Occurs(ChainFrames(c))
    BY <1>6 DEF Begun
  <2>2. \A f \in {Frame("start_child", c)} :
          f = Frame("start_child", c) \/ f.at \notin ChainPoints \union {"abandon"}
    OBVIOUS
  <2> QED
    BY <1>0, <1>a, <1>6, <2>1, <2>2, Constants, ChainGo
<1>7. ASSUME CheckGoes(t) PROVE Chain'
  <2>1. Changes(t, {Frame("start_child", ChildOrder[1])}) /\ Top1(t, "check", OnStop)
    BY <1>7 DEF CheckGoes
  <2>2. owner' = owner /\ sent' = sent /\ count' = count /\ result' = result
    BY <1>7 DEF CheckGoes, SameOperation
  <2>3. ChildOrder[1] \in Children
    BY ChildOrderSound
  <2>4. ~Begun(ChildOrder[1])
    BY <1>0, <2>1, <2>3, NoneBegun
  <2> QED
    BY <1>6, <2>1, <2>2, <2>3, <2>4
<1>8. ASSUME NEW c \in Children, NEW i \in DOMAIN ChildOrder, NextStarts(t, c, i) PROVE Chain'
  <2>1. /\ Changes(t, {Frame("start_child", ChildOrder[i + 1])}) /\ Top1(t, "started", ChildOrder[i])
        /\ i + 1 \in DOMAIN ChildOrder
    BY <1>8 DEF NextStarts
  <2>2. owner' = owner /\ sent' = sent /\ count' = count /\ result' = result
    BY <1>8 DEF NextStarts, SameOperation
  <2>3. ChildOrder[i + 1] \in Children /\ ~(i + 1 <= i)
    BY <2>1, ChildOrderSound
  <2>4. ~Begun(ChildOrder[i + 1])
    BY <1>0, <2>1, <2>3, NextNotBegun
  <2> QED
    BY <1>6, <2>1, <2>2, <2>3, <2>4
<1>9. ASSUME NEW c \in Children, HandOver(t, c) PROVE Chain'
  <2>1. Changes(t, {Frame("started", c)}) /\ Top1(t, "hand_off", c)
    BY <1>9 DEF HandOver
  <2>2. /\ sent' = sent /\ count' = count /\ result' = result
        /\ owner' = [owner EXCEPT ![c] = "undecided"]
    BY <1>9 DEF HandOver, SameOp, SameHistory
  <2>3. stack[t] # <<>> /\ Top(t) \in ChainFrames(c) /\ sent[c] = None
    BY <1>0, <1>a, <2>1, ChainTopIn
  <2>4. \A f \in {Frame("started", c)} : f.at \notin ChainPoints /\ f.at # "abandon"
    BY <1>a, <1>b
  <2>5. ASSUME NEW f \in {Frame("started", c)} PROVE ChainFrameSound(f)'
    <3>1. {"start_child", "hand_off", "emplace", "arrive", "deliver"} \subseteq ChainPoints
      BY DEF ChainPoints, ChildPoints
    <3> QED
      BY <2>4, <3>1 DEF ChainFrameSound
  <2>6. \A x \in Children : x # c => owner'[x] = owner[x] /\ sent'[x] = sent[x]
    BY <1>0, <2>2
  <2>7. \A f \in {Frame("started", c)} : f.at # "deliver"
    BY <1>a, <2>4
  <2> QED
    BY <1>0, <2>1, <2>2, <2>3, <2>4, <2>5, <2>6, <2>7, ChainMove
<1>10. ASSUME NEW c \in Children, CallbackFinishes(t, c) PROVE Chain'
  <2>1. Changes(t, {Frame("finish_child", c)}) /\ owner[c] = "undecided"
    BY <1>10 DEF CallbackFinishes
  <2>2. /\ sent' = sent /\ count' = count /\ result' = result
        /\ owner' = [owner EXCEPT ![c] = t]
    BY <1>10 DEF CallbackFinishes, SameOp, SameHistory
  <2>3. ~Occurs(ChainFrames(c)) /\ sent[c] = None
    BY <1>0, <2>1, NoChain DEF Chain
  <2>4. owner'[c] = t /\ \A x \in Children : x # c => owner'[x] = owner[x] /\ sent'[x] = sent[x]
    BY <1>0, <2>2
  <2>5. \A f \in {Frame("finish_child", c)} :
          f = Frame("finish_child", c) \/ f.at \notin ChainPoints \union {"abandon"}
    OBVIOUS
  <2> QED
    BY <1>0, <1>a, <1>t, <2>1, <2>2, <2>3, <2>4, <2>5, ChainGo
<1>11. ASSUME NEW c \in Children, ArrivesEarly(t, c) PROVE Chain'
  <2>1. Changes(t, {}) /\ Top1(t, "arrive", c)
    BY <1>11 DEF ArrivesEarly
  <2>2. sent' = sent /\ result' = result /\ owner' = owner
    BY <1>11 DEF ArrivesEarly, SameChild, SameHistory
  <2>3. count # 0
    BY <2>1, ArrivingOpen
  <2>4. stack[t] # <<>> /\ Top(t) \in ChainFrames(c) /\ owner[c] # "undecided"
    BY <1>0, <1>a, <2>1, ChainTopIn
  <2> QED
    BY <1>0, <2>1, <2>2, <2>3, <2>4, ChainMove
<1>12. ASSUME NEW c \in Children, NEW N, Changes(t, N), Top1(t, "arrive", c), ~(count > 1),
              \A f \in N : f = Frame("deliver", c) \/ f.at \notin ChainPoints \union {"abandon"},
              count' = count - 1, SameChild, SameHistory
       PROVE  Chain'
  <2>1. sent' = sent /\ result' = result /\ owner' = owner
    BY <1>12 DEF SameChild, SameHistory
  <2>2. result = <<>> /\ count \in Nat /\ count # 0
    BY <1>12, ArrivingOpen
  <2>3. count' = 0
    BY <1>12, <2>2
  <2>4. /\ stack[t] # <<>> /\ Top(t) \in ChainFrames(c) /\ owner[c] # "undecided"
        /\ sent[c] # None
    BY <1>0, <1>a, <1>12, ChainTopIn
  <2> QED
    BY <1>0, <1>a, <1>12, <2>1, <2>2, <2>3, <2>4, ChainGo
<1>13. ASSUME NEW c \in Children, ArrivesLastStoppable(t, c) PROVE Chain'
  <2>1. \A f \in {Frame("deliver", c), Frame("remove", OnStop)} :
          f = Frame("deliver", c) \/ f.at \notin ChainPoints \union {"abandon"}
    BY <1>a, <1>b
  <2> QED
    BY <1>12, <1>13, <2>1 DEF ArrivesLastStoppable
<1>14. ASSUME NEW c \in Children, ArrivesLast(t, c) PROVE Chain'
  <2>1. \A f \in {Frame("deliver", c)} :
          f = Frame("deliver", c) \/ f.at \notin ChainPoints \union {"abandon"}
    OBVIOUS
  <2> QED
    BY <1>12, <1>14, <2>1 DEF ArrivesLast
<1>15. ASSUME NEW u \in Threads, NEW i \in DOMAIN stack[u], stack[u][i].at = "abandon"
       PROVE  u = Starter /\ i = 1 /\ stack[Starter] # <<>> /\ \A c \in Children : ~Begun(c)
  <2>1. u = Starter /\ i = 1
    BY <1>0, <1>15, FrameKinds DEF Known, StartPoints
  <2>2. stack[Starter] # <<>> /\ stack[Starter][1].at = "abandon"
    BY <1>0, <1>15, <2>1, StackShape DEF Stacks
  <2> QED
    BY <2>1, <2>2 DEF StartOrder
<1>16. ASSUME Abandons(t) PROVE Chain'
  <2>1. Changes(t, {}) /\ Top1(t, "abandon", OnStop)
    BY <1>16 DEF Abandons
  <2>2. sent' = sent /\ owner' = owner /\ count' = count
    BY <1>16 DEF Abandons, SameChild, SameOp
  <2>3. t = Starter /\ Len(stack[t]) = 1
    BY <1>0, <2>1, StartAt DEF StartPoints
  <2>4. \A c \in Children : ~Begun(c)
    BY <1>0, <2>1, NoneBegun
  <2>5. \A u \in Threads : \A i \in DOMAIN stack[u] :
          stack[u][i].at \in {"deliver", "abandon"} => u = t /\ i = Len(stack[t])
    BY <1>0, <1>a, <1>15, <2>3, <2>4, ChainBegun
  <2> QED
    BY <1>0, <2>1, <2>2, <2>5, ChainQuiet
<1>17. ASSUME NEW c \in Children, Delivers(t, c) PROVE Chain'
  <2>1. Changes(t, {}) /\ Top1(t, "deliver", c)
    BY <1>17 DEF Delivers
  <2>2. sent' = sent /\ owner' = owner /\ count' = count
    BY <1>17 DEF Delivers, SameChild, SameOp
  <2>3. sent[c] # None
    BY <1>0, <1>a, <2>1, ChainTopIn
  <2>4. Begun(c)
    BY <2>3 DEF Begun
  <2>5. Len(stack[t]) \in DOMAIN stack[t] /\ stack[t][Len(stack[t])] = Frame("deliver", c)
    BY <1>0, <2>1, StackShape DEF Top1, Top, Stacks
  <2>6. ASSUME NEW u \in Threads, NEW i \in DOMAIN stack[u], stack[u][i].at = "deliver"
        PROVE  u = t /\ i = Len(stack[t])
    <3>1. stack[u][i].of \in Children /\ stack[u][i] \in Frames
      BY <1>0, <1>a, <2>6, ChainBegun, StackShape DEF Stacks
    <3>2. stack[u][i] \in FramesAt({"deliver"}, Children)
      BY <2>6, <3>1 DEF FramesAt
    <3>3. Frame("deliver", c) \in FramesAt({"deliver"}, Children)
      BY FrameIn, ClientPoints, Constants
    <3>4. Once(FramesAt({"deliver"}, Children))
      BY DEF Chain
    <3> QED
      BY <2>5, <3>2, <3>3, <3>4 DEF Once
  <2>7. \A u \in Threads : \A i \in DOMAIN stack[u] :
          stack[u][i].at \in {"deliver", "abandon"} => u = t /\ i = Len(stack[t])
    BY <1>15, <2>4, <2>6
  <2> QED
    BY <1>0, <2>1, <2>2, <2>7, ChainQuiet
<1> HIDE DEF Chain
<1> QED
  BY <1>1, <1>2, <1>3, <1>4, <1>5, <1>7, <1>8, <1>9, <1>10, <1>11, <1>13, <1>14, <1>16, <1>17,
     ChainClient DEF ClientEvent

\* Each step keeps what is known of the completion of the children.
LEMMA ChainStep ==
    ASSUME TypeOK, Nested, Chain, StartOrder, Counted, EndSound, [Next]_vars
    PROVE  Chain'
<1>0. Stacks /\ owner \in [Children -> Threads \union {None, "undecided"}]
  BY DEF TypeOK, Stacks
<1>a. "finish_child" \in ChainPoints /\ "request_stop" \notin ChainPoints
  BY DEF ChainPoints, ChildPoints
<1>1. ASSUME NEW t \in Threads, StopEvent(t), SameOperation PROVE Chain'
  <2>1. PICK N : Changes(t, N) /\ \A f \in N : f.at \in StopOnly
    BY <1>1, StopShape DEF Within
  <2>2. \A f \in N : f.at \notin ChainPoints /\ (f.at = "abandon" => result' = <<>>)
    BY <2>1 DEF StopOnly, ChainPoints, ChildPoints
  <2>3. owner' = owner /\ sent' = sent /\ count' = count /\ result' = result
    BY <1>1 DEF SameOperation
  <2> QED
    BY <1>0, <2>1, <2>2, <2>3, ChainQuiet
<1>2. ASSUME Asks PROVE Chain'
  <2>1. Changes(Stopper, {Frame("request_stop", Outer)}) /\ Stopper \in Threads
    BY <1>2, Constants DEF Asks
  <2>2. \A f \in {Frame("request_stop", Outer)} :
          f.at \notin ChainPoints /\ (f.at = "abandon" => result' = <<>>)
    BY <1>a DEF Frame
  <2>3. owner' = owner /\ sent' = sent /\ count' = count /\ result' = result
    BY <1>2 DEF Asks, SameChild, SameOp, SameHistory
  <2> QED
    BY <1>0, <2>1, <2>2, <2>3, ChainQuiet
<1>3. ASSUME NEW c \in Children, Works(c) PROVE Chain'
  <2>1. Changes(c, {Frame("finish_child", c)}) /\ c \in Threads /\ owner[c] = "undecided"
    BY <1>3, Constants DEF Works
  <2>2. sent' = sent /\ count' = count /\ result' = result /\ owner' = [owner EXCEPT ![c] = c]
    BY <1>3 DEF Works, SameOp, SameHistory
  <2>3. ~Occurs(ChainFrames(c)) /\ sent[c] = None
    BY <1>0, <2>1, NoChain DEF Chain
  <2>4. owner'[c] # "undecided" /\ owner'[c] = c
        /\ \A x \in Children : x # c => owner'[x] = owner[x] /\ sent'[x] = sent[x]
    BY <1>0, <2>1, <2>2, Constants
  <2>5. \A f \in {Frame("finish_child", c)} :
          f = Frame("finish_child", c) \/ f.at \notin ChainPoints \union {"abandon"}
    OBVIOUS
  <2> QED
    BY <1>0, <1>a, <2>1, <2>2, <2>3, <2>4, <2>5, ChainGo
<1>4. ASSUME Stutter PROVE Chain'
  BY <1>4 DEF Stutter, SameOperation, Chain, Once, ChainFrameSound
<1> HIDE DEF Chain
<1> QED
  BY <1>1, <1>2, <1>3, <1>4, ChainOther, NextEvents
-----------------------------------------------------------------------------
(* The order in which the children begin.                                   *)

SameBegun == \A x \in Children : Begun(x)' <=> Begun(x)

\* A step that is about one child leaves the others as they are.
LEMMA OthersBegun ==
    ASSUME Stacks, Nested, NEW t \in Threads, NEW c \in Children, NEW N, Changes(t, N),
           stack[t] # <<>> /\ Top(t).at \in ChainPoints => Top(t).of = c,
           \A f \in N : f.at \in ChainPoints => f.of = c,
           NEW x \in Children, x # c, owner'[x] = owner[x], sent'[x] = sent[x]
    PROVE  Begun(x)' <=> Begun(x)
<1>1. Leaves(t, ChainFrames(x))
  <2>1. \A f \in ChainFrames(x) : f.at \in ChainPoints /\ f.of = x
    BY DEF ChainFrames, FramesAt
  <2> QED
    BY <2>1 DEF Leaves
<1>2. Occurs(ChainFrames(x))' <=> Occurs(ChainFrames(x))
  BY <1>1, LeavesKept
<1> QED
  BY <1>2 DEF Begun

\* A step of a child that has begun.
LEMMA BegunMove ==
    ASSUME Stacks, Nested, NEW t \in Threads, NEW c \in Children, Begun(c), NEW N, Changes(t, N),
           stack[t] # <<>> /\ Top(t).at \in ChainPoints => Top(t).of = c,
           \A f \in N : f.at \in ChainPoints => f.of = c,
           \A x \in Children : x # c => owner'[x] = owner[x] /\ sent'[x] = sent[x],
           owner'[c] # None \/ sent'[c] # None \/ \E f \in N : f.at \in ChainPoints
    PROVE  SameBegun
<1>1. \A x \in Children : x # c => (Begun(x)' <=> Begun(x))
  BY OthersBegun
<1>2. Begun(c)'
  <2>1. CASE owner'[c] # None \/ sent'[c] # None
    BY <2>1 DEF Begun
  <2>2. CASE \E f \in N : f.at \in ChainPoints
    <3>1. PICK f \in N : f.at \in ChainPoints
      BY <2>2
    <3>2. f \in Frames
      BY ChangesIn
    <3>3. f \in ChainFrames(c)
      BY <3>1, <3>2 DEF ChainFrames, FramesAt
    <3>4. Occurs(ChainFrames(c))'
      BY <3>3, OccursComes
    <3> QED
      BY <3>4 DEF Begun
  <2> QED
    BY <2>1, <2>2
<1> QED
  BY <1>1, <1>2 DEF SameBegun

\* A step outside of the children's completions.
LEMMA BegunQuiet ==
    ASSUME Stacks, NEW t \in Threads, NEW N, Changes(t, N),
           stack[t] # <<>> => Top(t).at \notin ChainPoints,
           \A f \in N : f.at \notin ChainPoints, owner' = owner, sent' = sent
    PROVE  SameBegun
<1>1. ASSUME NEW x \in Children PROVE Begun(x)' <=> Begun(x)
  <2>1. \A f \in ChainFrames(x) : f.at \in ChainPoints
    BY DEF ChainFrames, FramesAt
  <2>2. Leaves(t, ChainFrames(x))
    BY <2>1 DEF Leaves
  <2>3. Occurs(ChainFrames(x))' <=> Occurs(ChainFrames(x))
    BY <2>2, LeavesKept
  <2> QED
    BY <2>3 DEF Begun
<1> QED
  BY <1>1 DEF SameBegun

\* A child is started.
LEMMA BegunStart ==
    ASSUME Stacks, Nested, NEW t \in Threads, NEW c \in Children, Changes(t, {Frame("start_child", c)}),
           stack[t] # <<>> => Top(t).at \notin ChainPoints, owner' = owner, sent' = sent
    PROVE  \A x \in Children : Begun(x)' <=> Begun(x) \/ x = c
<1>0. "start_child" \in ChainPoints
  BY DEF ChainPoints
<1>1. Frame("start_child", c).at = "start_child" /\ Frame("start_child", c).of = c
  BY DEF Frame
<1>2. \A f \in {Frame("start_child", c)} : f.at \in ChainPoints => f.of = c
  BY <1>1
<1>3. \A x \in Children : x # c => (Begun(x)' <=> Begun(x))
  BY <1>2, OthersBegun
<1>4. Frame("start_child", c) \in ChainFrames(c)
  BY <1>0, ClientPoints, Constants, FrameIn DEF ChainFrames
<1>5. Occurs(ChainFrames(c))'
  BY <1>4, OccursComes
<1> QED
  BY <1>3, <1>5 DEF Begun

\* The bottom of a stack stays when it is not the frame that goes on.
LEMMA BottomKept ==
    ASSUME Stacks, NEW t \in Threads, NEW N, Changes(t, N), stack[t] # <<>>, NEW u \in Threads,
           t = u => Len(stack[u]) # 1
    PROVE  /\ stack'[u] = <<>> <=> stack[u] = <<>>
           /\ stack[u] # <<>> => stack'[u][1] = stack[u][1]
<1>1. CASE t # u
  BY <1>1, ChangesIdle
<1>2. CASE t = u
  <2>1. 1 \in DOMAIN stack[u] /\ 1 # Len(stack[u])
    BY <1>2, StackShape DEF Stacks
  <2>2. 1 \in DOMAIN stack'[u] /\ stack'[u][1] = stack[u][1]
    BY <1>2, <2>1, ChangesKeeps
  <2>3. stack'[u] # <<>>
    BY <2>2
  <2> QED
    BY <1>2, <2>2, <2>3
<1> QED
  BY <1>1, <1>2

\* A thread that returns from its only call is idle.
LEMMA BottomGone ==
    ASSUME Stacks, NEW t \in Threads, Changes(t, {}), Len(stack[t]) = 1
    PROVE  stack'[t] = <<>>
<1>1. PICK n \in Nat, w \in Seq(Frames) :
          /\ Moved(t, n, w) /\ (stack[t] # <<>> => Len(stack[t]) = n + 1)
          /\ \A f : f \in {} <=> \E j \in 1 .. Len(w) : w[j] = f
  BY DEF Changes
<1>2. Len(w) = 0
  <2>1. Len(w) \in Nat /\ \A j \in 1 .. Len(w) : FALSE
    <3>1. Len(w) \in Nat
      OBVIOUS
    <3>2. ASSUME NEW j \in 1 .. Len(w) PROVE FALSE
      <4>1. w[j] \in {}
        BY <1>1
      <4> QED
        BY <4>1
    <3> QED
      BY <3>1, <3>2
  <2>2. Len(w) # 0 => 1 \in 1 .. Len(w)
    BY <2>1
  <2> QED
    BY <2>1, <2>2
<1>3. n = 0
  <2>1. stack[t] # <<>>
    <3>1. Len(<<>>) = 0 /\ 0 # 1
      OBVIOUS
    <3>2. stack[t] = <<>> => Len(stack[t]) = Len(<<>>)
      OBVIOUS
    <3> QED
      BY <3>1, <3>2
  <2>2. 1 = n + 1
    BY <1>1, <2>1
  <2> QED
    BY <2>2
<1>4. stack'[t] \in Seq(Frames) /\ Len(stack'[t]) = 0
  BY <1>1, <1>2, <1>3 DEF Moved
<1> QED
  BY <1>4

\* The new bottom of the stack of the thread that calls start().
LEMMA BottomNew ==
    ASSUME Stacks, Nested', NEW N, Changes(Starter, N), Len(stack[Starter]) = 1, NEW f \in N,
           \A g \in N : g.at \in StartPoints => g = f
    PROVE  stack'[Starter] # <<>> /\ stack'[Starter][1] = f
<1>0. Starter \in Threads /\ Starter # Stopper /\ Starter \notin Children
  BY Constants
<1>1. Occurs({f})' /\ Stacks'
  BY <1>0, OccursComes, ChangesType
<1>2. stack'[Starter] # <<>> /\ 1 \in DOMAIN stack'[Starter]
  <2>1. PICK n \in Nat, w \in Seq(Frames) : Moved(Starter, n, w) /\ \E j \in 1 .. Len(w) : w[j] = f
    BY DEF Changes
  <2>2. Len(w) \in Nat /\ Len(w) # 0
    BY <2>1
  <2>3. DOMAIN stack'[Starter] = 1 .. (n + Len(w))
    BY <2>1 DEF Moved
  <2>4. 1 \in DOMAIN stack'[Starter]
    BY <2>2, <2>3
  <2> QED
    BY <2>4
<1>3. stack'[Starter][1] \in N
  BY <1>0, <1>2, ChangesFrames
<1>4. Outermost(Starter, stack'[Starter][1])
  BY <1>0, <1>2 DEF Nested, NestedFrames
<1>5. stack'[Starter][1].at \in StartPoints
  BY <1>0, <1>4 DEF Outermost, StartPoints
<1> QED
  BY <1>2, <1>3, <1>5

\* The bottom of the starter's stack is one of the points of start().
LEMMA StarterBottom ==
    ASSUME Stacks, Nested, NEW t \in Threads, stack[t] # <<>>, Top(t).at \notin StartPoints
    PROVE  t = Starter => Len(stack[Starter]) # 1
<1> SUFFICES ASSUME t = Starter, Len(stack[Starter]) = 1 PROVE FALSE
  OBVIOUS
<1>1. Starter # Stopper /\ Starter \notin Children
  BY Constants
<1>2. Fits(t, Top(t))
  BY TopKnown
<1>3. Outermost(Starter, Top(t))
  BY <1>2 DEF Fits
<1> QED
  BY <1>1, <1>3 DEF Outermost, StartPoints

\* A step elsewhere keeps the order.
LEMMA OrderQuiet ==
    ASSUME Stacks, Nested, StartOrder, NEW t \in Threads, NEW N, Changes(t, N), SameBegun,
           stack[t] # <<>>, Top(t).at \notin StartPoints,
           result' = result \/ \E c \in Children : Begun(c)
    PROVE  StartOrder'
<1>1. t = Starter => Len(stack[Starter]) # 1
  BY StarterBottom
<1>2. /\ stack'[Starter] = <<>> <=> stack[Starter] = <<>>
      /\ stack[Starter] # <<>> => stack'[Starter][1] = stack[Starter][1]
  BY <1>1, Constants, BottomKept
<1>3. \A i \in DOMAIN ChildOrder : ChildOrder[i] \in Children
  BY ChildOrderSound
<1>4. (stack[Starter] = <<>> => (\A c \in Children : Begun(c)) \/ (\A c \in Children : ~Begun(c)))'
  BY <1>2 DEF StartOrder, SameBegun
<1>5. ASSUME stack'[Starter] # <<>>, stack'[Starter][1].at \in {"start", "check", "abandon"}
      PROVE  result' = <<>> /\ \A c \in Children : ~Begun(c)'
  BY <1>2, <1>5 DEF StartOrder, SameBegun
<1>6. ASSUME stack'[Starter] # <<>>, stack'[Starter][1].at \in {"start_child", "hand_off", "started"},
             NEW i \in DOMAIN ChildOrder, NEW j \in DOMAIN ChildOrder,
             ChildOrder[i] = stack'[Starter][1].of
      PROVE  Begun(ChildOrder[j])' <=> j <= i
  <2>1. Begun(ChildOrder[j]) <=> j <= i
    BY <1>2, <1>6 DEF StartOrder
  <2>2. Begun(ChildOrder[j])' <=> Begun(ChildOrder[j])
    BY <1>3 DEF SameBegun
  <2> QED
    BY <2>1, <2>2
<1> QED
  BY <1>4, <1>5, <1>6 DEF StartOrder

\* start() goes on with the same child.
LEMMA OrderSame ==
    ASSUME Stacks, Nested, Nested', StartOrder, NEW t \in Threads, NEW N, Changes(t, N), SameBegun,
           NEW p \in {"start_child", "hand_off"}, NEW c \in Children, Top1(t, p, c),
           NEW q \in {"hand_off", "started"}, Frame(q, c) \in N,
           \A g \in N : g.at \in StartPoints => g = Frame(q, c)
    PROVE  StartOrder'
<1>0. p \in StartPoints
  BY DEF StartPoints
<1>1. t = Starter /\ Len(stack[t]) = 1 /\ stack[Starter] # <<>> /\ stack[Starter][1] = Frame(p, c)
      /\ Frame(p, c).at = p /\ Frame(p, c).of = c
  BY <1>0, StartAt
<1>2. stack'[Starter] # <<>> /\ stack'[Starter][1] = Frame(q, c)
  BY <1>1, BottomNew
<1>3. Frame(q, c).at = q /\ Frame(q, c).of = c
  BY DEF Frame
<1>4. ASSUME NEW i \in DOMAIN ChildOrder, NEW j \in DOMAIN ChildOrder, ChildOrder[i] = c
      PROVE  Begun(ChildOrder[j])' <=> j <= i
  <2>1. Begun(ChildOrder[j]) <=> j <= i
    BY <1>1, <1>4 DEF StartOrder
  <2>2. Begun(ChildOrder[j])' <=> Begun(ChildOrder[j])
    BY ChildOrderSound DEF SameBegun
  <2> QED
    BY <2>1, <2>2
<1> QED
  BY <1>2, <1>3, <1>4 DEF StartOrder

\* start() goes on before the children.
LEMMA OrderNone ==
    ASSUME Stacks, Nested, Nested', StartOrder, NEW t \in Threads, NEW N, Changes(t, N), SameBegun,
           NEW p \in {"start", "check"}, NEW x, Top1(t, p, x), result' = result,
           NEW q \in {"check", "abandon"}, NEW y, Frame(q, y) \in N,
           \A g \in N : g.at \in StartPoints => g = Frame(q, y)
    PROVE  StartOrder'
<1>0. p \in StartPoints
  BY DEF StartPoints
<1>1. t = Starter /\ Len(stack[t]) = 1
  BY <1>0, StartAt
<1>2. stack'[Starter] # <<>> /\ stack'[Starter][1] = Frame(q, y)
  BY <1>1, BottomNew
<1>3. Frame(q, y).at = q
  BY DEF Frame
<1>4. result = <<>> /\ \A c \in Children : ~Begun(c)
  BY NoneBegun
<1> QED
  BY <1>2, <1>3, <1>4 DEF StartOrder, SameBegun
-----------------------------------------------------------------------------
(* The children that have yet to arrive.                                    *)

ArrivalPoints == {"emplace", "arrive"}
SamePending == \A x \in Children : Pending(x)' <=> Pending(x)

\* A step that is about one child leaves the others as they are.
LEMMA OthersPending ==
    ASSUME Stacks, NEW t \in Threads, NEW c \in Children, NEW N, Changes(t, N),
           stack[t] # <<>> /\ Top(t).at \in ArrivalPoints => Top(t).of = c,
           \A f \in N : f.at \in ArrivalPoints => f.of = c,
           NEW x \in Children, x # c, sent'[x] = sent[x]
    PROVE  Pending(x)' <=> Pending(x)
<1>1. Leaves(t, FramesAt({"emplace", "arrive"}, {x}))
  <2>1. \A f \in FramesAt({"emplace", "arrive"}, {x}) : f.at \in ArrivalPoints /\ f.of = x
    BY DEF FramesAt, ArrivalPoints
  <2> QED
    BY <2>1 DEF Leaves
<1>2. Occurs(FramesAt({"emplace", "arrive"}, {x}))' <=> Occurs(FramesAt({"emplace", "arrive"}, {x}))
  BY <1>1, LeavesKept
<1> QED
  BY <1>2 DEF Pending

\* A step outside of the arrivals.
LEMMA PendingQuiet ==
    ASSUME Stacks, NEW t \in Threads, NEW N, Changes(t, N),
           stack[t] # <<>> => Top(t).at \notin ArrivalPoints,
           \A f \in N : f.at \notin ArrivalPoints, sent' = sent
    PROVE  SamePending
<1>1. ASSUME NEW x \in Children PROVE Pending(x)' <=> Pending(x)
  <2>1. \A f \in FramesAt({"emplace", "arrive"}, {x}) : f.at \in ArrivalPoints
    BY DEF FramesAt, ArrivalPoints
  <2>2. Leaves(t, FramesAt({"emplace", "arrive"}, {x}))
    BY <2>1 DEF Leaves
  <2>3. Occurs(FramesAt({"emplace", "arrive"}, {x}))' <=> Occurs(FramesAt({"emplace", "arrive"}, {x}))
    BY <2>2, LeavesKept
  <2> QED
    BY <2>3 DEF Pending
<1> QED
  BY <1>1 DEF SamePending

\* A child gives its signal, or stores its error: it has yet to arrive.
LEMMA PendingMove ==
    ASSUME Stacks, NEW t \in Threads, NEW c \in Children, Pending(c), NEW N, Changes(t, N),
           stack[t] # <<>> /\ Top(t).at \in ArrivalPoints => Top(t).of = c,
           \A f \in N : f.at \in ArrivalPoints => f.of = c,
           \A x \in Children : x # c => sent'[x] = sent[x],
           \E f \in N : f.at \in ArrivalPoints
    PROVE  SamePending
<1>1. \A x \in Children : x # c => (Pending(x)' <=> Pending(x))
  BY OthersPending
<1>2. PICK f \in N : f.at \in ArrivalPoints
  OBVIOUS
<1>3. f \in Frames
  BY ChangesIn
<1>4. f \in FramesAt({"emplace", "arrive"}, {c})
  BY <1>2, <1>3 DEF FramesAt, ArrivalPoints
<1>5. Occurs(FramesAt({"emplace", "arrive"}, {c}))'
  BY <1>4, OccursComes
<1> QED
  BY <1>1, <1>5 DEF SamePending, Pending

\* A child arrives.
LEMMA PendingEnds ==
    ASSUME Stacks, Chain, NEW t \in Threads, NEW c \in Children, Top1(t, "arrive", c),
           NEW N, Changes(t, N), \A f \in N : f.at \notin ArrivalPoints, sent' = sent
    PROVE  Pending(c) /\ \A x \in Children : Pending(x)' <=> Pending(x) /\ x # c
<1>0. "arrive" \in ChainPoints /\ "emplace" \in ChainPoints
  BY DEF ChainPoints, ChildPoints
<1> DEFINE S == FramesAt({"emplace", "arrive"}, {c})
<1>1. stack[t] # <<>> /\ Top(t) = Frame("arrive", c) /\ sent[c] # None
  BY <1>0, ChainTopIn DEF Top1
<1>2. Top(t).at = "arrive" /\ Top(t).of = c
  BY <1>1 DEF Frame
<1>3. \A x \in Children : x # c => (Pending(x)' <=> Pending(x))
  BY <1>1, <1>2, OthersPending
<1>4. Frame("arrive", c) \in S
  BY FrameIn, ClientPoints, Constants
<1>5. Once(S)
  <2>1. S \subseteq ChainFrames(c)
    BY <1>0 DEF ChainFrames, FramesAt
  <2>2. Once(ChainFrames(c))
    BY DEF Chain
  <2> QED
    BY <2>1, <2>2 DEF Once
<1>6. \A f \in N : f \notin S
  BY DEF FramesAt, ArrivalPoints
<1>7. ~Occurs(S)'
  BY <1>1, <1>4, <1>5, <1>6, OccursEnds
<1>8. ~Pending(c)'
  BY <1>1, <1>7 DEF Pending
<1>9. Pending(c)
  <2>1. Len(stack[t]) \in DOMAIN stack[t] /\ stack[t][Len(stack[t])] = Frame("arrive", c)
    BY <1>1, StackShape DEF Top, Stacks
  <2> QED
    BY <1>4, <2>1 DEF Pending, Occurs
<1> QED
  BY <1>3, <1>8, <1>9

\* The count follows.
LEMMA CountedSame ==
    ASSUME Counted, SamePending, count' = count
    PROVE  Counted'
<1>1. {c \in Children : Pending(c)}' = {c \in Children : Pending(c)}
  BY DEF SamePending
<1> QED
  BY <1>1 DEF Counted

\* The count goes down with each arrival.
LEMMA CountedLess ==
    ASSUME Counted, NEW c \in Children, Pending(c),
           \A x \in Children : Pending(x)' <=> Pending(x) /\ x # c, count' = count - 1
    PROVE  Counted'
<1>1. PendingChildren' = PendingChildren \ {c}
  BY DEF PendingChildren
<1>2. c \in PendingChildren
  BY DEF PendingChildren
<1>3. Cardinality(PendingChildren \ {c}) = Cardinality(PendingChildren) - 1
  BY <1>2, PendingCounted
<1>4. count' = Cardinality(PendingChildren')
  BY <1>1, <1>3 DEF Counted, PendingChildren
<1> QED
  BY <1>4 DEF Counted, PendingChildren

\* The receiver stays as it is while nobody arrives and no child begins.
LEMMA EndSame ==
    ASSUME Stacks, EndSound, SameBegun, result' = result,
           result # <<>> => \A x \in Children : ~Pending(x) => ~Pending(x)',
           \/ result = <<>> \/ state' = state \/ \E c \in Children : Pending(c) /\ Begun(c),
           stack[Starter] = <<>> => stack'[Starter] = <<>>
    PROVE  EndSound'
<1>1. CASE result = <<>>
  BY <1>1 DEF EndSound
<1>2. CASE result # <<>> /\ result = <<Outcome>> /\ \A c \in Children : ~Pending(c)
  <2>1. state' = state
    BY <1>2
  <2>2. Outcome' = Outcome
    BY <2>1 DEF Outcome
  <2> QED
    BY <1>2, <2>2 DEF EndSound
<1>3. CASE /\ result = <<"set_stopped">> /\ stack[Starter] = <<>>
           /\ \A c \in Children : ~Begun(c)
  BY <1>3 DEF EndSound, SameBegun
<1> QED
  BY <1>1, <1>2, <1>3 DEF EndSound
-----------------------------------------------------------------------------
(* The course of the operation: which children have begun, which have yet   *)
(* to arrive, and how the receiver is completed.                            *)

Course == StartOrder /\ Counted /\ EndSound

\* A step outside of start() that neither begins a child nor lets one arrive.
LEMMA CourseQuiet ==
    ASSUME Stacks, Nested, Course, NEW t \in Threads, NEW N, Changes(t, N), SameBegun, SamePending,
           stack[t] # <<>>, Top(t).at \notin StartPoints, count' = count, result' = result,
           \/ result = <<>> \/ state' = state \/ \E c \in Children : Pending(c) /\ Begun(c)
    PROVE  Course'
<1>1. StartOrder /\ Counted /\ EndSound
  BY DEF Course
<1>2. StartOrder'
  BY <1>1, OrderQuiet
<1>3. Counted'
  BY <1>1, CountedSame
<1>4. stack[Starter] = <<>> => stack'[Starter] = <<>>
  BY StarterBottom, BottomKept, Constants
<1>5. \A x \in Children : ~Pending(x) => ~Pending(x)'
  BY DEF SamePending
<1>6. EndSound'
  BY <1>1, <1>4, <1>5, EndSame
<1> QED
  BY <1>2, <1>3, <1>6 DEF Course

\* A step of a child's completion that does not give its signal.
LEMMA CourseGoes ==
    ASSUME TypeOK, Nested, Course, NEW t \in Threads, NEW c \in Children,
           NEW p \in ChildPoints \ ArrivalPoints, Top1(t, p, c), NEW N, Changes(t, N),
           \A f \in N : f.at \in ChainPoints => f.of = c, \E f \in N : f.at \in ChainPoints,
           \A f \in N : f.at \notin ArrivalPoints, SameOperation
    PROVE  Course'
<1>0. Stacks /\ ChildPoints \subseteq ChainPoints /\ ChildPoints \intersect StartPoints = {}
  BY DEF TypeOK, Stacks, ChainPoints, ChildPoints, StartPoints
<1>1. stack[t] # <<>> /\ Top(t).at = p /\ Top(t).of = c
  BY DEF Top1, Frame
<1>2. Begun(c)
  BY <1>0, <1>1, StackShape, ChainBegun DEF Top, Stacks
<1>3. count' = count /\ result' = result /\ state' = state /\ sent' = sent /\ owner' = owner
  BY DEF SameOperation
<1>4. SameBegun
  BY <1>0, <1>1, <1>2, <1>3, BegunMove
<1>5. SamePending
  BY <1>0, <1>1, <1>3, PendingQuiet
<1> QED
  BY <1>0, <1>1, <1>3, <1>4, <1>5, CourseQuiet

\* A child gives its signal, or stores its error: it has yet to arrive.
LEMMA CourseSends ==
    ASSUME TypeOK, Nested, Course, NEW t \in Threads, NEW c \in Children,
           NEW p \in ChildPoints, Top1(t, p, c), Pending(c), NEW N, Changes(t, N),
           \A f \in N : f.at \in ChainPoints => f.of = c, \E f \in N : f.at \in ArrivalPoints,
           owner' = owner, \A x \in Children : x # c => sent'[x] = sent[x],
           count' = count, result' = result
    PROVE  Course'
<1>0. Stacks /\ ChildPoints \subseteq ChainPoints /\ ArrivalPoints \subseteq ChainPoints
      /\ ChildPoints \intersect StartPoints = {}
  BY DEF TypeOK, Stacks, ChainPoints, ChildPoints, ArrivalPoints, StartPoints
<1>1. stack[t] # <<>> /\ Top(t).at = p /\ Top(t).of = c
  BY DEF Top1, Frame
<1>2. Begun(c)
  BY <1>0, <1>1, StackShape, ChainBegun DEF Top, Stacks
<1>4. SameBegun
  BY <1>0, <1>1, <1>2, BegunMove
<1>5. SamePending
  BY <1>0, <1>1, PendingMove
<1> QED
  BY <1>0, <1>1, <1>2, <1>4, <1>5, CourseQuiet

\* A child arrives.
LEMMA CourseArrives ==
    ASSUME TypeOK, Nested, Chain, Course, NEW t \in Threads, NEW c \in Children,
           Top1(t, "arrive", c), NEW N, Changes(t, N), \A f \in N : f.at \in ChainPoints => f.of = c,
           \A f \in N : f.at \notin ArrivalPoints, SameChild, SameHistory, count' = count - 1
    PROVE  Course'
<1>0. Stacks /\ "arrive" \in ChainPoints /\ "arrive" \notin StartPoints
  BY DEF TypeOK, Stacks, ChainPoints, ChildPoints, StartPoints
<1>1. stack[t] # <<>> /\ Top(t).at = "arrive" /\ Top(t).of = c
  BY DEF Top1, Frame
<1>2. owner' = owner /\ sent' = sent /\ result' = result
  BY DEF SameChild, SameHistory
<1>3. StartOrder /\ Counted /\ EndSound
  BY DEF Course
<1>4. sent[c] # None
  BY <1>0, ChainTopIn
<1>5. Begun(c) /\ SameBegun
  BY <1>0, <1>1, <1>2, <1>4, BegunMove DEF Begun
<1>6. Pending(c) /\ \A x \in Children : Pending(x)' <=> Pending(x) /\ x # c
  BY <1>0, <1>2, PendingEnds
<1>7. Counted'
  BY <1>3, <1>6, CountedLess
<1>8. StartOrder'
  BY <1>0, <1>1, <1>2, <1>3, <1>5, OrderQuiet
<1>9. result = <<>>
  BY <1>3, ArrivingOpen
<1>10. EndSound'
  BY <1>2, <1>9 DEF EndSound
<1> QED
  BY <1>7, <1>8, <1>10 DEF Course

\* start() moves on with a child that it has begun.
LEMMA CourseStarts ==
    ASSUME TypeOK, Nested, Nested', Chain, Course, NEW t \in Threads, NEW c \in Children,
           NEW p \in {"start_child", "hand_off"}, Top1(t, p, c), NEW N, Changes(t, N),
           \A f \in N : f.at \in ChainPoints => f.of = c,
           NEW q \in {"hand_off", "started"}, Frame(q, c) \in N,
           \A g \in N : g.at \in StartPoints => g = Frame(q, c),
           \A f \in N : f.at \notin ArrivalPoints,
           owner'[c] # None \/ \E f \in N : f.at \in ChainPoints,
           \A x \in Children : x # c => owner'[x] = owner[x], SameHistory, SameOp
    PROVE  Course'
<1>0. Stacks /\ p \in ChainPoints /\ p \in StartPoints /\ p \notin ArrivalPoints
  BY DEF TypeOK, Stacks, ChainPoints, ChildPoints, StartPoints, ArrivalPoints
<1>1. stack[t] # <<>> /\ Top(t).at = p /\ Top(t).of = c
  BY DEF Top1, Frame
<1>2. sent' = sent /\ result' = result /\ count' = count /\ state' = state
  BY DEF SameOp, SameHistory
<1>3. StartOrder /\ Counted /\ EndSound
  BY DEF Course
<1>4. Begun(c)
  BY <1>0, <1>1, StackShape, ChainBegun DEF Top, Stacks
<1>5. SameBegun
  BY <1>0, <1>1, <1>2, <1>4, BegunMove
<1>6. SamePending
  BY <1>0, <1>1, <1>2, PendingQuiet
<1>7. StartOrder'
  BY <1>0, <1>3, <1>5, OrderSame
<1>8. Counted'
  BY <1>2, <1>3, <1>6, CountedSame
<1>9. stack[Starter] # <<>>
  BY <1>0, StartAt
<1>10. \A x \in Children : ~Pending(x) => ~Pending(x)'
  BY <1>6 DEF SamePending
<1>11. EndSound'
  BY <1>0, <1>2, <1>3, <1>5, <1>9, <1>10, EndSame
<1> QED
  BY <1>7, <1>8, <1>11 DEF Course

\* Before the children are started.
LEMMA CourseBefore ==
    ASSUME TypeOK, Nested, Nested', Course, NEW t \in Threads, NEW p \in {"start", "check"},
           NEW x, Top1(t, p, x), NEW N, Changes(t, N), \A f \in N : f.at \notin ChainPoints,
           NEW q \in {"check", "abandon"}, NEW y, Frame(q, y) \in N,
           \A g \in N : g.at \in StartPoints => g = Frame(q, y), SameOperation
    PROVE  Course'
<1>0. Stacks /\ p \notin ChainPoints /\ p \in StartPoints /\ ArrivalPoints \subseteq ChainPoints
  BY DEF TypeOK, Stacks, ChainPoints, ChildPoints, StartPoints, ArrivalPoints
<1>1. stack[t] # <<>> /\ Top(t).at = p
  BY DEF Top1, Frame
<1>2. sent' = sent /\ owner' = owner /\ result' = result /\ count' = count
  BY DEF SameOperation
<1>3. StartOrder /\ Counted /\ EndSound
  BY DEF Course
<1>5. SameBegun
  BY <1>0, <1>1, <1>2, BegunQuiet
<1>6. SamePending
  BY <1>0, <1>1, <1>2, PendingQuiet
<1>7. StartOrder'
  BY <1>0, <1>2, <1>3, <1>5, OrderNone
<1>8. Counted'
  BY <1>2, <1>3, <1>6, CountedSame
<1>9. result = <<>>
  BY <1>0, <1>3, NoneBegun
<1>10. EndSound'
  BY <1>2, <1>9 DEF EndSound
<1> QED
  BY <1>7, <1>8, <1>10 DEF Course

\* start() begins the child at one index when the ones before it have begun.
LEMMA CourseBegins ==
    ASSUME TypeOK, Nested, Nested', Course, NEW t \in Threads, NEW p \in {"check", "started"}, NEW x,
           Top1(t, p, x), NEW i \in DOMAIN ChildOrder,
           \A j \in DOMAIN ChildOrder : Begun(ChildOrder[j]) <=> j < i,
           Changes(t, {Frame("start_child", ChildOrder[i])}), SameOperation
    PROVE  Course'
<1> DEFINE c == ChildOrder[i]
<1>0. Stacks /\ p \notin ChainPoints /\ p \in StartPoints /\ p \notin ArrivalPoints
      /\ "start_child" \notin ArrivalPoints
  BY DEF TypeOK, Stacks, ChainPoints, ChildPoints, StartPoints, ArrivalPoints
<1>1. stack[t] # <<>> /\ Top(t).at = p
  BY DEF Top1, Frame
<1>2. sent' = sent /\ owner' = owner /\ result' = result /\ count' = count /\ state' = state
  BY DEF SameOperation
<1>3. StartOrder /\ Counted /\ EndSound
  BY DEF Course
<1>4. c \in Children /\ Frame("start_child", c).at = "start_child" /\ Frame("start_child", c).of = c
  BY ChildOrderSound DEF Frame
<1>5. \A z \in Children : Begun(z)' <=> Begun(z) \/ z = c
  BY <1>0, <1>1, <1>2, <1>4, BegunStart
<1>6. SamePending
  BY <1>0, <1>1, <1>2, <1>4, PendingQuiet
<1>8. Counted'
  BY <1>2, <1>3, <1>6, CountedSame
<1>9. t = Starter /\ Len(stack[Starter]) = 1 /\ stack[Starter] # <<>>
  BY <1>0, StartAt
<1>10. stack'[Starter] # <<>> /\ stack'[Starter][1] = Frame("start_child", c)
  BY <1>0, <1>9, BottomNew
<1>11. ASSUME NEW j \in DOMAIN ChildOrder PROVE Begun(ChildOrder[j])' <=> j <= i
  <2>1. ChildOrder[j] \in Children /\ (ChildOrder[j] = c <=> j = i) /\ i \in Nat /\ j \in Nat
    BY ChildOrderSound
  <2>2. Begun(ChildOrder[j])' <=> Begun(ChildOrder[j]) \/ ChildOrder[j] = c
    BY <1>5, <2>1
  <2> QED
    BY <2>1, <2>2
<1>12. StartOrder'
  <2>1. \A k \in DOMAIN ChildOrder : ChildOrder[k] = c => k = i
    BY ChildOrderSound
  <2> HIDE DEF c
  <2>2. \A k, j \in DOMAIN ChildOrder :
          ChildOrder[k] = stack'[Starter][1].of => (Begun(ChildOrder[j])' <=> j <= k)
    BY <1>4, <1>10, <1>11, <2>1
  <2> QED
    BY <1>4, <1>10, <2>2 DEF StartOrder
<1>13. EndSound'
  <2>1. CASE result = <<>>
    BY <1>2, <2>1 DEF EndSound
  <2>2. CASE result # <<>>
    <3>1. result = <<Outcome>> /\ \A z \in Children : ~Pending(z)
      BY <1>3, <1>9, <2>2 DEF EndSound
    <3>2. Outcome' = Outcome
      BY <1>2 DEF Outcome
    <3> QED
      BY <1>2, <1>6, <3>1, <3>2 DEF EndSound, SamePending
  <2> QED
    BY <2>1, <2>2
<1> QED
  BY <1>8, <1>12, <1>13 DEF Course
-----------------------------------------------------------------------------
(* The steps of the operation and its course.                               *)

\* Each step of a child's completion before it arrives keeps the course.
LEMMA CourseChild ==
    ASSUME TypeOK, Nested, Chain, Course, NEW t \in Threads, NEW c \in Children,
           \/ Finishes(t, c) \/ ValueThrows(t, c) \/ \E signal \in Signals : CompletesChild(t, c, signal)
           \/ SetsValue(t, c) \/ ErrorLate(t, c) \/ ErrorFirst(t, c) \/ Emplaces(t, c)
           \/ StoppedFirst(t, c) \/ StoppedLate(t, c)
    PROVE  Course'
<1>0. Stacks /\ owner \in [Children -> Threads \union {None, "undecided"}]
      /\ sent \in [Children -> {None, "set_value", "set_error", "set_stopped"}]
  BY DEF TypeOK, Stacks
<1>a. /\ "start_child" \in ChainPoints /\ "hand_off" \in ChainPoints /\ "deliver" \in ChainPoints
      /\ \A p \in ChildPoints : p \in ChainPoints /\ p \notin StartPoints
      /\ "started" \notin ChainPoints /\ "add" \notin ChainPoints /\ "remove" \notin ChainPoints
      /\ "request_stop" \notin ChainPoints /\ "check" \notin ChainPoints /\ "abandon" \notin ChainPoints
      /\ "add" \notin StartPoints /\ "remove" \notin StartPoints /\ "callback" \notin StartPoints
      /\ "callback" \notin ChainPoints
  BY DEF ChainPoints, ChildPoints, StartPoints
<1>b. \A p, x : Frame(p, x).at = p /\ Frame(p, x).of = x
  BY DEF Frame
<1>c. /\ ArrivalPoints \subseteq ChainPoints /\ "arrive" \in ArrivalPoints /\ "emplace" \in ArrivalPoints
      /\ "start_child" \notin ArrivalPoints /\ "hand_off" \notin ArrivalPoints
      /\ "finish_child" \in ChildPoints \ ArrivalPoints /\ "complete_child" \in ChildPoints \ ArrivalPoints
      /\ "deliver" \in ChildPoints \ ArrivalPoints
      /\ "arrive" \in ChildPoints /\ "emplace" \in ChildPoints
      /\ Signals \subseteq ChildPoints \ ArrivalPoints
      /\ "set_value" \in Signals /\ "set_error" \in Signals /\ "set_stopped" \in Signals
  BY DEF ArrivalPoints, ChainPoints, ChildPoints, Signals
<1>1. ASSUME Finishes(t, c) PROVE Course'
  <2>1. Top1(t, "finish_child", c) /\ Changes(t, {Frame("complete_child", c), Frame("remove", c)}) /\ SameOperation
    BY <1>1 DEF Finishes
  <2>2. /\ \A f \in {Frame("complete_child", c), Frame("remove", c)} :
             (f.at \in ChainPoints => f.of = c) /\ f.at \notin ArrivalPoints
        /\ \E f \in {Frame("complete_child", c), Frame("remove", c)} : f.at \in ChainPoints
    BY <1>a, <1>b, <1>c
  <2> QED
    BY <1>c, <2>1, <2>2, CourseGoes
<1>2. ASSUME ValueThrows(t, c) PROVE Course'
  <2>1. Top1(t, "set_value", c) /\ Changes(t, {Frame("set_error", c)}) /\ SameOperation
    BY <1>2 DEF ValueThrows
  <2>2. /\ \A f \in {Frame("set_error", c)} :
             (f.at \in ChainPoints => f.of = c) /\ f.at \notin ArrivalPoints
        /\ \E f \in {Frame("set_error", c)} : f.at \in ChainPoints
    BY <1>a, <1>b, <1>c
  <2> QED
    BY <1>c, <2>1, <2>2, CourseGoes
<1>3. ASSUME NEW signal \in Signals, CompletesChild(t, c, signal) PROVE Course'
  <2>1. Top1(t, "complete_child", c) /\ Changes(t, {Frame(signal, c)}) /\ SameOperation
    BY <1>3 DEF CompletesChild
  <2>2. /\ \A f \in {Frame(signal, c)} :
             (f.at \in ChainPoints => f.of = c) /\ f.at \notin ArrivalPoints
        /\ \E f \in {Frame(signal, c)} : f.at \in ChainPoints
    BY <1>a, <1>b, <1>c
  <2> QED
    BY <1>c, <2>1, <2>2, CourseGoes
<1>4. ASSUME SetsValue(t, c) PROVE Course'
  <2>1. Top1(t, "set_value", c) /\ Changes(t, {Frame("arrive", c)})
    BY <1>4 DEF SetsValue
  <2>2. /\ \A f \in {Frame("arrive", c)} : f.at \in ChainPoints => f.of = c
        /\ \E f \in {Frame("arrive", c)} : f.at \in ArrivalPoints
    BY <1>a, <1>b, <1>c
  <2>3. /\ owner' = owner /\ count' = count /\ result' = result
        /\ \A x \in Children : x # c => sent'[x] = sent[x]
    BY <1>0, <1>4 DEF SetsValue, SameChild, SameOp, SameHistory
  <2>4. Pending(c)
    BY <1>0, <1>a, <1>c, <2>1, ChainTopIn DEF Pending, ArrivalPoints
  <2> QED
    BY <1>c, <2>1, <2>2, <2>3, <2>4, CourseSends
<1>5. ASSUME ErrorLate(t, c) PROVE Course'
  <2>1. Top1(t, "set_error", c) /\ Changes(t, {Frame("arrive", c)})
    BY <1>5 DEF ErrorLate
  <2>2. /\ \A f \in {Frame("arrive", c)} : f.at \in ChainPoints => f.of = c
        /\ \E f \in {Frame("arrive", c)} : f.at \in ArrivalPoints
    BY <1>a, <1>b, <1>c
  <2>3. /\ owner' = owner /\ count' = count /\ result' = result
        /\ \A x \in Children : x # c => sent'[x] = sent[x]
    BY <1>0, <1>5 DEF ErrorLate, SameChild, SameOp, SameHistory
  <2>4. Pending(c)
    BY <1>0, <1>a, <1>c, <2>1, ChainTopIn DEF Pending, ArrivalPoints
  <2> QED
    BY <1>c, <2>1, <2>2, <2>3, <2>4, CourseSends
<1>6. ASSUME ErrorFirst(t, c) PROVE Course'
  <2>1. Top1(t, "set_error", c) /\ Changes(t, {Frame("emplace", c), Frame("request_stop", Inner)})
    BY <1>6 DEF ErrorFirst
  <2>2. /\ \A f \in {Frame("emplace", c), Frame("request_stop", Inner)} : f.at \in ChainPoints => f.of = c
        /\ \E f \in {Frame("emplace", c), Frame("request_stop", Inner)} : f.at \in ArrivalPoints
    BY <1>a, <1>b, <1>c
  <2>3. /\ owner' = owner /\ count' = count /\ result' = result
        /\ \A x \in Children : x # c => sent'[x] = sent[x]
    BY <1>0, <1>6 DEF ErrorFirst, SameChild, SameOp, SameHistory
  <2>4. Pending(c)
    BY <1>0, <1>a, <1>c, <2>1, ChainTopIn DEF Pending, ArrivalPoints
  <2> QED
    BY <1>c, <2>1, <2>2, <2>3, <2>4, CourseSends
<1>7. ASSUME Emplaces(t, c) PROVE Course'
  <2>1. Top1(t, "emplace", c) /\ Changes(t, {Frame("arrive", c)})
    BY <1>7 DEF Emplaces
  <2>2. /\ \A f \in {Frame("arrive", c)} : f.at \in ChainPoints => f.of = c
        /\ \E f \in {Frame("arrive", c)} : f.at \in ArrivalPoints
    BY <1>a, <1>b, <1>c
  <2>3. /\ owner' = owner /\ count' = count /\ result' = result
        /\ \A x \in Children : x # c => sent'[x] = sent[x]
    BY <1>0, <1>7 DEF Emplaces, SameChild, SameOp, SameHistory
  <2>4. Pending(c)
    <3>1. Frame("emplace", c) \in FramesAt({"emplace", "arrive"}, {c})
      BY FrameIn, ClientPoints, Constants
    <3> QED
      BY <1>0, <2>1, <3>1, StackShape DEF Pending, Occurs, Top1, Top, Stacks
  <2> QED
    BY <1>c, <2>1, <2>2, <2>3, <2>4, CourseSends
<1>8. ASSUME StoppedFirst(t, c) PROVE Course'
  <2>1. Top1(t, "set_stopped", c) /\ Changes(t, {Frame("arrive", c), Frame("request_stop", Inner)})
    BY <1>8 DEF StoppedFirst
  <2>2. /\ \A f \in {Frame("arrive", c), Frame("request_stop", Inner)} : f.at \in ChainPoints => f.of = c
        /\ \E f \in {Frame("arrive", c), Frame("request_stop", Inner)} : f.at \in ArrivalPoints
    BY <1>a, <1>b, <1>c
  <2>3. /\ owner' = owner /\ count' = count /\ result' = result
        /\ \A x \in Children : x # c => sent'[x] = sent[x]
    BY <1>0, <1>8 DEF StoppedFirst, SameChild, SameOp, SameHistory
  <2>4. Pending(c)
    BY <1>0, <1>a, <1>c, <2>1, ChainTopIn DEF Pending, ArrivalPoints
  <2> QED
    BY <1>c, <2>1, <2>2, <2>3, <2>4, CourseSends
<1>9. ASSUME StoppedLate(t, c) PROVE Course'
  <2>1. Top1(t, "set_stopped", c) /\ Changes(t, {Frame("arrive", c)})
    BY <1>9 DEF StoppedLate
  <2>2. /\ \A f \in {Frame("arrive", c)} : f.at \in ChainPoints => f.of = c
        /\ \E f \in {Frame("arrive", c)} : f.at \in ArrivalPoints
    BY <1>a, <1>b, <1>c
  <2>3. /\ owner' = owner /\ count' = count /\ result' = result
        /\ \A x \in Children : x # c => sent'[x] = sent[x]
    BY <1>0, <1>9 DEF StoppedLate, SameChild, SameOp, SameHistory
  <2>4. Pending(c)
    BY <1>0, <1>a, <1>c, <2>1, ChainTopIn DEF Pending, ArrivalPoints
  <2> QED
    BY <1>c, <2>1, <2>2, <2>3, <2>4, CourseSends
<1> HIDE DEF Course
<1> QED
  BY <1>1, <1>2, <1>3, <1>4, <1>5, <1>6, <1>7, <1>8, <1>9

\* The steps of start() keep the course.
LEMMA CourseStart ==
    ASSUME TypeOK, Nested, Nested', Chain, Course, NEW t \in Threads,
           \/ StartStoppable(t) \/ StartNever(t) \/ CheckStops(t) \/ CheckGoes(t) \/ Abandons(t)
           \/ \E c \in Children :
                \/ StartAsync(t, c) \/ HandEager(t, c) \/ HandOver(t, c) \/ NextEnds(t, c)
                \/ \E signal \in Signals : StartInline(t, c, signal)
                \/ \E i \in DOMAIN ChildOrder : NextStarts(t, c, i)
    PROVE  Course'
<1>0. Stacks /\ owner \in [Children -> Threads \union {None, "undecided"}]
      /\ sent \in [Children -> {None, "set_value", "set_error", "set_stopped"}]
  BY DEF TypeOK, Stacks
<1>a. /\ "start_child" \in ChainPoints /\ "hand_off" \in ChainPoints /\ "deliver" \in ChainPoints
      /\ \A p \in ChildPoints : p \in ChainPoints /\ p \notin StartPoints
      /\ "started" \notin ChainPoints /\ "add" \notin ChainPoints /\ "remove" \notin ChainPoints
      /\ "request_stop" \notin ChainPoints /\ "check" \notin ChainPoints /\ "abandon" \notin ChainPoints
      /\ "add" \notin StartPoints /\ "remove" \notin StartPoints /\ "callback" \notin StartPoints
      /\ "callback" \notin ChainPoints
  BY DEF ChainPoints, ChildPoints, StartPoints
<1>b. \A p, x : Frame(p, x).at = p /\ Frame(p, x).of = x
  BY DEF Frame
<1>c. /\ ArrivalPoints \subseteq ChainPoints /\ "arrive" \in ArrivalPoints /\ "emplace" \in ArrivalPoints
      /\ "start_child" \notin ArrivalPoints /\ "hand_off" \notin ArrivalPoints
      /\ "finish_child" \in ChildPoints \ ArrivalPoints /\ "complete_child" \in ChildPoints \ ArrivalPoints
      /\ "deliver" \in ChildPoints \ ArrivalPoints
      /\ "arrive" \in ChildPoints /\ "emplace" \in ChildPoints
      /\ Signals \subseteq ChildPoints \ ArrivalPoints
      /\ "set_value" \in Signals /\ "set_error" \in Signals /\ "set_stopped" \in Signals
  BY DEF ArrivalPoints, ChainPoints, ChildPoints, Signals
<1>d. StartOrder /\ Counted /\ EndSound
  BY DEF Course
<1>1. ASSUME StartStoppable(t) PROVE Course'
  <2>1. Top1(t, "start", OnStop) /\ Changes(t, {Frame("check", OnStop), Frame("add", OnStop)}) /\ SameOperation
    BY <1>1 DEF StartStoppable
  <2>2. /\ \A f \in {Frame("check", OnStop), Frame("add", OnStop)} :
             f.at \notin ChainPoints /\ (f.at \in StartPoints => f = Frame("check", OnStop))
        /\ Frame("check", OnStop) \in {Frame("check", OnStop), Frame("add", OnStop)}
    BY <1>a, <1>b
  <2> QED
    BY <2>1, <2>2, CourseBefore
<1>2. ASSUME StartNever(t) PROVE Course'
  <2>1. Top1(t, "start", OnStop) /\ Changes(t, {Frame("check", OnStop)}) /\ SameOperation
    BY <1>2 DEF StartNever
  <2>2. /\ \A f \in {Frame("check", OnStop)} :
             f.at \notin ChainPoints /\ (f.at \in StartPoints => f = Frame("check", OnStop))
        /\ Frame("check", OnStop) \in {Frame("check", OnStop)}
    BY <1>a, <1>b
  <2> QED
    BY <2>1, <2>2, CourseBefore
<1>3. ASSUME CheckStops(t) PROVE Course'
  <2>1. Top1(t, "check", OnStop) /\ Changes(t, {Frame("abandon", OnStop), Frame("remove", OnStop)}) /\ SameOperation
    BY <1>3 DEF CheckStops
  <2>2. /\ \A f \in {Frame("abandon", OnStop), Frame("remove", OnStop)} :
             f.at \notin ChainPoints /\ (f.at \in StartPoints => f = Frame("abandon", OnStop))
        /\ Frame("abandon", OnStop) \in {Frame("abandon", OnStop), Frame("remove", OnStop)}
    BY <1>a, <1>b
  <2> QED
    BY <2>1, <2>2, CourseBefore
<1>4. ASSUME NEW c \in Children, NEW signal \in Signals, StartInline(t, c, signal) PROVE Course'
  <2>1. Top1(t, "start_child", c) /\ Changes(t, {Frame("started", c), Frame(signal, c)})
    BY <1>4 DEF StartInline
  <2>2. /\ \A f \in {Frame("started", c), Frame(signal, c)} : f.at \in ChainPoints => f.of = c
        /\ \A f \in {Frame("started", c), Frame(signal, c)} : f.at \in StartPoints => f = Frame("started", c)
        /\ \A f \in {Frame("started", c), Frame(signal, c)} : f.at \notin ArrivalPoints
        /\ Frame("started", c) \in {Frame("started", c), Frame(signal, c)}
    BY <1>a, <1>b, <1>c
  <2>3. /\ SameHistory /\ SameOp /\ \A x \in Children : x # c => owner'[x] = owner[x]
    BY <1>0, <1>4 DEF StartInline, SameChild, SameOp, SameHistory, SameOperation
  <2>4. \E f \in {Frame("started", c), Frame(signal, c)} : f.at \in ChainPoints
    BY <1>a, <1>b, <1>c
  <2> QED
    BY <2>1, <2>2, <2>3, <2>4, CourseStarts
<1>5. ASSUME NEW c \in Children, StartAsync(t, c) PROVE Course'
  <2>1. Top1(t, "start_child", c) /\ Changes(t, {Frame("hand_off", c), Frame("add", c)})
    BY <1>5 DEF StartAsync
  <2>2. /\ \A f \in {Frame("hand_off", c), Frame("add", c)} : f.at \in ChainPoints => f.of = c
        /\ \A f \in {Frame("hand_off", c), Frame("add", c)} : f.at \in StartPoints => f = Frame("hand_off", c)
        /\ \A f \in {Frame("hand_off", c), Frame("add", c)} : f.at \notin ArrivalPoints
        /\ Frame("hand_off", c) \in {Frame("hand_off", c), Frame("add", c)}
    BY <1>a, <1>b, <1>c
  <2>3. /\ SameHistory /\ SameOp /\ \A x \in Children : x # c => owner'[x] = owner[x]
    BY <1>0, <1>5 DEF StartAsync, SameChild, SameOp, SameHistory, SameOperation
  <2>4. \E f \in {Frame("hand_off", c), Frame("add", c)} : f.at \in ChainPoints
    BY <1>a, <1>b, <1>c
  <2> QED
    BY <2>1, <2>2, <2>3, <2>4, CourseStarts
<1>6. ASSUME NEW c \in Children, HandEager(t, c) PROVE Course'
  <2>1. Top1(t, "hand_off", c) /\ Changes(t, {Frame("started", c), Frame("finish_child", c)})
    BY <1>6 DEF HandEager
  <2>2. /\ \A f \in {Frame("started", c), Frame("finish_child", c)} : f.at \in ChainPoints => f.of = c
        /\ \A f \in {Frame("started", c), Frame("finish_child", c)} : f.at \in StartPoints => f = Frame("started", c)
        /\ \A f \in {Frame("started", c), Frame("finish_child", c)} : f.at \notin ArrivalPoints
        /\ Frame("started", c) \in {Frame("started", c), Frame("finish_child", c)}
    BY <1>a, <1>b, <1>c
  <2>3. /\ SameHistory /\ SameOp /\ \A x \in Children : x # c => owner'[x] = owner[x]
    BY <1>0, <1>6 DEF HandEager, SameChild, SameOp, SameHistory, SameOperation
  <2>4. \E f \in {Frame("started", c), Frame("finish_child", c)} : f.at \in ChainPoints
    BY <1>a, <1>b, <1>c
  <2> QED
    BY <2>1, <2>2, <2>3, <2>4, CourseStarts
<1>7. ASSUME NEW c \in Children, HandOver(t, c) PROVE Course'
  <2>1. Top1(t, "hand_off", c) /\ Changes(t, {Frame("started", c)})
    BY <1>7 DEF HandOver
  <2>2. /\ \A f \in {Frame("started", c)} : f.at \in ChainPoints => f.of = c
        /\ \A f \in {Frame("started", c)} : f.at \in StartPoints => f = Frame("started", c)
        /\ \A f \in {Frame("started", c)} : f.at \notin ArrivalPoints
        /\ Frame("started", c) \in {Frame("started", c)}
    BY <1>a, <1>b, <1>c
  <2>3. /\ SameHistory /\ SameOp /\ \A x \in Children : x # c => owner'[x] = owner[x]
    BY <1>0, <1>7 DEF HandOver, SameChild, SameOp, SameHistory, SameOperation
  <2>4. owner'[c] # None
    BY <1>0, <1>7, Constants DEF HandOver
  <2> QED
    BY <2>1, <2>2, <2>3, <2>4, CourseStarts
<1>8. ASSUME CheckGoes(t) PROVE Course'
  <2>1. Top1(t, "check", OnStop) /\ Changes(t, {Frame("start_child", ChildOrder[1])}) /\ SameOperation
    BY <1>8 DEF CheckGoes
  <2>2. 1 \in DOMAIN ChildOrder /\ \A j \in DOMAIN ChildOrder : ~(j < 1) /\ ChildOrder[j] \in Children
    BY ChildOrderSound
  <2>3. \A j \in DOMAIN ChildOrder : Begun(ChildOrder[j]) <=> j < 1
    BY <1>0, <1>d, <2>1, <2>2, NoneBegun
  <2> QED
    BY <2>1, <2>2, <2>3, CourseBegins
<1>9. ASSUME NEW c \in Children, NEW i \in DOMAIN ChildOrder, NextStarts(t, c, i) PROVE Course'
  <2>1. /\ Top1(t, "started", ChildOrder[i]) /\ i + 1 \in DOMAIN ChildOrder /\ SameOperation
        /\ Changes(t, {Frame("start_child", ChildOrder[i + 1])})
    BY <1>9 DEF NextStarts
  <2>2. \A j \in DOMAIN ChildOrder : Begun(ChildOrder[j]) <=> j <= i
    BY <1>0, <1>d, <2>1, NextNotBegun
  <2>3. \A j \in DOMAIN ChildOrder : (j <= i <=> j < i + 1)
    BY ChildOrderSound
  <2>4. \A j \in DOMAIN ChildOrder : Begun(ChildOrder[j]) <=> j < i + 1
    BY <2>2, <2>3
  <2> QED
    BY <2>1, <2>4, CourseBegins
<1>10. ASSUME NEW c \in Children, NextEnds(t, c) PROVE Course'
  <2>1. Top1(t, "started", c) /\ c = ChildOrder[Len(ChildOrder)] /\ Changes(t, {}) /\ SameOperation
    BY <1>10 DEF NextEnds
  <2>2. t = Starter /\ Len(stack[Starter]) = 1 /\ stack[Starter] # <<>>
    BY <1>0, <2>1, StartAt DEF StartPoints
  <2>3. stack'[Starter] = <<>>
    BY <1>0, <2>1, <2>2, BottomGone, Constants
  <2>4. \A x \in Children : Begun(x)
    <3>1. Len(ChildOrder) \in DOMAIN ChildOrder
      BY ChildOrderSound
    <3>2. \A j \in DOMAIN ChildOrder : Begun(ChildOrder[j]) <=> j <= Len(ChildOrder)
      BY <1>0, <1>d, <2>1, <3>1, NextNotBegun
    <3>3. \A j \in DOMAIN ChildOrder : j <= Len(ChildOrder)
      BY ChildOrderSound
    <3> QED
      BY <3>2, <3>3, ChildOrderSound
  <2>5. stack[t] # <<>> /\ Top(t).at = "started"
    BY <2>1 DEF Top1, Frame
  <2>6. sent' = sent /\ owner' = owner /\ result' = result /\ count' = count /\ state' = state
    BY <2>1 DEF SameOperation
  <2>7. SameBegun
    BY <1>0, <1>a, <2>1, <2>5, <2>6, BegunQuiet
  <2>8. SamePending
    BY <1>0, <1>a, <1>c, <2>1, <2>5, <2>6, PendingQuiet
  <2>9. StartOrder'
    BY <2>3, <2>4, <2>7 DEF StartOrder, SameBegun
  <2>10. Counted'
    BY <1>d, <2>6, <2>8, CountedSame
  <2>11. \A x \in Children : ~Pending(x) => ~Pending(x)'
    BY <2>8 DEF SamePending
  <2>12. EndSound'
    BY <1>0, <1>d, <2>3, <2>6, <2>7, <2>11, EndSame
  <2> QED
    BY <2>9, <2>10, <2>12 DEF Course
<1>11. ASSUME Abandons(t) PROVE Course'
  <2>1. Top1(t, "abandon", OnStop) /\ Changes(t, {}) /\ result' = Append(result, "set_stopped")
    BY <1>11 DEF Abandons
  <2>2. t = Starter /\ Len(stack[Starter]) = 1 /\ stack[Starter] # <<>>
    BY <1>0, <2>1, StartAt DEF StartPoints
  <2>3. stack'[Starter] = <<>>
    BY <1>0, <2>1, <2>2, BottomGone, Constants
  <2>4. result = <<>> /\ \A x \in Children : ~Begun(x)
    BY <1>0, <1>d, <2>1, NoneBegun
  <2>5. stack[t] # <<>> /\ Top(t).at = "abandon"
    BY <2>1 DEF Top1, Frame
  <2>6. sent' = sent /\ owner' = owner /\ count' = count
    BY <1>11 DEF Abandons, SameChild, SameOp
  <2>7. SameBegun
    BY <1>0, <1>a, <2>1, <2>5, <2>6, BegunQuiet
  <2>8. SamePending
    BY <1>0, <1>a, <1>c, <2>1, <2>5, <2>6, PendingQuiet
  <2>9. StartOrder'
    BY <2>3, <2>4, <2>7 DEF StartOrder, SameBegun
  <2>10. Counted'
    BY <1>d, <2>6, <2>8, CountedSame
  <2>11. result' = <<"set_stopped">>
    BY <2>1, <2>4
  <2>12. EndSound'
    BY <2>3, <2>4, <2>7, <2>11 DEF EndSound, SameBegun
  <2> QED
    BY <2>9, <2>10, <2>12 DEF Course
<1> HIDE DEF Course
<1> QED
  BY <1>1, <1>2, <1>3, <1>4, <1>5, <1>6, <1>7, <1>8, <1>9, <1>10, <1>11

\* The other steps of the operation keep the course.
LEMMA CourseEnds ==
    ASSUME TypeOK, Nested, Chain, Course, NEW t \in Threads,
           \/ CallbackForwards(t)
           \/ \E c \in Children :
                \/ CallbackFinishes(t, c) \/ CallbackNotes(t, c) \/ ArrivesEarly(t, c)
                \/ ArrivesLastStoppable(t, c) \/ ArrivesLast(t, c) \/ Delivers(t, c)
    PROVE  Course'
<1>0. Stacks /\ owner \in [Children -> Threads \union {None, "undecided"}]
      /\ sent \in [Children -> {None, "set_value", "set_error", "set_stopped"}]
  BY DEF TypeOK, Stacks
<1>a. /\ "start_child" \in ChainPoints /\ "hand_off" \in ChainPoints /\ "deliver" \in ChainPoints
      /\ \A p \in ChildPoints : p \in ChainPoints /\ p \notin StartPoints
      /\ "started" \notin ChainPoints /\ "add" \notin ChainPoints /\ "remove" \notin ChainPoints
      /\ "request_stop" \notin ChainPoints /\ "check" \notin ChainPoints /\ "abandon" \notin ChainPoints
      /\ "add" \notin StartPoints /\ "remove" \notin StartPoints /\ "callback" \notin StartPoints
      /\ "callback" \notin ChainPoints
  BY DEF ChainPoints, ChildPoints, StartPoints
<1>b. \A p, x : Frame(p, x).at = p /\ Frame(p, x).of = x
  BY DEF Frame
<1>c. /\ ArrivalPoints \subseteq ChainPoints /\ "arrive" \in ArrivalPoints /\ "emplace" \in ArrivalPoints
      /\ "start_child" \notin ArrivalPoints /\ "hand_off" \notin ArrivalPoints
      /\ "finish_child" \in ChildPoints \ ArrivalPoints /\ "complete_child" \in ChildPoints \ ArrivalPoints
      /\ "deliver" \in ChildPoints \ ArrivalPoints
      /\ "arrive" \in ChildPoints /\ "emplace" \in ChildPoints
      /\ Signals \subseteq ChildPoints \ ArrivalPoints
      /\ "set_value" \in Signals /\ "set_error" \in Signals /\ "set_stopped" \in Signals
  BY DEF ArrivalPoints, ChainPoints, ChildPoints, Signals
<1>d. StartOrder /\ Counted /\ EndSound
  BY DEF Course
<1>1. ASSUME CallbackForwards(t) PROVE Course'
  <2>1. Top1(t, "callback", OnStop) /\ Changes(t, {Frame("request_stop", Inner)}) /\ SameOperation
    BY <1>1 DEF CallbackForwards
  <2>2. stack[t] # <<>> /\ Top(t).at = "callback"
    BY <2>1 DEF Top1, Frame
  <2>3. \A f \in {Frame("request_stop", Inner)} : f.at \notin ChainPoints /\ f.at \notin ArrivalPoints
    BY <1>a, <1>b, <1>c
  <2>4. sent' = sent /\ owner' = owner /\ result' = result /\ count' = count /\ state' = state
    BY <2>1 DEF SameOperation
  <2>5. SameBegun
    BY <1>0, <1>a, <2>1, <2>2, <2>3, <2>4, BegunQuiet
  <2>6. SamePending
    BY <1>0, <1>a, <1>c, <2>1, <2>2, <2>3, <2>4, PendingQuiet
  <2> QED
    BY <1>0, <1>a, <2>1, <2>2, <2>4, <2>5, <2>6, CourseQuiet
<1>2. ASSUME NEW c \in Children, CallbackNotes(t, c) PROVE Course'
  <2>1. Top1(t, "callback", c) /\ Changes(t, {})
    BY <1>2 DEF CallbackNotes
  <2>2. stack[t] # <<>> /\ Top(t).at = "callback"
    BY <2>1 DEF Top1, Frame
  <2>4. sent' = sent /\ owner' = owner /\ result' = result /\ count' = count /\ state' = state
    BY <1>2 DEF CallbackNotes, SameOp, SameHistory
  <2>5. SameBegun
    BY <1>0, <1>a, <2>1, <2>2, <2>4, BegunQuiet
  <2>6. SamePending
    BY <1>0, <1>a, <1>c, <2>1, <2>2, <2>4, PendingQuiet
  <2> QED
    BY <1>0, <1>a, <2>1, <2>2, <2>4, <2>5, <2>6, CourseQuiet
<1>3. ASSUME NEW c \in Children, CallbackFinishes(t, c) PROVE Course'
  <2>1. Top1(t, "callback", c) /\ Changes(t, {Frame("finish_child", c)}) /\ owner[c] = "undecided"
    BY <1>3 DEF CallbackFinishes
  <2>2. stack[t] # <<>> /\ Top(t).at = "callback"
    BY <2>1 DEF Top1, Frame
  <2>3. /\ \A f \in {Frame("finish_child", c)} : f.at \notin ArrivalPoints /\ f.of = c
        /\ \E f \in {Frame("finish_child", c)} : f.at \in ChainPoints
    BY <1>a, <1>b, <1>c
  <2>4. /\ sent' = sent /\ result' = result /\ count' = count /\ state' = state
        /\ \A x \in Children : x # c => owner'[x] = owner[x]
    BY <1>0, <1>3 DEF CallbackFinishes, SameOp, SameHistory
  <2>5. Begun(c)
    BY <2>1, Constants DEF Begun
  <2>6. SameBegun
    BY <1>0, <1>a, <2>1, <2>2, <2>3, <2>4, <2>5, BegunMove
  <2>7. SamePending
    BY <1>0, <1>a, <1>c, <2>1, <2>2, <2>3, <2>4, PendingQuiet
  <2> QED
    BY <1>0, <1>a, <2>1, <2>2, <2>4, <2>6, <2>7, CourseQuiet
<1>4. ASSUME NEW c \in Children, ArrivesEarly(t, c) PROVE Course'
  BY <1>4, CourseArrives DEF ArrivesEarly
<1>5. ASSUME NEW c \in Children, ArrivesLastStoppable(t, c) PROVE Course'
  <2>1. \A f \in {Frame("deliver", c), Frame("remove", OnStop)} :
          (f.at \in ChainPoints => f.of = c) /\ f.at \notin ArrivalPoints
    BY <1>a, <1>b, <1>c
  <2> QED
    BY <1>5, <2>1, CourseArrives DEF ArrivesLastStoppable
<1>6. ASSUME NEW c \in Children, ArrivesLast(t, c) PROVE Course'
  <2>1. \A f \in {Frame("deliver", c)} : (f.at \in ChainPoints => f.of = c) /\ f.at \notin ArrivalPoints
    BY <1>a, <1>b, <1>c
  <2> QED
    BY <1>6, <2>1, CourseArrives DEF ArrivesLast
<1>7. ASSUME NEW c \in Children, Delivers(t, c) PROVE Course'
  <2>1. Top1(t, "deliver", c) /\ Changes(t, {}) /\ result' = Append(result, Outcome)
    BY <1>7 DEF Delivers
  <2>2. stack[t] # <<>> /\ Top(t).at = "deliver" /\ Top(t).of = c
    BY <2>1 DEF Top1, Frame
  <2>3. sent' = sent /\ owner' = owner /\ count' = count /\ state' = state
    BY <1>7 DEF Delivers, SameChild, SameOp
  <2>4. sent[c] # None /\ count = 0 /\ result = <<>>
    BY <1>0, <1>a, <2>1, ChainTopIn
  <2>5. Begun(c)
    BY <2>4 DEF Begun
  <2>6. SameBegun
    BY <1>0, <1>a, <2>1, <2>2, <2>3, <2>4, <2>5, BegunMove
  <2>7. SamePending
    BY <1>0, <1>c, <2>1, <2>2, <2>3, PendingQuiet
  <2>8. StartOrder'
    BY <1>0, <1>a, <1>c, <1>d, <2>1, <2>2, <2>5, <2>6, OrderQuiet
  <2>9. Counted'
    BY <1>d, <2>3, <2>7, CountedSame
  <2>10. \A x \in Children : ~Pending(x)
    BY <1>d, <2>4, PendingCounted DEF Counted, PendingChildren
  <2>11. result' = <<Outcome>> /\ Outcome' = Outcome
    BY <2>1, <2>3, <2>4 DEF Outcome
  <2>12. EndSound'
    BY <2>7, <2>10, <2>11 DEF EndSound, SamePending
  <2> QED
    BY <2>8, <2>9, <2>12 DEF Course
<1> HIDE DEF Course
<1> QED
  BY <1>1, <1>2, <1>3, <1>4, <1>5, <1>6, <1>7

\* Each step keeps the course.
LEMMA CourseStep ==
    ASSUME TypeOK, Nested, Chain, Course, [Next]_vars
    PROVE  Course'
<1>0. Stacks /\ owner \in [Children -> Threads \union {None, "undecided"}]
      /\ sent \in [Children -> {None, "set_value", "set_error", "set_stopped"}]
  BY DEF TypeOK, Stacks
<1>a. /\ "start_child" \in ChainPoints /\ "hand_off" \in ChainPoints /\ "deliver" \in ChainPoints
      /\ \A p \in ChildPoints : p \in ChainPoints /\ p \notin StartPoints
      /\ "started" \notin ChainPoints /\ "add" \notin ChainPoints /\ "remove" \notin ChainPoints
      /\ "request_stop" \notin ChainPoints /\ "check" \notin ChainPoints /\ "abandon" \notin ChainPoints
      /\ "add" \notin StartPoints /\ "remove" \notin StartPoints /\ "callback" \notin StartPoints
      /\ "callback" \notin ChainPoints
  BY DEF ChainPoints, ChildPoints, StartPoints
<1>b. \A p, x : Frame(p, x).at = p /\ Frame(p, x).of = x
  BY DEF Frame
<1>c. /\ ArrivalPoints \subseteq ChainPoints /\ "arrive" \in ArrivalPoints /\ "emplace" \in ArrivalPoints
      /\ "start_child" \notin ArrivalPoints /\ "hand_off" \notin ArrivalPoints
      /\ "finish_child" \in ChildPoints \ ArrivalPoints /\ "complete_child" \in ChildPoints \ ArrivalPoints
      /\ "deliver" \in ChildPoints \ ArrivalPoints
      /\ "arrive" \in ChildPoints /\ "emplace" \in ChildPoints
      /\ Signals \subseteq ChildPoints \ ArrivalPoints
      /\ "set_value" \in Signals /\ "set_error" \in Signals /\ "set_stopped" \in Signals
  BY DEF ArrivalPoints, ChainPoints, ChildPoints, Signals
<1>n. Nested'
  BY NestedStep
<1>1. ASSUME NEW t \in Threads, StopEvent(t), SameOperation PROVE Course'
  <2>1. PICK N : Changes(t, N) /\ \A f \in N : f.at \in StopOnly
    BY <1>1, StopShape DEF Within
  <2>2. stack[t] # <<>> /\ Top(t).at \in StopOnly
    BY <1>1, StopShape DEF Within
  <2>3. StopOnly \intersect ChainPoints = {} /\ StopOnly \intersect StartPoints = {}
    BY DEF StopOnly, ChainPoints, ChildPoints, StartPoints
  <2>4. sent' = sent /\ owner' = owner /\ result' = result /\ count' = count /\ state' = state
    BY <1>1 DEF SameOperation
  <2>5. SameBegun
    BY <1>0, <2>1, <2>2, <2>3, <2>4, BegunQuiet
  <2>6. SamePending
    BY <1>0, <1>c, <2>1, <2>2, <2>3, <2>4, PendingQuiet
  <2> QED
    BY <1>0, <2>1, <2>2, <2>3, <2>4, <2>5, <2>6, CourseQuiet
<1>2. ASSUME NEW t \in Threads, NEW N, Changes(t, N), stack[t] = <<>>, t # Starter,
             SameBegun, SamePending, SameOp, SameHistory
      PROVE  Course'
  <2>1. StartOrder /\ Counted /\ EndSound
    BY DEF Course
  <2>2. stack'[Starter] = stack[Starter]
    BY <1>0, <1>2, ChangesIdle, Constants
  <2>3. result' = result /\ count' = count /\ state' = state
    BY <1>2 DEF SameOp, SameHistory
  <2>4. \A j \in DOMAIN ChildOrder : ChildOrder[j] \in Children
    BY ChildOrderSound
  <2>5. StartOrder'
    BY <1>2, <2>1, <2>2, <2>3, <2>4 DEF StartOrder, SameBegun
  <2>6. Counted'
    BY <1>2, <2>1, <2>3, CountedSame
  <2>7. EndSound'
    BY <1>0, <1>2, <2>1, <2>2, <2>3, EndSame DEF SamePending
  <2> QED
    BY <2>5, <2>6, <2>7 DEF Course
<1>3. ASSUME Asks PROVE Course'
  <2>1. /\ Changes(Stopper, {Frame("request_stop", Outer)}) /\ Stopper \in Threads /\ Stopper # Starter
        /\ stack[Stopper] = <<>> /\ SameOp /\ SameHistory
    BY <1>3, Constants DEF Asks
  <2>2. \A f \in {Frame("request_stop", Outer)} : f.at \notin ChainPoints /\ f.at \notin ArrivalPoints
    BY <1>a, <1>b, <1>c
  <2>3. sent' = sent /\ owner' = owner
    BY <1>3 DEF Asks, SameChild, SameHistory
  <2>4. SameBegun
    BY <1>0, <2>1, <2>2, <2>3, BegunQuiet
  <2>5. SamePending
    BY <1>0, <2>1, <2>2, <2>3, PendingQuiet
  <2> QED
    BY <1>2, <2>1, <2>4, <2>5
<1>4. ASSUME NEW c \in Children, Works(c) PROVE Course'
  <2>1. /\ Changes(c, {Frame("finish_child", c)}) /\ c \in Threads /\ c # Starter
        /\ stack[c] = <<>> /\ SameOp /\ SameHistory /\ owner[c] = "undecided"
    BY <1>4, Constants DEF Works
  <2>2. /\ \A f \in {Frame("finish_child", c)} : f.at \notin ArrivalPoints /\ f.of = c
        /\ \E f \in {Frame("finish_child", c)} : f.at \in ChainPoints
    BY <1>a, <1>b, <1>c
  <2>3. sent' = sent /\ \A x \in Children : x # c => owner'[x] = owner[x]
    BY <1>0, <1>4 DEF Works, SameHistory
  <2>4. Begun(c)
    BY <2>1, Constants DEF Begun
  <2>5. SameBegun
    BY <1>0, <2>1, <2>2, <2>3, <2>4, BegunMove
  <2>6. SamePending
    BY <1>0, <2>1, <2>2, <2>3, PendingQuiet
  <2> QED
    BY <1>2, <2>1, <2>5, <2>6
<1>5. ASSUME Stutter PROVE Course'
  <2>1. /\ stack' = stack /\ sent' = sent /\ owner' = owner /\ result' = result /\ count' = count
        /\ state' = state
    BY <1>5 DEF Stutter, SameOperation
  <2>2. \A S : Occurs(S)' <=> Occurs(S)
    BY <2>1, StackUnchanged
  <2>3. SameBegun /\ SamePending
    BY <2>1, <2>2 DEF SameBegun, SamePending, Begun, Pending
  <2>4. StartOrder /\ Counted /\ EndSound
    BY DEF Course
  <2>5. \A j \in DOMAIN ChildOrder : ChildOrder[j] \in Children
    BY ChildOrderSound
  <2>6. StartOrder'
    BY <2>1, <2>3, <2>4, <2>5 DEF StartOrder, SameBegun
  <2>7. Counted'
    BY <2>1, <2>3, <2>4, CountedSame
  <2>8. EndSound'
    BY <1>0, <2>1, <2>3, <2>4, EndSame DEF SamePending
  <2> QED
    BY <2>6, <2>7, <2>8 DEF Course
<1> HIDE DEF Course
<1> QED
  BY <1>n, <1>1, <1>3, <1>4, <1>5, CourseChild, CourseStart, CourseEnds, NextEvents DEF ClientEvent
=============================================================================
