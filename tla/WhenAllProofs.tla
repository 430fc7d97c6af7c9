--------------------------- MODULE WhenAllProofs ---------------------------
(***************************************************************************)
(* The rest of the argument for when_all: every step keeps the lists of    *)
(* callbacks (Listed), what is known of each callback (CallbacksSound,     *)
(* Reachable), of __on_stop_ (OnStopSound), of the children's callbacks    *)
(* (ChildrenSound) and of the operation's state (OperationSound); with the *)
(* steps of WhenAllInvariant, the inductive invariant holds, and with it   *)
(* the properties of WhenAll and StopSource.                               *)
(***************************************************************************)
EXTENDS WhenAllInvariant
-----------------------------------------------------------------------------
(* The frames about one callback.                                           *)

\* A destructor is called by the completion of its child, and __on_stop_'s
\* by the completion of the operation.
LEMMA DestructorParent ==
    ASSUME Stacks, Nested, NEW u \in Threads, NEW j \in DOMAIN stack[u], NEW f, f = stack[u][j],
           f.at \in DestructorPoints
    PROVE  /\ j - 1 \in DOMAIN stack[u]
           /\ \/ /\ stack[u][j - 1].at = "complete_child" /\ stack[u][j - 1].of \in Children
                 /\ f.of = stack[u][j - 1].of
              \/ stack[u][j - 1].at \in {"abandon", "deliver"} /\ f.of = OnStop
<1>1. j \in Nat \ {0} /\ DOMAIN stack[u] = 1 .. Len(stack[u]) /\ Len(stack[u]) \in Nat
  BY StackShape DEF Stacks
<1>2. j # 1
  <2>1. j = 1 => Outermost(u, f)
    BY DEF Nested, NestedFrames
  <2> QED
    BY <2>1 DEF Outermost, RequestFrame, ChildFrame, ChildPoints, DestructorPoints
<1>3. j - 1 \in DOMAIN stack[u]
  BY <1>1, <1>2
<1>4. CalledFrom(f, stack[u][j - 1])
  BY <1>2 DEF Nested, NestedFrames
<1>5. f.at \notin ConstructorPoints \union {"callback"} /\ f.at \notin ChildPoints
      /\ f.at \notin {"request_stop", "notify", "run", "ran", "relock"}
  BY DEF ConstructorPoints, ChildPoints, DestructorPoints
<1>6. ~ChildFrame(f) /\ ~RequestFrame(f, Inner)
  BY <1>5 DEF ChildFrame, RequestFrame
<1> QED
  BY <1>3, <1>4, <1>5, <1>6 DEF CalledFrom

\* A constructor is called by start().
LEMMA ConstructorParent ==
    ASSUME Stacks, Nested, NEW u \in Threads, NEW j \in DOMAIN stack[u], NEW f, f = stack[u][j],
           f.at \in ConstructorPoints
    PROVE  /\ j - 1 \in DOMAIN stack[u]
           /\ \/ stack[u][j - 1].at = "check" /\ f.of = OnStop
              \/ /\ stack[u][j - 1].at = "hand_off" /\ stack[u][j - 1].of \in Children
                 /\ f.of = stack[u][j - 1].of
<1>1. j \in Nat \ {0} /\ DOMAIN stack[u] = 1 .. Len(stack[u]) /\ Len(stack[u]) \in Nat
  BY StackShape DEF Stacks
<1>2. j # 1
  <2>1. j = 1 => Outermost(u, f)
    BY DEF Nested, NestedFrames
  <2> QED
    BY <2>1 DEF Outermost, RequestFrame, ChildFrame, ChildPoints, ConstructorPoints
<1>3. j - 1 \in DOMAIN stack[u]
  BY <1>1, <1>2
<1>4. CalledFrom(f, stack[u][j - 1])
  BY <1>2 DEF Nested, NestedFrames
<1>5. f.at \notin DestructorPoints \union {"callback"} /\ f.at \notin ChildPoints
      /\ f.at \notin {"request_stop", "notify", "run", "ran", "relock"}
  BY DEF ConstructorPoints, ChildPoints, DestructorPoints
<1>6. ~ChildFrame(f) /\ ~RequestFrame(f, Inner)
  BY <1>5 DEF ChildFrame, RequestFrame
<1> QED
  BY <1>3, <1>4, <1>5, <1>6 DEF CalledFrom

\* A frame that is about to run a callback, or to destroy it, has called
\* nobody yet.
LEMMA Innermost ==
    ASSUME Stacks, Nested, NEW u \in Threads, NEW j \in DOMAIN stack[u], NEW f, f = stack[u][j],
           f.at \in {"run", "add", "link", "remove", "unlink", "await", "start", "callback"}
    PROVE  j = Len(stack[u])
<1>1. j \in Nat \ {0} /\ DOMAIN stack[u] = 1 .. Len(stack[u]) /\ Len(stack[u]) \in Nat
  BY StackShape DEF Stacks
<1> SUFFICES ASSUME j # Len(stack[u]) PROVE FALSE
  OBVIOUS
<1>2. j + 1 \in DOMAIN stack[u] /\ j + 1 # 1 /\ (j + 1) - 1 = j
  BY <1>1
<1>3. CalledFrom(stack[u][j + 1], f)
  BY <1>2 DEF Nested, NestedFrames
<1> QED
  BY <1>3 DEF CalledFrom

\* Two frames of one child's completion are one.
LEMMA SameChain ==
    ASSUME Stacks, Nested, Chain, NEW u \in Threads, NEW j \in DOMAIN stack[u],
           NEW v \in Threads, NEW k \in DOMAIN stack[v],
           stack[u][j].at \in ChainPoints, stack[v][k].at \in ChainPoints,
           stack[u][j].of = stack[v][k].of
    PROVE  u = v /\ j = k
<1>1. /\ stack[u][j].of \in Children /\ stack[u][j] \in ChainFrames(stack[u][j].of)
      /\ stack[v][k] \in ChainFrames(stack[u][j].of)
  BY ChainFrame
<1>2. Once(ChainFrames(stack[u][j].of))
  BY <1>1 DEF Chain
<1> QED
  BY <1>1, <1>2 DEF Once

\* Only one call delivers.
LEMMA SameDeliver ==
    ASSUME Stacks, Nested, Chain, NEW u \in Threads, NEW j \in DOMAIN stack[u],
           NEW v \in Threads, NEW k \in DOMAIN stack[v],
           stack[u][j].at = "deliver", stack[v][k].at = "deliver"
    PROVE  u = v /\ j = k
<1>1. "deliver" \in ChainPoints
  BY DEF ChainPoints, ChildPoints
<1>2. stack[u][j].of \in Children /\ stack[v][k].of \in Children
  BY <1>1, ChainFrame
<1>3. stack[u][j] \in Frames /\ stack[v][k] \in Frames
  BY StackShape DEF Stacks
<1>4. stack[u][j] \in FramesAt({"deliver"}, Children) /\ stack[v][k] \in FramesAt({"deliver"}, Children)
  BY <1>2, <1>3 DEF FramesAt
<1>5. Once(FramesAt({"deliver"}, Children))
  BY DEF Chain
<1> QED
  BY <1>4, <1>5 DEF Once

\* While start() has started no child, none has begun.
LEMMA BeforeBegun ==
    ASSUME Stacks, Nested, StartOrder, NEW u \in Threads, NEW j \in DOMAIN stack[u],
           stack[u][j].at \in {"start", "check", "abandon"}
    PROVE  /\ u = Starter /\ j = 1 /\ result = <<>> /\ \A c \in Children : ~Begun(c)
           /\ \A v \in Threads : \A k \in DOMAIN stack[v] :
                /\ stack[v][k].at \notin ChainPoints
                /\ stack[v][k].at \in {"start", "check", "abandon"} => v = u /\ k = j
<1>1. u = Starter /\ j = 1
  BY FrameKinds DEF Known, StartPoints
<1>2. stack[Starter] # <<>>
  BY <1>1, StackShape DEF Stacks
<1>3. result = <<>> /\ \A c \in Children : ~Begun(c)
  BY <1>1, <1>2 DEF StartOrder
<1>4. \A v \in Threads : \A k \in DOMAIN stack[v] : stack[v][k].at \notin ChainPoints
  BY <1>3, ChainBegun
<1>5. \A v \in Threads : \A k \in DOMAIN stack[v] :
        stack[v][k].at \in {"start", "check", "abandon"} => v = u /\ k = j
  BY <1>1, FrameKinds DEF Known, StartPoints
<1> QED
  BY <1>1, <1>3, <1>4, <1>5

\* A callback is destroyed by one call, after it was constructed, and the
\* child it belongs to is at its completion.
LEMMA DestructorAlone ==
    ASSUME Stacks, Nested, Chain, StartOrder, NEW u \in Threads, NEW j \in DOMAIN stack[u],
           stack[u][j].at \in DestructorPoints, NEW v \in Threads, NEW k \in DOMAIN stack[v],
           stack[v][k].of = stack[u][j].of
    PROVE  /\ stack[v][k].at \in DestructorPoints => v = u /\ k = j
           /\ stack[v][k].at \notin ConstructorPoints \union {"start", "start_child", "hand_off", "finish_child"}
<1> DEFINE f == stack[u][j]
           g == stack[v][k]
<1>0. /\ {"complete_child", "deliver", "start_child", "hand_off", "finish_child"} \subseteq ChainPoints
      /\ DestructorPoints \intersect ConstructorPoints = {}
  BY DEF ChainPoints, ChildPoints, DestructorPoints, ConstructorPoints
<1>d. j \in Nat /\ k \in Nat
  BY StackShape DEF Stacks
<1>1. /\ j - 1 \in DOMAIN stack[u]
      /\ \/ /\ stack[u][j - 1].at = "complete_child" /\ stack[u][j - 1].of \in Children
            /\ f.of = stack[u][j - 1].of
         \/ stack[u][j - 1].at \in {"abandon", "deliver"} /\ f.of = OnStop
  BY DestructorParent
<1>2. ASSUME f.of \in Children PROVE stack[u][j - 1].at = "complete_child" /\ stack[u][j - 1].of = f.of
  BY <1>1, <1>2, Constants
<1>3. ASSUME f.of = OnStop PROVE stack[u][j - 1].at \in {"abandon", "deliver"}
  BY <1>1, <1>3, Constants
<1>4. f.of = OnStop \/ f.of \in Children
  BY <1>1
<1>5. ASSUME g.at \in DestructorPoints PROVE v = u /\ k = j
  <2>1. /\ k - 1 \in DOMAIN stack[v]
        /\ \/ /\ stack[v][k - 1].at = "complete_child" /\ stack[v][k - 1].of \in Children
              /\ g.of = stack[v][k - 1].of
           \/ stack[v][k - 1].at \in {"abandon", "deliver"} /\ g.of = OnStop
    BY <1>5, DestructorParent
  <2>2. CASE f.of \in Children
    <3>1. stack[v][k - 1].at = "complete_child" /\ stack[v][k - 1].of = f.of
      BY <2>1, <2>2, Constants
    <3>2. v = u /\ k - 1 = j - 1
      BY <1>0, <1>1, <1>2, <2>1, <2>2, <3>1, SameChain
    <3> QED
      BY <1>d, <3>2
  <2>3. CASE f.of = OnStop
    <3>1. stack[v][k - 1].at \in {"abandon", "deliver"}
      BY <2>1, <2>3, Constants
    <3>2. v = u /\ k - 1 = j - 1
      <4>1. CASE stack[v][k - 1].at = "abandon" \/ stack[u][j - 1].at = "abandon"
        BY <1>0, <1>1, <1>3, <2>1, <2>3, <3>1, <4>1, BeforeBegun
      <4>2. CASE stack[v][k - 1].at = "deliver" /\ stack[u][j - 1].at = "deliver"
        BY <1>1, <2>1, <4>2, SameDeliver
      <4> QED
        BY <1>3, <2>3, <3>1, <4>1, <4>2
    <3> QED
      BY <1>d, <3>2
  <2> QED
    BY <1>4, <2>2, <2>3
<1>6. ASSUME g.at \in ConstructorPoints PROVE FALSE
  <2>1. /\ k - 1 \in DOMAIN stack[v]
        /\ \/ stack[v][k - 1].at = "check" /\ g.of = OnStop
           \/ /\ stack[v][k - 1].at = "hand_off" /\ stack[v][k - 1].of \in Children
              /\ g.of = stack[v][k - 1].of
    BY <1>6, ConstructorParent
  <2>2. CASE f.of \in Children
    <3>1. stack[v][k - 1].at = "hand_off" /\ stack[v][k - 1].of = f.of
      BY <2>1, <2>2, Constants
    <3>2. v = u /\ k - 1 = j - 1
      BY <1>0, <1>1, <1>2, <2>1, <2>2, <3>1, SameChain
    <3> QED
      BY <1>2, <2>2, <3>1, <3>2
  <2>3. CASE f.of = OnStop
    <3>1. stack[v][k - 1].at = "check"
      BY <2>1, <2>3, Constants
    <3>2. stack[u][j - 1].at \notin ChainPoints
          /\ (stack[u][j - 1].at = "abandon" => v = u /\ k - 1 = j - 1)
      BY <1>1, <2>1, <3>1, BeforeBegun
    <3> QED
      BY <1>0, <1>3, <2>3, <3>1, <3>2
  <2> QED
    BY <1>4, <2>2, <2>3
<1>7. ASSUME g.at \in {"start_child", "hand_off", "finish_child"} PROVE FALSE
  <2>1. g.of \in Children
    BY <1>0, <1>7, ChainFrame
  <2>2. v = u /\ k = j - 1
    BY <1>0, <1>1, <1>2, <1>7, <2>1, SameChain
  <2> QED
    BY <1>2, <1>7, <2>1, <2>2
<1>8. ASSUME g.at = "start" PROVE FALSE
  <2>1. g.of = OnStop
    BY <1>8, FrameKinds DEF Known
  <2>2. stack[u][j - 1].at \notin ChainPoints
        /\ (stack[u][j - 1].at = "abandon" => v = u /\ k = j - 1)
    BY <1>1, <1>8, BeforeBegun
  <2> QED
    BY <1>0, <1>3, <1>8, <2>1, <2>2
<1> QED
  BY <1>5, <1>6, <1>7, <1>8
-----------------------------------------------------------------------------
(* The lists of the sources.                                                *)

Enlisted(c) == cb[c].linked /\ cb[c].life # "dead"
ListedIn(s) ==
    /\ IsInjective(src[s].callbacks)
    /\ \A c \in CallbacksOf(s) : Enlisted(c) <=> In(src[s].callbacks, c)

\* The invariant, source by source.
LEMMA ListedParts ==
    /\ Listed <=> \A s \in Sources : ListedIn(s)
    /\ Listed' <=> \A s \in Sources : ListedIn(s)'
  BY DEF Listed, ListedIn, Enlisted, In

\* A step that leaves a list and what belongs there.
LEMMA ListedSame ==
    ASSUME NEW s \in Sources, ListedIn(s), src'[s].callbacks = src[s].callbacks,
           \A c \in CallbacksOf(s) : Enlisted(c)' <=> Enlisted(c)
    PROVE  ListedIn(s)'
  BY DEF ListedIn

\* A step about one callback leaves the other source's list.
LEMMA ListedOther ==
    ASSUME NEW s \in Sources, NEW c \in CallbacksOf(s), NEW x \in Sources, x # s, ListedIn(x),
           src'[x] = src[x], OtherCallbacks(c)
    PROVE  ListedIn(x)'
<1>1. \A d \in CallbacksOf(x) : d \in Callbacks /\ d # c
  BY Apart DEF CallbacksOf
<1>2. \A d \in CallbacksOf(x) : cb'[d] = cb[d]
  BY <1>1 DEF OtherCallbacks
<1> QED
  BY <1>2, ListedSame DEF Enlisted

\* A step about one callback that leaves the list and whether the callback
\* belongs there.
LEMMA ListedQuiet ==
    ASSUME NEW s \in Sources, NEW c \in CallbacksOf(s), NEW x \in Sources, ListedIn(x),
           src'[s].callbacks = src[s].callbacks, OtherSources(s), OtherCallbacks(c),
           Enlisted(c)' <=> Enlisted(c)
    PROVE  ListedIn(x)'
<1>1. CASE x # s
  BY <1>1, ListedOther DEF OtherSources
<1>2. CASE x = s
  <2>1. \A d \in CallbacksOf(s) : d \in Callbacks
    BY Registered
  <2>2. \A d \in CallbacksOf(s) : Enlisted(d)' <=> Enlisted(d)
    BY <2>1 DEF OtherCallbacks, Enlisted
  <2> QED
    BY <1>2, <2>2, ListedSame
<1> QED
  BY <1>1, <1>2

\* A step of a stop source keeps the lists.
LEMMA ListedStop ==
    ASSUME TypeOK, Listed, CallbacksSound, NEW t \in Threads, StopEvent(t), NEW x \in Sources
    PROVE  ListedIn(x)'
<1>0. Stacks /\ CallbacksOK /\ \A s \in Sources : src[s].callbacks \in Seq(CallbacksOf(s))
  BY DEF TypeOK, Stacks, CallbacksOK, CallbackRecords
<1>a. \A s \in Sources : ListedIn(s)
  BY ListedParts
<1>b. \A c \in Callbacks : cb[c] \in CallbackRecords
  BY <1>0 DEF CallbacksOK
<1>c. ASSUME src' = src PROVE \A s : OtherSources(s) /\ src'[s].callbacks = src[s].callbacks
  BY <1>c DEF OtherSources
<1>d. ASSUME cb' = cb PROVE \A c : OtherCallbacks(c) /\ (Enlisted(c)' <=> Enlisted(c))
  BY <1>d DEF OtherCallbacks, Enlisted
<1>e. ASSUME NEW s \in Sources, src'[s].callbacks = src[s].callbacks, OtherSources(s), cb' = cb
      PROVE  ListedIn(x)'
  <2>1. src'[x].callbacks = src[x].callbacks
    BY <1>e DEF OtherSources
  <2> QED
    BY <1>a, <1>d, <1>e, <2>1, ListedSame
<1>1. ASSUME NEW s \in Sources, RequestLate(t, s) PROVE ListedIn(x)'
  BY <1>c, <1>e, <1>1 DEF RequestLate
<1>2. ASSUME NEW s \in Sources, RequestFirst(t, s) PROVE ListedIn(x)'
  BY <1>c, <1>e, <1>2 DEF RequestFirst
<1>3. ASSUME NEW s \in Sources, NotifyEnd(t, s) PROVE ListedIn(x)'
  BY <1>c, <1>e, <1>3 DEF NotifyEnd
<1>4. ASSUME NEW s \in Sources, NEW c \in CallbacksOf(s), RanRemoved(t, s, c) PROVE ListedIn(x)'
  BY <1>c, <1>e, <1>4 DEF RanRemoved
<1>5. ASSUME NEW s \in Sources, NEW c \in CallbacksOf(s), LockedAgain(t, s, c) PROVE ListedIn(x)'
  BY <1>c, <1>e, <1>5 DEF LockedAgain
<1>6. ASSUME NEW s \in Sources, NEW c \in CallbacksOf(s), AddLocks(t, s, c) PROVE ListedIn(x)'
  BY <1>c, <1>e, <1>6 DEF AddLocks
<1>7. ASSUME NEW s \in Sources, NEW c \in CallbacksOf(s), RemoveLocks(t, s, c) PROVE ListedIn(x)'
  BY <1>c, <1>e, <1>7 DEF RemoveLocks
<1>8. ASSUME NEW s \in Sources, NEW c \in CallbacksOf(s), UnlinkWaits(t, s, c) PROVE ListedIn(x)'
  BY <1>c, <1>e, <1>8 DEF UnlinkWaits
<1>9. ASSUME NEW s \in Sources, NEW c \in CallbacksOf(s), RunOne(t, s, c) PROVE ListedIn(x)'
  <2>1. c \in Callbacks /\ cb'[c] = [cb[c] EXCEPT !.flagged = TRUE]
    BY <1>9, Apart DEF RunOne
  <2>2. cb'[c].linked = cb[c].linked /\ cb'[c].life = cb[c].life
    BY <1>b, <2>1 DEF CallbackRecords
  <2>3. Enlisted(c)' <=> Enlisted(c)
    BY <2>2 DEF Enlisted
  <2> QED
    BY <1>a, <1>c, <1>9, <2>3, ListedQuiet DEF RunOne
<1>10. ASSUME NEW s \in Sources, NEW c \in CallbacksOf(s), RanAlive(t, s, c) PROVE ListedIn(x)'
  <2>1. c \in Callbacks /\ cb'[c] = [cb[c] EXCEPT !.flagged = FALSE, !.completed = TRUE]
    BY <1>10, Apart DEF RanAlive
  <2>2. cb'[c].linked = cb[c].linked /\ cb'[c].life = cb[c].life
    BY <1>b, <2>1 DEF CallbackRecords
  <2>3. Enlisted(c)' <=> Enlisted(c)
    BY <2>2 DEF Enlisted
  <2> QED
    BY <1>a, <1>c, <1>10, <2>3, ListedQuiet DEF RanAlive
<1>11. ASSUME NEW s \in Sources, NEW c \in CallbacksOf(s), AddLate(t, s, c) PROVE ListedIn(x)'
  <2>1. c \in Callbacks /\ cb'[c] = [cb[c] EXCEPT !.attached = FALSE]
    BY <1>11, Apart DEF AddLate
  <2>2. cb'[c].linked = cb[c].linked /\ cb'[c].life = cb[c].life
    BY <1>b, <2>1 DEF CallbackRecords
  <2>3. Enlisted(c)' <=> Enlisted(c)
    BY <2>2 DEF Enlisted
  <2> QED
    BY <1>a, <1>c, <1>11, <2>3, ListedQuiet DEF AddLate
<1>12. ASSUME NEW s \in Sources, NEW c \in CallbacksOf(s), RemoveDetached(t, s, c) PROVE ListedIn(x)'
  <2>1. c \in Callbacks /\ cb'[c] = [cb[c] EXCEPT !.life = "dead"]
    BY <1>12, Apart DEF RemoveDetached
  <2>2. ~cb[c].linked
    BY <1>12, <2>1 DEF RemoveDetached, CallbacksSound
  <2>3. cb'[c].life = "dead"
    BY <1>b, <2>1 DEF CallbackRecords
  <2>4. Enlisted(c)' <=> Enlisted(c)
    BY <2>2, <2>3 DEF Enlisted
  <2> QED
    BY <1>a, <1>c, <1>12, <2>4, ListedQuiet DEF RemoveDetached
<1>13. ASSUME NEW s \in Sources, NEW c \in CallbacksOf(s), UnlinkOwn(t, s, c) PROVE ListedIn(x)'
  <2>1. c \in Callbacks /\ cb'[c] = [cb[c] EXCEPT !.life = "dead"]
    BY <1>13, Apart DEF UnlinkOwn
  <2>2. ~cb[c].linked
    BY <1>13 DEF UnlinkOwn
  <2>3. cb'[c].life = "dead"
    BY <1>b, <2>1 DEF CallbackRecords
  <2>4. Enlisted(c)' <=> Enlisted(c)
    BY <2>2, <2>3 DEF Enlisted
  <2> QED
    BY <1>a, <1>c, <1>13, <2>4, ListedQuiet DEF UnlinkOwn
<1>14. ASSUME NEW s \in Sources, NEW c \in CallbacksOf(s), AwaitEnds(t, s, c) PROVE ListedIn(x)'
  <2>1. c \in Callbacks /\ cb'[c] = [cb[c] EXCEPT !.life = "dead"]
    BY <1>14, Apart DEF AwaitEnds
  <2>2. ~cb[c].linked
    <3>1. CallbackFrameSound(Frame("await", c))
      BY <1>0, <1>14, TopSound DEF AwaitEnds
    <3>2. Frame("await", c).at = "await" /\ Frame("await", c).of = c
      BY DEF Frame
    <3> QED
      BY <3>1, <3>2 DEF CallbackFrameSound
  <2>3. cb'[c].life = "dead"
    BY <1>b, <2>1 DEF CallbackRecords
  <2>4. Enlisted(c)' <=> Enlisted(c)
    BY <2>2, <2>3 DEF Enlisted
  <2> QED
    BY <1>a, <1>c, <1>14, <2>4, ListedQuiet DEF AwaitEnds
<1>15. ASSUME NEW s \in Sources, NEW c \in CallbacksOf(s), NotifyOne(t, s, c) PROVE ListedIn(x)'
  <2>1. c \in Callbacks /\ src'[s].callbacks = Tail(src[s].callbacks) /\ src[s].callbacks # <<>> /\ c = Head(src[s].callbacks)
    BY <1>15, Apart DEF NotifyOne
  <2>2. ListedIn(s)
    BY <1>a
  <2>3. IsInjective(src[s].callbacks)
    BY <2>2 DEF ListedIn
  <2>4. IsInjective(src'[s].callbacks)
        /\ \A d : In(src'[s].callbacks, d) <=> In(src[s].callbacks, d) /\ d # c
    BY <1>0, <2>1, <2>3, TailSound
  <2>5. cb'[c] = [cb[c] EXCEPT !.linked = FALSE]
    BY <1>15 DEF NotifyOne
  <2>6. ~Enlisted(c)'
    BY <1>b, <2>1, <2>5 DEF Enlisted, CallbackRecords
  <2>7. \A d \in CallbacksOf(s) : d # c => (Enlisted(d)' <=> Enlisted(d))
    BY <1>15, Registered DEF NotifyOne, OtherCallbacks, Enlisted
  <2>8. ListedIn(s)'
    BY <2>2, <2>4, <2>6, <2>7 DEF ListedIn
  <2>9. CASE x # s
    BY <1>a, <1>15, <2>9, ListedOther DEF NotifyOne, OtherSources
  <2> QED
    BY <2>8, <2>9
<1>16. ASSUME NEW s \in Sources, NEW c \in CallbacksOf(s), UnlinkListed(t, s, c) PROVE ListedIn(x)'
  <2>1. c \in Callbacks /\ src'[s].callbacks = Unlinked(src[s].callbacks, c)
    BY <1>16, Apart DEF UnlinkListed
  <2>2. ListedIn(s)
    BY <1>a
  <2>3. IsInjective(src[s].callbacks)
    BY <2>2 DEF ListedIn
  <2>a. cb[c].life = "alive" /\ cb[c].linked
    <3>1. CallbackFrameSound(Frame("unlink", c))
      BY <1>0, <1>16, TopSound DEF UnlinkListed
    <3>2. Frame("unlink", c).at = "unlink" /\ Frame("unlink", c).of = c
      BY DEF Frame
    <3>3. cb[c].life = "alive"
      BY <3>1, <3>2 DEF CallbackFrameSound, DestructorPoints
    <3> QED
      BY <1>16, <3>3 DEF UnlinkListed
  <2>b. In(src[s].callbacks, c)
    BY <2>2, <2>a DEF ListedIn, Enlisted
  <2>4. IsInjective(src'[s].callbacks)
        /\ \A d : In(src'[s].callbacks, d) <=> In(src[s].callbacks, d) /\ d # c
    BY <1>0, <2>1, <2>3, <2>b, UnlinkedSound
  <2>5. cb'[c] = [cb[c] EXCEPT !.life = "dead"]
    BY <1>16 DEF UnlinkListed
  <2>6. ~Enlisted(c)'
    BY <1>b, <2>1, <2>5 DEF Enlisted, CallbackRecords
  <2>7. \A d \in CallbacksOf(s) : d # c => (Enlisted(d)' <=> Enlisted(d))
    BY <1>16, Registered DEF UnlinkListed, OtherCallbacks, Enlisted
  <2>8. ListedIn(s)'
    BY <2>2, <2>4, <2>6, <2>7 DEF ListedIn
  <2>9. CASE x # s
    BY <1>a, <1>16, <2>9, ListedOther DEF UnlinkListed, OtherSources
  <2> QED
    BY <2>8, <2>9
<1>17. ASSUME NEW s \in Sources, NEW c \in CallbacksOf(s), Links(t, s, c) PROVE ListedIn(x)'
  <2>1. c \in Callbacks /\ src'[s].callbacks = <<c>> \o src[s].callbacks
    BY <1>17, Apart DEF Links
  <2>2. ListedIn(s)
    BY <1>a
  <2>3. IsInjective(src[s].callbacks)
    BY <2>2 DEF ListedIn
  <2>a. cb[c] = Born
    <3>1. CallbackFrameSound(Frame("link", c))
      BY <1>0, <1>17, TopSound DEF Links
    <3>2. Frame("link", c).at = "link" /\ Frame("link", c).of = c
      BY DEF Frame
    <3> QED
      BY <3>1, <3>2 DEF CallbackFrameSound, ConstructorPoints
  <2>b. ~In(src[s].callbacks, c)
    BY <2>2, <2>a DEF ListedIn, Enlisted, Born, Unborn
  <2>4. IsInjective(src'[s].callbacks)
        /\ \A d : In(src'[s].callbacks, d) <=> In(src[s].callbacks, d) \/ d = c
    BY <1>0, <2>1, <2>3, <2>b, LinkedSound
  <2>5. cb'[c] = [Born EXCEPT !.linked = TRUE]
    BY <1>17, <2>a DEF Links
  <2>6. Enlisted(c)'
    BY <2>5 DEF Enlisted, Born, Unborn
  <2>7. \A d \in CallbacksOf(s) : d # c => (Enlisted(d)' <=> Enlisted(d))
    BY <1>17, Registered DEF Links, OtherCallbacks, Enlisted
  <2>8. ListedIn(s)'
    BY <2>2, <2>4, <2>6, <2>7 DEF ListedIn
  <2>9. CASE x # s
    BY <1>a, <1>17, <2>9, ListedOther DEF Links, OtherSources
  <2> QED
    BY <2>8, <2>9
<1> HIDE DEF ListedIn
<1> QED
  BY <1>1, <1>2, <1>3, <1>4, <1>5, <1>6, <1>7, <1>8, <1>9, <1>10, <1>11, <1>12, <1>13, <1>14, <1>15, <1>16, <1>17 DEF StopEvent

\* A step of the operation constructs a callback, or leaves them all alone.
LEMMA ClientCallbacks ==
    ASSUME NEW t \in Threads, ClientEvent(t)
    PROVE  \/ cb' = cb
           \/ StartStoppable(t)
           \/ \E c \in Children : StartAsync(t, c)
  BY DEF ClientEvent, StartNever, CheckStops, CheckGoes, Abandons, CallbackForwards, HandEager, HandOver,
         NextEnds, CallbackFinishes, CallbackNotes, Finishes, SetsValue, ValueThrows, ErrorLate,
         ErrorFirst, Emplaces, StoppedFirst, StoppedLate, ArrivesEarly, ArrivesLastStoppable,
         ArrivesLast, Delivers, StartInline, CompletesChild, NextStarts

\* A callback that is about to be constructed.
LEMMA NewCallback ==
    ASSUME TypeOK, CallbacksSound, NEW t \in Threads, NEW c \in Callbacks,
           (c = OnStop /\ StartStoppable(t)) \/ (c \in Children /\ StartAsync(t, c))
    PROVE  cb[c] = Unborn /\ cb'[c] = Born /\ OtherCallbacks(c) /\ src' = src /\ SameOperation
<1>0. Stacks
  BY DEF TypeOK, Stacks
<1>1. \A p, x : Frame(p, x).at = p /\ Frame(p, x).of = x
  BY DEF Frame
<1>2. CASE c = OnStop /\ StartStoppable(t)
  <2>1. CallbackFrameSound(Frame("start", OnStop))
    BY <1>0, <1>2, TopSound DEF StartStoppable
  <2>2. cb[OnStop] = Unborn
    BY <1>1, <2>1 DEF CallbackFrameSound
  <2> QED
    BY <1>2, <2>2 DEF StartStoppable
<1>3. CASE c \in Children /\ StartAsync(t, c)
  <2>1. CallbackFrameSound(Frame("start_child", c))
    BY <1>0, <1>3, TopSound DEF StartAsync
  <2>2. cb[c] = Unborn
    BY <1>1, <2>1 DEF CallbackFrameSound
  <2> QED
    BY <1>3, <2>2 DEF StartAsync
<1> QED
  BY <1>2, <1>3

\* Each step keeps the lists.
LEMMA ListedStep ==
    ASSUME TypeOK, Nested, Chain, Listed, CallbacksSound, [Next]_vars
    PROVE  Listed'
<1>a. \A s \in Sources : ListedIn(s)
  BY ListedParts
<1> SUFFICES ASSUME NEW x \in Sources PROVE ListedIn(x)'
  BY ListedParts
<1>1. ASSUME src' = src, cb' = cb PROVE ListedIn(x)'
  BY <1>a, <1>1, ListedSame DEF Enlisted
<1>2. ASSUME NEW t \in Threads, NEW c \in Callbacks,
             (c = OnStop /\ StartStoppable(t)) \/ (c \in Children /\ StartAsync(t, c))
      PROVE  ListedIn(x)'
  <2>1. cb[c] = Unborn /\ cb'[c] = Born /\ OtherCallbacks(c) /\ src' = src
    BY <1>2, NewCallback
  <2>2. Enlisted(c)' <=> Enlisted(c)
    BY <2>1 DEF Enlisted, Born, Unborn
  <2>3. PICK s \in Sources : c \in CallbacksOf(s)
    BY Constants DEF CallbacksOf
  <2> QED
    BY <1>a, <2>1, <2>2, <2>3, ListedQuiet DEF OtherSources
<1>3. ASSUME NEW t \in Threads, ClientEvent(t) PROVE ListedIn(x)'
  <2>1. src' = src
    BY <1>3, ClientShape
  <2> QED
    BY <1>1, <1>2, <1>3, <2>1, ClientCallbacks, Constants
<1>4. ASSUME Asks PROVE ListedIn(x)'
  BY <1>1, <1>4 DEF Asks
<1>5. ASSUME NEW c \in Children, Works(c) PROVE ListedIn(x)'
  BY <1>1, <1>5 DEF Works
<1>6. ASSUME Stutter PROVE ListedIn(x)'
  BY <1>1, <1>6 DEF Stutter
<1> HIDE DEF ListedIn
<1> QED
  BY <1>3, <1>4, <1>5, <1>6, ListedStop, NextEvents
-----------------------------------------------------------------------------
(* What begins stays begun, and __on_stop_ lives as long as it is needed.   *)

\* A child that has begun stays so when its completion goes on.
LEMMA BegunKept ==
    ASSUME Stacks, NEW t \in Threads, NEW N, Changes(t, N), NEW x \in Children, Begun(x),
           owner[x] # None => owner'[x] # None, sent[x] # None => sent'[x] # None,
           stack[t] # <<>> /\ Top(t) \in ChainFrames(x)
             => owner'[x] # None \/ sent'[x] # None \/ \E f \in N : f \in ChainFrames(x)
    PROVE  Begun(x)'
<1>1. CASE owner[x] # None \/ sent[x] # None
  BY <1>1 DEF Begun
<1>2. CASE Occurs(ChainFrames(x)) /\ (stack[t] # <<>> => Top(t) \notin ChainFrames(x))
  BY <1>2, OccursStays DEF Begun
<1>3. CASE \E f \in N : f \in ChainFrames(x)
  BY <1>3, OccursComes DEF Begun
<1> QED
  BY <1>1, <1>2, <1>3 DEF Begun

\* A step outside of the completions, or about another child.
LEMMA BegunAway ==
    ASSUME Stacks, NEW t \in Threads, NEW N, Changes(t, N), NEW x \in Children, Begun(x),
           owner'[x] = owner[x], sent'[x] = sent[x],
           stack[t] # <<>> => Top(t).at \notin ChainPoints \/ Top(t).of # x
    PROVE  Begun(x)'
<1>1. stack[t] # <<>> => Top(t) \notin ChainFrames(x)
  BY DEF ChainFrames, FramesAt
<1> QED
  BY <1>1, BegunKept

\* The completion of a child goes on, ends, or is handed over.
LEMMA BegunGoes ==
    ASSUME Stacks, NEW t \in Threads, NEW c \in Children, NEW p, Top1(t, p, c), NEW N, Changes(t, N),
           NEW x \in Children, Begun(x), x # c => owner'[x] = owner[x] /\ sent'[x] = sent[x],
           owner[c] # None => owner'[c] # None, sent[c] # None => sent'[c] # None,
           \/ owner'[c] # None \/ sent'[c] # None
           \/ \E q \in ChainPoints \intersect Points : Frame(q, c) \in N
    PROVE  Begun(x)'
<1>1. stack[t] # <<>> /\ Top(t).of = c
  BY DEF Top1, Frame
<1>2. CASE x # c
  BY <1>1, <1>2, BegunAway
<1>3. CASE x = c
  <2>1. \A q \in ChainPoints \intersect Points : Frame(q, c) \in ChainFrames(c)
    BY FrameIn, Constants DEF ChainFrames
  <2> QED
    BY <1>3, <2>1, BegunKept
<1> QED
  BY <1>2, <1>3

\* A step of the operation.
LEMMA BegunClient ==
    ASSUME TypeOK, Nested, Chain, NEW t \in Threads, ClientEvent(t), NEW x \in Children, Begun(x)
    PROVE  Begun(x)'
<1>0. Stacks /\ owner \in [Children -> Threads \union {None, "undecided"}]
      /\ sent \in [Children -> {None, "set_value", "set_error", "set_stopped"}]
  BY DEF TypeOK, Stacks
<1>a. /\ \A p \in ChildPoints : p \in ChainPoints \intersect Points
      /\ {"start_child", "hand_off"} \subseteq ChainPoints \intersect Points
      /\ "started" \notin ChainPoints /\ "check" \notin ChainPoints /\ "start" \notin ChainPoints
      /\ "abandon" \notin ChainPoints /\ "callback" \notin ChainPoints
      /\ {"finish_child", "complete_child", "emplace", "arrive", "deliver", "set_error"} \subseteq ChildPoints
      /\ Signals \subseteq ChildPoints
  BY DEF ChainPoints, ChildPoints, Points, StartPoints, Signals
<1>b. t # None /\ "undecided" # None
  BY Constants
<1>q. ASSUME NEW p, p \notin ChainPoints, NEW y, Top1(t, p, y), NEW N, Changes(t, N),
             owner' = owner, sent' = sent
      PROVE  Begun(x)'
  <2>1. stack[t] # <<>> /\ Top(t).at = p
    BY <1>q DEF Top1, Frame
  <2> QED
    BY <1>0, <1>q, <2>1, BegunAway
<1>1. ASSUME StartStoppable(t) PROVE Begun(x)'
  BY <1>a, <1>q, <1>1 DEF StartStoppable, SameOperation, SameChild, SameHistory
<1>2. ASSUME StartNever(t) PROVE Begun(x)'
  BY <1>a, <1>q, <1>2 DEF StartNever, SameOperation, SameChild, SameHistory
<1>3. ASSUME CheckStops(t) PROVE Begun(x)'
  BY <1>a, <1>q, <1>3 DEF CheckStops, SameOperation, SameChild, SameHistory
<1>4. ASSUME CheckGoes(t) PROVE Begun(x)'
  BY <1>a, <1>q, <1>4 DEF CheckGoes, SameOperation, SameChild, SameHistory
<1>5. ASSUME Abandons(t) PROVE Begun(x)'
  BY <1>a, <1>q, <1>5 DEF Abandons, SameOperation, SameChild, SameHistory
<1>6. ASSUME CallbackForwards(t) PROVE Begun(x)'
  BY <1>a, <1>q, <1>6 DEF CallbackForwards, SameOperation, SameChild, SameHistory
<1>7. ASSUME NEW c \in Children, NextEnds(t, c) PROVE Begun(x)'
  BY <1>a, <1>q, <1>7 DEF NextEnds, SameOperation, SameChild, SameHistory
<1>8. ASSUME NEW c \in Children, CallbackNotes(t, c) PROVE Begun(x)'
  BY <1>a, <1>q, <1>8 DEF CallbackNotes, SameOperation, SameChild, SameHistory
<1>9. ASSUME NEW c \in Children, NEW i \in DOMAIN ChildOrder, NextStarts(t, c, i) PROVE Begun(x)'
  BY <1>a, <1>q, <1>9 DEF NextStarts, SameOperation, SameChild, SameHistory
<1>10. ASSUME NEW c \in Children, NEW signal \in Signals, StartInline(t, c, signal) PROVE Begun(x)'
  <2>1. Top1(t, "start_child", c) /\ Changes(t, {Frame("started", c), Frame(signal, c)})
    BY <1>10 DEF StartInline
  <2>2. /\ x # c => owner'[x] = owner[x] /\ sent'[x] = sent[x]
        /\ owner[c] # None => owner'[c] # None
        /\ sent[c] # None => sent'[c] # None
    BY <1>0, <1>b, <1>10, Constants DEF StartInline, SameOperation, SameChild, SameHistory
  <2>3. \E p \in ChainPoints \intersect Points : Frame(p, c) \in {Frame("started", c), Frame(signal, c)}
    BY <1>a
  <2> QED
    BY <1>0, <2>1, <2>2, <2>3, BegunGoes
<1>11. ASSUME NEW c \in Children, StartAsync(t, c) PROVE Begun(x)'
  <2>1. Top1(t, "start_child", c) /\ Changes(t, {Frame("hand_off", c), Frame("add", c)})
    BY <1>11 DEF StartAsync
  <2>2. /\ x # c => owner'[x] = owner[x] /\ sent'[x] = sent[x]
        /\ owner[c] # None => owner'[c] # None
        /\ sent[c] # None => sent'[c] # None
    BY <1>0, <1>b, <1>11, Constants DEF StartAsync, SameOperation, SameChild, SameHistory
  <2>3. \E p \in ChainPoints \intersect Points : Frame(p, c) \in {Frame("hand_off", c), Frame("add", c)}
    BY <1>a
  <2> QED
    BY <1>0, <2>1, <2>2, <2>3, BegunGoes
<1>12. ASSUME NEW c \in Children, HandEager(t, c) PROVE Begun(x)'
  <2>1. Top1(t, "hand_off", c) /\ Changes(t, {Frame("started", c), Frame("finish_child", c)})
    BY <1>12 DEF HandEager
  <2>2. /\ x # c => owner'[x] = owner[x] /\ sent'[x] = sent[x]
        /\ owner[c] # None => owner'[c] # None
        /\ sent[c] # None => sent'[c] # None
    BY <1>0, <1>b, <1>12, Constants DEF HandEager, SameOperation, SameChild, SameHistory
  <2>3. \E p \in ChainPoints \intersect Points : Frame(p, c) \in {Frame("started", c), Frame("finish_child", c)}
    BY <1>a
  <2> QED
    BY <1>0, <2>1, <2>2, <2>3, BegunGoes
<1>13. ASSUME NEW c \in Children, HandOver(t, c) PROVE Begun(x)'
  <2>1. Top1(t, "hand_off", c) /\ Changes(t, {Frame("started", c)})
    BY <1>13 DEF HandOver
  <2>2. /\ x # c => owner'[x] = owner[x] /\ sent'[x] = sent[x]
        /\ owner[c] # None => owner'[c] # None
        /\ sent[c] # None => sent'[c] # None
    BY <1>0, <1>b, <1>13, Constants DEF HandOver, SameOperation, SameChild, SameHistory
  <2>3. owner'[c] # None
    BY <1>0, <1>b, <1>13 DEF HandOver
  <2> QED
    BY <1>0, <2>1, <2>2, <2>3, BegunGoes
<1>14. ASSUME NEW c \in Children, CallbackFinishes(t, c) PROVE Begun(x)'
  <2>1. Top1(t, "callback", c) /\ Changes(t, {Frame("finish_child", c)})
    BY <1>14 DEF CallbackFinishes
  <2>2. /\ x # c => owner'[x] = owner[x] /\ sent'[x] = sent[x]
        /\ owner[c] # None => owner'[c] # None
        /\ sent[c] # None => sent'[c] # None
    BY <1>0, <1>b, <1>14, Constants DEF CallbackFinishes, SameOperation, SameChild, SameHistory
  <2>3. \E p \in ChainPoints \intersect Points : Frame(p, c) \in {Frame("finish_child", c)}
    BY <1>a
  <2> QED
    BY <1>0, <2>1, <2>2, <2>3, BegunGoes
<1>15. ASSUME NEW c \in Children, Finishes(t, c) PROVE Begun(x)'
  <2>1. Top1(t, "finish_child", c) /\ Changes(t, {Frame("complete_child", c), Frame("remove", c)})
    BY <1>15 DEF Finishes
  <2>2. /\ x # c => owner'[x] = owner[x] /\ sent'[x] = sent[x]
        /\ owner[c] # None => owner'[c] # None
        /\ sent[c] # None => sent'[c] # None
    BY <1>0, <1>b, <1>15, Constants DEF Finishes, SameOperation, SameChild, SameHistory
  <2>3. \E p \in ChainPoints \intersect Points : Frame(p, c) \in {Frame("complete_child", c), Frame("remove", c)}
    BY <1>a
  <2> QED
    BY <1>0, <2>1, <2>2, <2>3, BegunGoes
<1>16. ASSUME NEW c \in Children, NEW signal \in Signals, CompletesChild(t, c, signal) PROVE Begun(x)'
  <2>1. Top1(t, "complete_child", c) /\ Changes(t, {Frame(signal, c)})
    BY <1>16 DEF CompletesChild
  <2>2. /\ x # c => owner'[x] = owner[x] /\ sent'[x] = sent[x]
        /\ owner[c] # None => owner'[c] # None
        /\ sent[c] # None => sent'[c] # None
    BY <1>0, <1>b, <1>16, Constants DEF CompletesChild, SameOperation, SameChild, SameHistory
  <2>3. \E p \in ChainPoints \intersect Points : Frame(p, c) \in {Frame(signal, c)}
    BY <1>a
  <2> QED
    BY <1>0, <2>1, <2>2, <2>3, BegunGoes
<1>17. ASSUME NEW c \in Children, SetsValue(t, c) PROVE Begun(x)'
  <2>1. Top1(t, "set_value", c) /\ Changes(t, {Frame("arrive", c)})
    BY <1>17 DEF SetsValue
  <2>2. /\ x # c => owner'[x] = owner[x] /\ sent'[x] = sent[x]
        /\ owner[c] # None => owner'[c] # None
        /\ sent[c] # None => sent'[c] # None
    BY <1>0, <1>b, <1>17, Constants DEF SetsValue, SameOperation, SameChild, SameHistory
  <2>3. \E p \in ChainPoints \intersect Points : Frame(p, c) \in {Frame("arrive", c)}
    BY <1>a
  <2> QED
    BY <1>0, <2>1, <2>2, <2>3, BegunGoes
<1>18. ASSUME NEW c \in Children, ValueThrows(t, c) PROVE Begun(x)'
  <2>1. Top1(t, "set_value", c) /\ Changes(t, {Frame("set_error", c)})
    BY <1>18 DEF ValueThrows
  <2>2. /\ x # c => owner'[x] = owner[x] /\ sent'[x] = sent[x]
        /\ owner[c] # None => owner'[c] # None
        /\ sent[c] # None => sent'[c] # None
    BY <1>0, <1>b, <1>18, Constants DEF ValueThrows, SameOperation, SameChild, SameHistory
  <2>3. \E p \in ChainPoints \intersect Points : Frame(p, c) \in {Frame("set_error", c)}
    BY <1>a
  <2> QED
    BY <1>0, <2>1, <2>2, <2>3, BegunGoes
<1>19. ASSUME NEW c \in Children, ErrorLate(t, c) PROVE Begun(x)'
  <2>1. Top1(t, "set_error", c) /\ Changes(t, {Frame("arrive", c)})
    BY <1>19 DEF ErrorLate
  <2>2. /\ x # c => owner'[x] = owner[x] /\ sent'[x] = sent[x]
        /\ owner[c] # None => owner'[c] # None
        /\ sent[c] # None => sent'[c] # None
    BY <1>0, <1>b, <1>19, Constants DEF ErrorLate, SameOperation, SameChild, SameHistory
  <2>3. \E p \in ChainPoints \intersect Points : Frame(p, c) \in {Frame("arrive", c)}
    BY <1>a
  <2> QED
    BY <1>0, <2>1, <2>2, <2>3, BegunGoes
<1>20. ASSUME NEW c \in Children, ErrorFirst(t, c) PROVE Begun(x)'
  <2>1. Top1(t, "set_error", c) /\ Changes(t, {Frame("emplace", c), Frame("request_stop", Inner)})
    BY <1>20 DEF ErrorFirst
  <2>2. /\ x # c => owner'[x] = owner[x] /\ sent'[x] = sent[x]
        /\ owner[c] # None => owner'[c] # None
        /\ sent[c] # None => sent'[c] # None
    BY <1>0, <1>b, <1>20, Constants DEF ErrorFirst, SameOperation, SameChild, SameHistory
  <2>3. \E p \in ChainPoints \intersect Points : Frame(p, c) \in {Frame("emplace", c), Frame("request_stop", Inner)}
    BY <1>a
  <2> QED
    BY <1>0, <2>1, <2>2, <2>3, BegunGoes
<1>21. ASSUME NEW c \in Children, Emplaces(t, c) PROVE Begun(x)'
  <2>1. Top1(t, "emplace", c) /\ Changes(t, {Frame("arrive", c)})
    BY <1>21 DEF Emplaces
  <2>2. /\ x # c => owner'[x] = owner[x] /\ sent'[x] = sent[x]
        /\ owner[c] # None => owner'[c] # None
        /\ sent[c] # None => sent'[c] # None
    BY <1>0, <1>b, <1>21, Constants DEF Emplaces, SameOperation, SameChild, SameHistory
  <2>3. \E p \in ChainPoints \intersect Points : Frame(p, c) \in {Frame("arrive", c)}
    BY <1>a
  <2> QED
    BY <1>0, <2>1, <2>2, <2>3, BegunGoes
<1>22. ASSUME NEW c \in Children, StoppedFirst(t, c) PROVE Begun(x)'
  <2>1. Top1(t, "set_stopped", c) /\ Changes(t, {Frame("arrive", c), Frame("request_stop", Inner)})
    BY <1>22 DEF StoppedFirst
  <2>2. /\ x # c => owner'[x] = owner[x] /\ sent'[x] = sent[x]
        /\ owner[c] # None => owner'[c] # None
        /\ sent[c] # None => sent'[c] # None
    BY <1>0, <1>b, <1>22, Constants DEF StoppedFirst, SameOperation, SameChild, SameHistory
  <2>3. \E p \in ChainPoints \intersect Points : Frame(p, c) \in {Frame("arrive", c), Frame("request_stop", Inner)}
    BY <1>a
  <2> QED
    BY <1>0, <2>1, <2>2, <2>3, BegunGoes
<1>23. ASSUME NEW c \in Children, StoppedLate(t, c) PROVE Begun(x)'
  <2>1. Top1(t, "set_stopped", c) /\ Changes(t, {Frame("arrive", c)})
    BY <1>23 DEF StoppedLate
  <2>2. /\ x # c => owner'[x] = owner[x] /\ sent'[x] = sent[x]
        /\ owner[c] # None => owner'[c] # None
        /\ sent[c] # None => sent'[c] # None
    BY <1>0, <1>b, <1>23, Constants DEF StoppedLate, SameOperation, SameChild, SameHistory
  <2>3. \E p \in ChainPoints \intersect Points : Frame(p, c) \in {Frame("arrive", c)}
    BY <1>a
  <2> QED
    BY <1>0, <2>1, <2>2, <2>3, BegunGoes
<1>24. ASSUME NEW c \in Children, ArrivesEarly(t, c) PROVE Begun(x)'
  <2>1. Top1(t, "arrive", c) /\ Changes(t, {})
    BY <1>24 DEF ArrivesEarly
  <2>2. /\ x # c => owner'[x] = owner[x] /\ sent'[x] = sent[x]
        /\ owner[c] # None => owner'[c] # None
        /\ sent[c] # None => sent'[c] # None
    BY <1>0, <1>b, <1>24, Constants DEF ArrivesEarly, SameOperation, SameChild, SameHistory
  <2>3. sent'[c] # None
    <3>1. sent[c] # None
      BY <1>0, <1>a, <2>1, ChainTopIn
    <3> QED
      BY <2>2, <3>1
  <2> QED
    BY <1>0, <2>1, <2>2, <2>3, BegunGoes
<1>25. ASSUME NEW c \in Children, ArrivesLastStoppable(t, c) PROVE Begun(x)'
  <2>1. Top1(t, "arrive", c) /\ Changes(t, {Frame("deliver", c), Frame("remove", OnStop)})
    BY <1>25 DEF ArrivesLastStoppable
  <2>2. /\ x # c => owner'[x] = owner[x] /\ sent'[x] = sent[x]
        /\ owner[c] # None => owner'[c] # None
        /\ sent[c] # None => sent'[c] # None
    BY <1>0, <1>b, <1>25, Constants DEF ArrivesLastStoppable, SameOperation, SameChild, SameHistory
  <2>3. \E p \in ChainPoints \intersect Points : Frame(p, c) \in {Frame("deliver", c), Frame("remove", OnStop)}
    BY <1>a
  <2> QED
    BY <1>0, <2>1, <2>2, <2>3, BegunGoes
<1>26. ASSUME NEW c \in Children, ArrivesLast(t, c) PROVE Begun(x)'
  <2>1. Top1(t, "arrive", c) /\ Changes(t, {Frame("deliver", c)})
    BY <1>26 DEF ArrivesLast
  <2>2. /\ x # c => owner'[x] = owner[x] /\ sent'[x] = sent[x]
        /\ owner[c] # None => owner'[c] # None
        /\ sent[c] # None => sent'[c] # None
    BY <1>0, <1>b, <1>26, Constants DEF ArrivesLast, SameOperation, SameChild, SameHistory
  <2>3. \E p \in ChainPoints \intersect Points : Frame(p, c) \in {Frame("deliver", c)}
    BY <1>a
  <2> QED
    BY <1>0, <2>1, <2>2, <2>3, BegunGoes
<1>27. ASSUME NEW c \in Children, Delivers(t, c) PROVE Begun(x)'
  <2>1. Top1(t, "deliver", c) /\ Changes(t, {})
    BY <1>27 DEF Delivers
  <2>2. /\ x # c => owner'[x] = owner[x] /\ sent'[x] = sent[x]
        /\ owner[c] # None => owner'[c] # None
        /\ sent[c] # None => sent'[c] # None
    BY <1>0, <1>b, <1>27, Constants DEF Delivers, SameOperation, SameChild, SameHistory
  <2>3. sent'[c] # None
    <3>1. sent[c] # None
      BY <1>0, <1>a, <2>1, ChainTopIn
    <3> QED
      BY <2>2, <3>1
  <2> QED
    BY <1>0, <2>1, <2>2, <2>3, BegunGoes
<1> HIDE DEF Begun
<1> QED
  BY <1>1, <1>2, <1>3, <1>4, <1>5, <1>6, <1>7, <1>8, <1>9, <1>10, <1>11, <1>12, <1>13, <1>14, <1>15, <1>16, <1>17, <1>18, <1>19, <1>20, <1>21, <1>22, <1>23, <1>24, <1>25, <1>26, <1>27 DEF ClientEvent

\* What has begun stays begun.
LEMMA BegunStays ==
    ASSUME TypeOK, Nested, Chain, [Next]_vars, NEW x \in Children, Begun(x)
    PROVE  Begun(x)'
<1>0. Stacks /\ owner \in [Children -> Threads \union {None, "undecided"}]
  BY DEF TypeOK, Stacks
<1>1. ASSUME NEW t \in Threads, StopEvent(t), SameOperation PROVE Begun(x)'
  <2>1. PICK N : Changes(t, N)
    BY <1>1, StopShape DEF Within
  <2>2. stack[t] # <<>> /\ Top(t).at \notin ChainPoints
    BY <1>1, StopShape DEF Within, StopOnly, ChainPoints, ChildPoints
  <2> QED
    BY <1>0, <1>1, <2>1, <2>2, BegunAway DEF SameOperation
<1>2. ASSUME Asks PROVE Begun(x)'
  <2>1. Changes(Stopper, {Frame("request_stop", Outer)}) /\ Stopper \in Threads /\ stack[Stopper] = <<>>
        /\ owner' = owner /\ sent' = sent
    BY <1>2, Constants DEF Asks, SameChild, SameHistory
  <2> QED
    BY <1>0, <2>1, BegunAway
<1>3. ASSUME NEW c \in Children, Works(c) PROVE Begun(x)'
  <2>1. Changes(c, {Frame("finish_child", c)}) /\ c \in Threads /\ stack[c] = <<>> /\ sent' = sent
    BY <1>3, Constants DEF Works, SameHistory
  <2>2. owner[x] # None => owner'[x] # None
    BY <1>0, <1>3, <2>1, Constants DEF Works
  <2> QED
    BY <1>0, <2>1, <2>2, BegunKept
<1>4. ASSUME Stutter PROVE Begun(x)'
  <2>1. owner' = owner /\ sent' = sent /\ (Occurs(ChainFrames(x))' <=> Occurs(ChainFrames(x)))
    BY <1>4, StackUnchanged DEF Stutter, SameOperation
  <2> QED
    BY <2>1 DEF Begun
<1> HIDE DEF Begun
<1> QED
  BY <1>1, <1>2, <1>3, <1>4, BegunClient, NextEvents

\* Before any child has begun all of them have yet to arrive.
LEMMA NoneArrived ==
    ASSUME Counted, \A c \in Children : ~Begun(c)
    PROVE  count # 0 /\ \A c \in Children : sent[c] = None
<1>1. \A c \in Children : sent[c] = None
  BY DEF Begun
<1>2. PendingChildren = Children
  BY <1>1 DEF PendingChildren, Pending
<1>3. Cardinality(Children) = Len(ChildOrder) /\ Len(ChildOrder) \in Nat \ {0}
  BY ChildrenCounted, ChildOrderSound
<1> QED
  BY <1>1, <1>2, <1>3 DEF Counted, PendingChildren

\* When start() finds the stop requested, __on_stop_ has been constructed
\* and is alive.
LEMMA AliveAtCheck ==
    ASSUME TypeOK, Nested, Chain, StartOrder, Counted, OnStopSound, OperationSound,
           NEW t \in Threads, Top1(t, "check", OnStop), src[Inner].requested
    PROVE  stoppable /\ cb[OnStop].life = "alive"
<1>0. Stacks /\ cb[OnStop].life \in {"unborn", "alive", "dead"} /\ state \in {"started", "error", "stopped"}
      /\ errors \in Children \union {None}
  BY Constants DEF TypeOK, Stacks
<1>1. Len(stack[t]) \in DOMAIN stack[t] /\ stack[t][Len(stack[t])].at = "check"
  BY <1>0, StackShape DEF Top1, Top, Stacks, Frame
<1>2. /\ result = <<>> /\ \A c \in Children : ~Begun(c)
      /\ \A v \in Threads : \A k \in DOMAIN stack[v] :
           /\ stack[v][k].at \notin ChainPoints
           /\ stack[v][k].at \in {"start", "check", "abandon"} => v = t /\ k = Len(stack[t])
  BY <1>0, <1>1, BeforeBegun
<1>3. count # 0 /\ \A c \in Children : sent[c] = None
  BY <1>2, NoneArrived
<1>4. ~Occurs(FramesAt({"emplace"}, Children)) /\ ~Occurs(FramesAt({"start"}, {OnStop}))
      /\ ~Occurs(FramesAt({"abandon"}, {OnStop}))
  <2>1. "emplace" \in ChainPoints
    BY DEF ChainPoints, ChildPoints
  <2> QED
    BY <1>1, <1>2, <2>1 DEF Occurs, FramesAt
<1>5. state = "started"
  BY <1>0, <1>3, <1>4, Constants DEF OperationSound
<1>6. stoppable
  BY <1>5 DEF OperationSound
<1> QED
  BY <1>0, <1>2, <1>3, <1>4, <1>6 DEF OnStopSound

\* When the last child arrives, __on_stop_ is alive.
LEMMA AliveAtArrival ==
    ASSUME TypeOK, Nested, Chain, StartOrder, Counted, EndSound, OnStopSound, stoppable,
           NEW t \in Threads, NEW c \in Children, Top1(t, "arrive", c)
    PROVE  cb[OnStop].life = "alive"
<1>0. Stacks /\ cb[OnStop].life \in {"unborn", "alive", "dead"} /\ "arrive" \in ChainPoints
  BY Constants DEF TypeOK, Stacks, ChainPoints, ChildPoints
<1>1. Len(stack[t]) \in DOMAIN stack[t] /\ stack[t][Len(stack[t])].at = "arrive"
  BY <1>0, StackShape DEF Top1, Top, Stacks, Frame
<1>2. result = <<>> /\ count # 0
  BY ArrivingOpen
<1>3. \A v \in Threads : \A k \in DOMAIN stack[v] : stack[v][k].at \notin {"start", "check", "abandon"}
  BY <1>0, <1>1, BeforeBegun
<1>4. ~Occurs(FramesAt({"start"}, {OnStop})) /\ ~Occurs(FramesAt({"abandon"}, {OnStop}))
  BY <1>3 DEF Occurs, FramesAt
<1> QED
  BY <1>0, <1>2, <1>4 DEF OnStopSound
-----------------------------------------------------------------------------
(* What the calls of a callback's life know of it.                          *)

BusyPoints == {"add", "link", "run", "ran"}
BusyFrames(c) == FramesAt(BusyPoints, {c})
FramesSound == \A t \in Threads : \A i \in DOMAIN stack[t] : CallbackFrameSound(stack[t][i])
BusyOnce == \A c \in Callbacks : Once(BusyFrames(c))
RecordSound(c) ==
    /\ cb[c].linked => cb[c].attached /\ ~cb[c].completed
    /\ cb[c].life = "unborn" => cb[c] = Unborn
LifeSound(c) ==
    /\ ~Begun(c) => cb[c] = Unborn
    /\ owner[c] = "undecided" => cb[c].life = "alive"

\* The invariant, part by part.
LEMMA CallbacksParts ==
    /\ CallbacksSound <=> /\ FramesSound /\ BusyOnce /\ \A c \in Callbacks : RecordSound(c)
                          /\ \A c \in Children : LifeSound(c)
    /\ CallbacksSound' <=> /\ FramesSound' /\ BusyOnce' /\ \A c \in Callbacks : RecordSound(c)'
                           /\ \A c \in Children : LifeSound(c)'
  BY DEF CallbacksSound, FramesSound, BusyOnce, BusyFrames, BusyPoints, RecordSound, LifeSound

\* The points whose frames know of a callback, and those whose frames do not.
AboutPoints == ConstructorPoints \union DestructorPoints
               \union {"run", "ran", "start", "start_child", "hand_off", "finish_child"}
PlainPoints == {"check", "abandon", "started", "complete_child", "set_value", "set_error",
                "set_stopped", "emplace", "arrive", "deliver", "request_stop", "notify"}

\* Frame f is there and is not the innermost one of thread t.
Stays(t, f) ==
    \E u \in Threads : \E i \in DOMAIN stack[u] : f = stack[u][i] /\ (u = t => i # Len(stack[t]))

\* Frames that know of no callback.
LEMMA PlainSound ==
    ASSUME NEW f, f.at \in PlainPoints
    PROVE  CallbackFrameSound(f) /\ CallbackFrameSound(f)'
  BY DEF PlainPoints, CallbackFrameSound, ConstructorPoints, DestructorPoints

\* A step keeps what the frames know when its new frames and the ones that
\* stay are right.
LEMMA FramesKept ==
    ASSUME Stacks, NEW t \in Threads, NEW N, Changes(t, N),
           \A f \in N : CallbackFrameSound(f)', \A f : Stays(t, f) => CallbackFrameSound(f)'
    PROVE  FramesSound'
<1> SUFFICES ASSUME NEW u \in Threads, NEW i \in DOMAIN stack'[u], NEW f, f = stack'[u][i]
             PROVE  CallbackFrameSound(f)'
  BY DEF FramesSound
<1>1. \/ i \in DOMAIN stack[u] /\ stack'[u][i] = stack[u][i] /\ (u = t => i # Len(stack[t]))
      \/ u = t /\ stack'[u][i] \in N
  BY ChangesFrames
<1> QED
  BY <1>1 DEF Stays

\* A frame stays right while its callback stays as it is.
LEMMA SoundSame ==
    ASSUME NEW f, CallbackFrameSound(f), stoppable' = stoppable,
           f.at \in AboutPoints => cb'[f.of] = cb[f.of], f.at = "start" => f.of = OnStop,
           f.at = "ran" /\ src[SourceOf[f.of]].removed => src'[SourceOf[f.of]].removed
    PROVE  CallbackFrameSound(f)'
<1>1. CASE f.at \in AboutPoints
  <2>1. f.at = "start" => cb'[OnStop] = cb[OnStop]
    BY <1>1
  <2> QED
    BY <1>1, <2>1 DEF CallbackFrameSound
<1>2. CASE f.at \notin AboutPoints
  BY <1>2 DEF CallbackFrameSound, AboutPoints, ConstructorPoints, DestructorPoints
<1> QED
  BY <1>1, <1>2

\* What is known of a frame that stays.
LEMMA StayingFrame ==
    ASSUME Stacks, Nested, FramesSound, NEW t \in Threads, NEW f, Stays(t, f)
    PROVE  /\ CallbackFrameSound(f) /\ f \in Frames
           /\ f.at \in AboutPoints => f.of \in Callbacks
           /\ f.at = "start" => f.of = OnStop
<1>a. PICK u \in Threads : \E i \in DOMAIN stack[u] : f = stack[u][i] /\ (u = t => i # Len(stack[t]))
  BY DEF Stays
<1>b. PICK i \in DOMAIN stack[u] : f = stack[u][i] /\ (u = t => i # Len(stack[t]))
  BY <1>a
<1>1. Known(u, i, f) /\ CallbackFrameSound(f) /\ f \in Frames
  BY <1>b, FrameKinds, StackShape DEF FramesSound, Stacks
<1>2. \A c \in Children : c \in Callbacks
  BY Constants
<1>3. f.at \in AboutPoints =>
        \/ f.at \in ConstructorPoints \union DestructorPoints \union {"run", "ran"}
        \/ f.at \in {"start"} \/ f.at \in {"start_child", "hand_off", "finish_child"}
  BY DEF AboutPoints
<1>4. {"start_child", "hand_off", "finish_child"} \subseteq ChainPoints
  BY DEF ChainPoints, ChildPoints
<1>5. f.at \in AboutPoints => f.of \in Callbacks
  <2>1. CASE f.at \in ConstructorPoints \union DestructorPoints \union {"run", "ran"}
    BY <1>1, <2>1 DEF Known
  <2>2. CASE f.at = "start"
    BY <1>1, <2>2, Constants DEF Known
  <2>3. CASE f.at \in {"start_child", "hand_off", "finish_child"}
    BY <1>1, <1>2, <1>4, <2>3 DEF Known
  <2> QED
    BY <1>3, <2>1, <2>2, <2>3
<1>6. f.at = "start" => f.of = OnStop
  BY <1>1 DEF Known
<1> QED
  BY <1>1, <1>5, <1>6

\* A step that changes one callback: only the frames about it matter.
LEMMA FramesAbout ==
    ASSUME Stacks, Nested, FramesSound, NEW t \in Threads, NEW N, Changes(t, N),
           NEW c \in Callbacks, OtherCallbacks(c), stoppable' = stoppable,
           \A f : Stays(t, f) /\ f.at = "ran" /\ src[SourceOf[f.of]].removed
                    => src'[SourceOf[f.of]].removed,
           \A f \in N : CallbackFrameSound(f)',
           \A f : Stays(t, f) /\ f.at \in AboutPoints /\ f.of = c => CallbackFrameSound(f)'
    PROVE  FramesSound'
<1>1. ASSUME NEW f, Stays(t, f), ~(f.at \in AboutPoints /\ f.of = c) PROVE CallbackFrameSound(f)'
  <2>1. /\ CallbackFrameSound(f) /\ (f.at \in AboutPoints => f.of \in Callbacks)
        /\ f.at = "start" => f.of = OnStop
    BY <1>1, StayingFrame
  <2>2. f.at \in AboutPoints => cb'[f.of] = cb[f.of]
    BY <1>1, <2>1 DEF OtherCallbacks
  <2> QED
    BY <1>1, <2>1, <2>2, SoundSame
<1>2. \A f : Stays(t, f) => CallbackFrameSound(f)'
  BY <1>1
<1> QED
  BY <1>2, FramesKept

\* A step that changes no callback.
LEMMA FramesPlain ==
    ASSUME Stacks, Nested, FramesSound, NEW t \in Threads, NEW N, Changes(t, N), cb' = cb,
           stoppable' = stoppable, \A s \in Sources : src'[s].removed = src[s].removed,
           \A f \in N : f.at \in PlainPoints \/ CallbackFrameSound(f)'
    PROVE  FramesSound'
<1>1. ASSUME NEW f, Stays(t, f) PROVE CallbackFrameSound(f)'
  <2>1. CallbackFrameSound(f) /\ (f.at = "start" => f.of = OnStop) /\ (f.at = "ran" => f.of \in Callbacks)
    BY <1>1, StayingFrame DEF AboutPoints
  <2>2. f.at = "ran" => src'[SourceOf[f.of]].removed = src[SourceOf[f.of]].removed
    BY <2>1, Constants
  <2> QED
    BY <2>1, <2>2, SoundSame
<1>2. \A f : Stays(t, f) => CallbackFrameSound(f)'
  BY <1>1
<1>3. \A f \in N : CallbackFrameSound(f)'
  BY PlainSound
<1> QED
  BY <1>2, <1>3, FramesKept

\* At most one call constructs a callback or runs it.
LEMMA BusyKept ==
    ASSUME Stacks, NEW t \in Threads, NEW N, Changes(t, N), BusyOnce,
           \A f \in N : f.at \notin BusyPoints
    PROVE  BusyOnce'
<1> SUFFICES ASSUME NEW c \in Callbacks PROVE Once(BusyFrames(c))'
  BY DEF BusyOnce
<1>1. \A f \in N : f \notin BusyFrames(c)
  BY DEF BusyFrames, FramesAt
<1>2. Once(BusyFrames(c))
  BY DEF BusyOnce
<1> QED
  BY <1>1, <1>2, OnceStays

\* It goes on, or begins.
LEMMA BusyMove ==
    ASSUME Stacks, NEW t \in Threads, NEW N, Changes(t, N), BusyOnce, NEW c \in Callbacks,
           \A f \in N : f.at \in BusyPoints => f.of = c,
           \A f, g \in N : f.at \in BusyPoints /\ g.at \in BusyPoints => f = g,
           ~Occurs(BusyFrames(c)) \/ (stack[t] # <<>> /\ Top(t) \in BusyFrames(c))
    PROVE  BusyOnce'
<1> SUFFICES ASSUME NEW x \in Callbacks PROVE Once(BusyFrames(x))'
  BY DEF BusyOnce
<1>1. \A f \in N : f \in BusyFrames(x) => x = c /\ f.at \in BusyPoints
  BY DEF BusyFrames, FramesAt
<1>2. Once(BusyFrames(x))
  BY DEF BusyOnce
<1>3. CASE x = c
  BY <1>1, <1>2, <1>3, OnceStays
<1>4. CASE x # c
  BY <1>1, <1>2, <1>4, OnceStays
<1> QED
  BY <1>3, <1>4

\* A busy innermost frame is the only one of its callback.
LEMMA BusyTop ==
    ASSUME Stacks, BusyOnce, NEW t \in Threads, NEW p \in BusyPoints, NEW c \in Callbacks, Top1(t, p, c)
    PROVE  /\ stack[t] # <<>> /\ Top(t) \in BusyFrames(c)
           /\ \A f : Stays(t, f) /\ f.of = c => f.at \notin BusyPoints
<1>1. stack[t] # <<>> /\ Top(t) = Frame(p, c) /\ Top(t).at = p /\ Top(t).of = c /\ Top(t) \in Frames
      /\ Len(stack[t]) \in DOMAIN stack[t] /\ stack[t][Len(stack[t])] = Top(t)
  BY StackShape DEF Top1, Top, Frame, Stacks
<1>2. Top(t) \in BusyFrames(c)
  BY <1>1 DEF BusyFrames, FramesAt
<1>3. ASSUME NEW f, Stays(t, f), f.of = c, f.at \in BusyPoints PROVE FALSE
  <2>a. PICK u \in Threads : \E i \in DOMAIN stack[u] : f = stack[u][i] /\ (u = t => i # Len(stack[t]))
    BY <1>3 DEF Stays
  <2>b. PICK i \in DOMAIN stack[u] : f = stack[u][i] /\ (u = t => i # Len(stack[t]))
    BY <2>a
  <2>1. stack[u][i] \in BusyFrames(c)
    BY <1>3, <2>b, StackShape DEF BusyFrames, FramesAt, Stacks
  <2>2. Once(BusyFrames(c))
    BY DEF BusyOnce
  <2> QED
    BY <1>1, <1>2, <2>b, <2>1, <2>2 DEF Once
<1> QED
  BY <1>1, <1>2, <1>3

\* A callback that is linked, or that does not exist yet, is not busy.
LEMMA NotBusy ==
    ASSUME Stacks, FramesSound, NEW c \in Callbacks, cb[c] = Unborn \/ cb[c].linked
    PROVE  ~Occurs(BusyFrames(c))
<1> SUFFICES ASSUME NEW u \in Threads, NEW i \in DOMAIN stack[u], stack[u][i] \in BusyFrames(c) PROVE FALSE
  BY DEF Occurs
<1>1. stack[u][i].at \in BusyPoints /\ stack[u][i].of = c
  BY DEF BusyFrames, FramesAt
<1>2. CallbackFrameSound(stack[u][i])
  BY DEF FramesSound
<1>3. stack[u][i].at \in {"run", "ran"} => cb[c].attached /\ ~cb[c].linked
  BY <1>1, <1>2 DEF CallbackFrameSound
<1>4. stack[u][i].at \in {"add", "link"} => cb[c] = Born
  BY <1>1, <1>2 DEF CallbackFrameSound, ConstructorPoints
<1>5. ~Unborn.attached /\ Born.attached /\ ~Born.linked
  BY DEF Born, Unborn
<1>6. stack[u][i].at \in {"run", "ran"} \/ stack[u][i].at \in {"add", "link"}
  BY <1>1 DEF BusyPoints
<1>7. CASE stack[u][i].at \in {"run", "ran"}
  BY <1>3, <1>5, <1>7
<1>8. CASE stack[u][i].at \in {"add", "link"}
  BY <1>4, <1>5, <1>8
<1> QED
  BY <1>6, <1>7, <1>8
-----------------------------------------------------------------------------
(* Steps of the sources keep what is known of the callbacks.                *)

\* The records of a callback before and just after its construction.
LEMMA BornFields ==
    /\ ~Unborn.attached /\ ~Unborn.linked /\ Unborn.life = "unborn"
    /\ Born.attached /\ ~Born.linked /\ ~Born.completed /\ Born.life = "alive" /\ ~Born.flagged
    /\ Born # Unborn
<1>1. /\ ~Unborn.attached /\ ~Unborn.linked /\ Unborn.life = "unborn"
      /\ Born.attached /\ ~Born.linked /\ ~Born.completed /\ Born.life = "alive" /\ ~Born.flagged
  BY DEF Born, Unborn
<1> QED
  BY <1>1

\* A step that changes one callback.
LEMMA OneCallback ==
    ASSUME TypeOK, Nested, CallbacksSound, NEW t \in Threads, NEW N, Changes(t, N),
           NEW c \in Callbacks, OtherCallbacks(c), SameOperation,
           \A x \in Children : Begun(x) => Begun(x)',
           \A f : Stays(t, f) /\ f.at = "ran" /\ src[SourceOf[f.of]].removed
                    => src'[SourceOf[f.of]].removed,
           \A f \in N : CallbackFrameSound(f)',
           \A f : Stays(t, f) /\ f.at \in AboutPoints /\ f.of = c => CallbackFrameSound(f)',
           cb[c] # Unborn \/ (c \in Children => Begun(c)'), RecordSound(c)', BusyOnce',
           c \in Children /\ cb'[c].life # "alive" => owner[c] # "undecided"
    PROVE  CallbacksSound'
<1>1. Stacks /\ FramesSound /\ stoppable' = stoppable /\ owner' = owner
      /\ (\A x \in Callbacks : RecordSound(x)) /\ \A x \in Children : LifeSound(x)
  BY CallbacksParts DEF TypeOK, Stacks, SameOperation
<1>2. FramesSound'
  BY <1>1, FramesAbout
<1>3. ASSUME NEW x \in Callbacks PROVE RecordSound(x)'
  BY <1>1, <1>3 DEF RecordSound, OtherCallbacks
<1>4. ASSUME NEW x \in Children PROVE LifeSound(x)'
  <2>1. x \in Callbacks
    BY Constants
  <2>2. CASE x # c
    BY <1>1, <2>1, <2>2 DEF LifeSound, OtherCallbacks
  <2>3. CASE x = c
    BY <1>1, <2>3 DEF LifeSound
  <2> QED
    BY <2>2, <2>3
<1> QED
  BY <1>2, <1>3, <1>4, CallbacksParts

\* A step that changes none.
LEMMA NoCallback ==
    ASSUME TypeOK, Nested, CallbacksSound, NEW t \in Threads, NEW N, Changes(t, N),
           cb' = cb, stoppable' = stoppable, \A s \in Sources : src'[s].removed = src[s].removed,
           \A x \in Children : Begun(x) => Begun(x)',
           \A x \in Children : owner'[x] = "undecided" => cb[x].life = "alive",
           \A f \in N : f.at \in PlainPoints \/ CallbackFrameSound(f)', BusyOnce'
    PROVE  CallbacksSound'
<1>1. Stacks /\ FramesSound
      /\ (\A x \in Callbacks : RecordSound(x)) /\ \A x \in Children : LifeSound(x)
  BY CallbacksParts DEF TypeOK, Stacks
<1>2. FramesSound'
  BY <1>1, FramesPlain
<1>3. ASSUME NEW x \in Callbacks PROVE RecordSound(x)'
  BY <1>1 DEF RecordSound
<1>4. ASSUME NEW x \in Children PROVE LifeSound(x)'
  BY <1>1 DEF LifeSound
<1> QED
  BY <1>2, <1>3, <1>4, CallbacksParts

\* What the innermost frame knows of its callback, and the type of that.
LEMMA TopCallback ==
    ASSUME TypeOK, CallbacksSound, NEW t \in Threads, NEW c \in Callbacks,
           NEW p \in ConstructorPoints \union DestructorPoints \union {"run", "ran", "relock", "callback"},
           Top1(t, p, c)
    PROVE  /\ Stacks /\ FramesSound /\ BusyOnce /\ RecordSound(c) /\ cb[c] \in CallbackRecords
           /\ c = OnStop => stoppable
           /\ p \in {"run", "ran"} => cb[c].attached /\ ~cb[c].linked /\ ~cb[c].completed
           /\ p = "run" => cb[c].life = "alive"
           /\ p = "ran" => /\ cb[c].flagged /\ cb[c].life # "unborn"
                           /\ cb[c].life = "dead" => src[SourceOf[c]].removed
           /\ p \in ConstructorPoints => cb[c] = Born
           /\ p \in DestructorPoints => cb[c].life = "alive"
           /\ p = "unlink" => cb[c].attached
           /\ p = "await" => cb[c].attached /\ ~cb[c].linked
<1>1. Stacks /\ FramesSound /\ BusyOnce /\ RecordSound(c) /\ cb[c] \in CallbackRecords
  BY CallbacksParts DEF TypeOK, Stacks, CallbackRecords
<1>2. CallbackFrameSound(Frame(p, c)) /\ Frame(p, c).at = p /\ Frame(p, c).of = c
  BY <1>1, TopSound DEF Frame
<1>3. /\ p \in {"run", "ran"} => cb[c].attached /\ ~cb[c].linked /\ ~cb[c].completed
      /\ p = "run" => cb[c].life = "alive"
      /\ p = "ran" => /\ cb[c].flagged /\ cb[c].life # "unborn"
                      /\ cb[c].life = "dead" => src[SourceOf[c]].removed
      /\ p \in ConstructorPoints => cb[c] = Born
      /\ p \in DestructorPoints => cb[c].life = "alive"
      /\ p = "unlink" => cb[c].attached
      /\ p = "await" => cb[c].attached /\ ~cb[c].linked
      /\ c = OnStop => stoppable
  BY <1>2 DEF CallbackFrameSound
<1> QED
  BY <1>1, <1>3

\* While a thread runs a callback, no other call of its source does.
LEMMA OneRunner ==
    ASSUME Stacks, Nested, Notifying, NEW t \in Threads, NEW s \in Sources, NEW c \in CallbacksOf(s),
           Top1(t, "run", c), NEW f, Stays(t, f), f.at = "ran", f.of \in Callbacks
    PROVE  SourceOf[f.of] # s
<1> SUFFICES ASSUME SourceOf[f.of] = s PROVE FALSE
  OBVIOUS
<1>a. PICK u \in Threads : \E i \in DOMAIN stack[u] : f = stack[u][i] /\ (u = t => i # Len(stack[t]))
  BY DEF Stays
<1>b. PICK i \in DOMAIN stack[u] : f = stack[u][i] /\ (u = t => i # Len(stack[t]))
  BY <1>a
<1>1. stack[u][i] \in NotifyFrames(s)
  BY <1>b, StackShape DEF NotifyFrames, FramesAt, CallbacksOf, Stacks
<1>2. Len(stack[t]) \in DOMAIN stack[t] /\ stack[t][Len(stack[t])] \in NotifyFrames(s)
  BY StackShape DEF NotifyFrames, FramesAt, Top1, Top, Frame, Stacks
<1>3. Once(NotifyFrames(s))
  BY DEF Notifying, Notified
<1> QED
  BY <1>b, <1>1, <1>2, <1>3 DEF Once

\* While a callback is constructed there is no call of its destructor.
LEMMA ConstructorAlone ==
    ASSUME Stacks, Nested, Chain, StartOrder, NEW t \in Threads, NEW c, NEW p \in ConstructorPoints,
           Top1(t, p, c), NEW f, Stays(t, f), f.of = c
    PROVE  f.at \notin DestructorPoints
<1>a. PICK u \in Threads : \E i \in DOMAIN stack[u] : f = stack[u][i] /\ (u = t => i # Len(stack[t]))
  BY DEF Stays
<1>b. PICK i \in DOMAIN stack[u] : f = stack[u][i] /\ (u = t => i # Len(stack[t]))
  BY <1>a
<1>1. Len(stack[t]) \in DOMAIN stack[t] /\ stack[t][Len(stack[t])].at = p /\ stack[t][Len(stack[t])].of = c
  BY StackShape DEF Top1, Top, Frame, Stacks
<1> QED
  BY <1>b, <1>1, DestructorAlone

\* While a callback is destroyed, only request_stop may be at it too.
LEMMA DestructorTop ==
    ASSUME Stacks, Nested, Chain, StartOrder, NEW t \in Threads, NEW c, NEW p \in DestructorPoints,
           Top1(t, p, c)
    PROVE  /\ \A f : Stays(t, f) /\ f.of = c /\ f.at \in AboutPoints => f.at \in {"run", "ran"}
           /\ c \in Children => owner[c] # "undecided"
<1>1. Len(stack[t]) \in DOMAIN stack[t] /\ stack[t][Len(stack[t])].at = p /\ stack[t][Len(stack[t])].of = c
  BY StackShape DEF Top1, Top, Frame, Stacks
<1>2. ASSUME NEW f, Stays(t, f), f.of = c, f.at \in AboutPoints PROVE f.at \in {"run", "ran"}
  <2>a. PICK u \in Threads : \E i \in DOMAIN stack[u] : f = stack[u][i] /\ (u = t => i # Len(stack[t]))
    BY <1>2 DEF Stays
  <2>b. PICK i \in DOMAIN stack[u] : f = stack[u][i] /\ (u = t => i # Len(stack[t]))
    BY <2>a
  <2>1. /\ f.at \in DestructorPoints => u = t /\ i = Len(stack[t])
        /\ f.at \notin ConstructorPoints \union {"start", "start_child", "hand_off", "finish_child"}
    BY <1>1, <1>2, <2>b, DestructorAlone
  <2> QED
    BY <1>2, <2>b, <2>1 DEF AboutPoints
<1>3. ASSUME c \in Children PROVE owner[c] # "undecided"
  <2>1. Len(stack[t]) - 1 \in DOMAIN stack[t] /\ stack[t][Len(stack[t]) - 1].at = "complete_child"
        /\ stack[t][Len(stack[t]) - 1].of = c
    <3> DEFINE g == stack[t][Len(stack[t])]
    <3>1. c # OnStop
      BY <1>3, Constants
    <3>2. g.at \in DestructorPoints /\ g.of = c
      BY <1>1
    <3>3. /\ Len(stack[t]) - 1 \in DOMAIN stack[t]
          /\ \/ /\ stack[t][Len(stack[t]) - 1].at = "complete_child"
                /\ stack[t][Len(stack[t]) - 1].of \in Children /\ g.of = stack[t][Len(stack[t]) - 1].of
             \/ stack[t][Len(stack[t]) - 1].at \in {"abandon", "deliver"} /\ g.of = OnStop
      <4> HIDE DEF g
      <4>1. g = stack[t][Len(stack[t])]
        BY DEF g
      <4> QED
        BY <1>1, <3>2, <4>1, DestructorParent
    <3> QED
      BY <3>1, <3>2, <3>3
  <2>2. ChainFrameSound(stack[t][Len(stack[t]) - 1]) /\ "complete_child" \in ChainPoints
    BY <2>1 DEF Chain, ChainPoints, ChildPoints
  <2> QED
    BY <2>1, <2>2 DEF ChainFrameSound
<1>4. \A f : Stays(t, f) /\ f.of = c /\ f.at \in AboutPoints => f.at \in {"run", "ran"}
  BY <1>2
<1> QED
  BY <1>3, <1>4
-----------------------------------------------------------------------------
\* What a step of a source may rely on.
StopSide ==
    /\ TypeOK /\ Nested /\ Chain /\ StartOrder /\ Notifying /\ Listed /\ CallbacksSound
    /\ SameOperation /\ \A x \in Children : Begun(x) => Begun(x)'

\* The run of a callback begins: it is taken out of the list.
LEMMA NotifyOneCallbacks ==
    ASSUME StopSide, NEW t \in Threads, NEW s \in Sources, NEW c \in CallbacksOf(s), NotifyOne(t, s, c)
    PROVE  CallbacksSound'
<1> DEFINE N == {Frame("run", c)}
<1>0. c \in Callbacks /\ Changes(t, N) /\ OtherCallbacks(c) /\ SourceOf[c] = s
      /\ OtherSources(s) /\ src'[s].removed = src[s].removed /\ cb'[c] = [cb[c] EXCEPT !.linked = FALSE]
  BY DEF NotifyOne, CallbacksOf
<1>1. Stacks /\ FramesSound /\ BusyOnce /\ RecordSound(c) /\ cb[c] \in CallbackRecords
      /\ stoppable' = stoppable
  BY <1>0, CallbacksParts DEF StopSide, TypeOK, Stacks, CallbackRecords, SameOperation
<1>2. cb[c].linked /\ cb[c].life # "dead"
  <2>1. src[s].callbacks \in Seq(CallbacksOf(s)) /\ src[s].callbacks # <<>> /\ c = Head(src[s].callbacks)
    BY DEF NotifyOne, StopSide, TypeOK
  <2>2. In(src[s].callbacks, c)
    BY <2>1, TailSound
  <2>3. ListedIn(s)
    BY ListedParts DEF StopSide
  <2> QED
    BY <2>2, <2>3 DEF ListedIn, Enlisted
<1>3. cb[c].attached /\ ~cb[c].completed /\ cb[c].life = "alive" /\ cb[c] # Unborn /\ cb[c] # Born
  BY <1>1, <1>2, BornFields DEF RecordSound, CallbackRecords
<1>4. /\ cb'[c].attached /\ ~cb'[c].linked /\ ~cb'[c].completed /\ cb'[c].life = "alive"
      /\ cb'[c].flagged = cb[c].flagged
  BY <1>0, <1>1, <1>3 DEF CallbackRecords
<1>5. c = OnStop => stoppable
  <2> SUFFICES ASSUME c = OnStop PROVE stoppable
    OBVIOUS
  <2>1. s = Outer /\ stack[t] # <<>> /\ Top(t) = Frame("notify", Outer)
    BY <1>0, Constants DEF NotifyOne, Top1
  <2>2. Known(t, Len(stack[t]), Top(t)) /\ RequestFrame(Top(t), Outer)
    BY <1>1, <2>1, TopKnown, RequestIs, Constants DEF StopSide
  <2>3. t = Stopper
    BY <2>2 DEF Known
  <2> QED
    BY <2>1, <2>3 DEF StopSide, Nested
<1>6. CallbackFrameSound(Frame("run", c))'
  BY <1>1, <1>4, <1>5 DEF CallbackFrameSound, Frame, ConstructorPoints, DestructorPoints
<1>7. ASSUME NEW f, Stays(t, f), f.at \in AboutPoints, f.of = c PROVE CallbackFrameSound(f)'
  <2>1. CallbackFrameSound(f) /\ (f.at = "start" => f.of = OnStop)
    BY <1>1, <1>7, StayingFrame DEF StopSide
  <2>2. f.at \notin {"run", "ran", "await", "start", "start_child"} /\ f.at \notin ConstructorPoints
    BY <1>2, <1>3, <1>7, <2>1 DEF CallbackFrameSound
  <2> QED
    BY <1>1, <1>4, <1>7, <2>1, <2>2 DEF CallbackFrameSound
<1>8. BusyOnce'
  <2>1. ~Occurs(BusyFrames(c))
    BY <1>0, <1>1, <1>2, NotBusy
  <2>2. \A f \in N : f.of = c
    BY DEF Frame
  <2>3. \A f, g \in N : f = g
    OBVIOUS
  <2> HIDE DEF N
  <2> QED
    BY <1>0, <1>1, <2>1, <2>2, <2>3, BusyMove
<1>9. \A f : Stays(t, f) /\ f.at = "ran" /\ src[SourceOf[f.of]].removed => src'[SourceOf[f.of]].removed
  <2>1. ASSUME NEW f, Stays(t, f), f.at = "ran", src[SourceOf[f.of]].removed PROVE src'[SourceOf[f.of]].removed
    <3>1. f.of \in Callbacks
      BY <1>1, <2>1, StayingFrame DEF StopSide, AboutPoints
    <3> QED
      BY <1>0, <2>1, <3>1, Constants DEF OtherSources
  <2> QED
    BY <2>1
<1>10. RecordSound(c)'
  BY <1>4 DEF RecordSound
<1>11. \A f : Stays(t, f) /\ f.at \in AboutPoints /\ f.of = c => CallbackFrameSound(f)'
  BY <1>7
<1>12. \A f \in N : CallbackFrameSound(f)'
  BY <1>6
<1> HIDE DEF N
<1> QED
  BY <1>0, <1>3, <1>4, <1>8, <1>9, <1>10, <1>11, <1>12, OneCallback DEF StopSide

\* The callback is executed.
LEMMA RunOneCallbacks ==
    ASSUME StopSide, NEW t \in Threads, NEW s \in Sources, NEW c \in CallbacksOf(s), RunOne(t, s, c)
    PROVE  CallbacksSound'
<1> DEFINE N == {Frame("ran", c), Frame("callback", c)}
<1>0. c \in Callbacks /\ Changes(t, N) /\ OtherCallbacks(c) /\ Top1(t, "run", c) /\ SourceOf[c] = s
      /\ OtherSources(s) /\ cb'[c] = [cb[c] EXCEPT !.flagged = TRUE] /\ stoppable' = stoppable
  BY DEF RunOne, CallbacksOf, StopSide, SameOperation
<1>1. /\ Stacks /\ FramesSound /\ BusyOnce /\ RecordSound(c) /\ cb[c] \in CallbackRecords
      /\ c = OnStop => stoppable
      /\ cb[c].attached /\ ~cb[c].linked /\ ~cb[c].completed /\ cb[c].life = "alive"
  BY <1>0, TopCallback DEF StopSide
<1>2. cb[c] # Unborn
  BY <1>1, BornFields
<1>4. /\ cb'[c].attached /\ ~cb'[c].linked /\ ~cb'[c].completed /\ cb'[c].life = "alive"
      /\ cb'[c].flagged
  BY <1>0, <1>1 DEF CallbackRecords
<1>6. CallbackFrameSound(Frame("ran", c))' /\ CallbackFrameSound(Frame("callback", c))'
  BY <1>0, <1>1, <1>4 DEF CallbackFrameSound, Frame, ConstructorPoints, DestructorPoints
<1>b. stack[t] # <<>> /\ Top(t) \in BusyFrames(c)
      /\ \A f : Stays(t, f) /\ f.of = c => f.at \notin BusyPoints
  BY <1>0, <1>1, BusyTop DEF BusyPoints
<1>7. ASSUME NEW f, Stays(t, f), f.at \in AboutPoints, f.of = c PROVE CallbackFrameSound(f)'
  <2>1. CallbackFrameSound(f) /\ (f.at = "start" => f.of = OnStop) /\ f.at \notin BusyPoints
    BY <1>1, <1>b, <1>7, StayingFrame DEF StopSide
  <2>2. f.at \notin {"run", "ran", "start", "start_child"} /\ f.at \notin ConstructorPoints
    BY <1>2, <1>7, <2>1 DEF CallbackFrameSound, BusyPoints, ConstructorPoints
  <2> QED
    BY <1>0, <1>1, <1>4, <1>7, <2>1, <2>2 DEF CallbackFrameSound
<1>8. BusyOnce'
  <2>1. \A f \in N : f.of = c /\ (f.at \in BusyPoints => f = Frame("ran", c))
    BY DEF Frame, BusyPoints
  <2>2. \A f, g \in N : f.at \in BusyPoints /\ g.at \in BusyPoints => f = g
    BY <2>1
  <2> HIDE DEF N
  <2> QED
    BY <1>0, <1>1, <1>b, <2>1, <2>2, BusyMove
<1>9. \A f : Stays(t, f) /\ f.at = "ran" /\ src[SourceOf[f.of]].removed => src'[SourceOf[f.of]].removed
  <2>1. ASSUME NEW f, Stays(t, f), f.at = "ran", src[SourceOf[f.of]].removed PROVE src'[SourceOf[f.of]].removed
    <3>1. f.of \in Callbacks
      BY <1>1, <2>1, StayingFrame DEF StopSide, AboutPoints
    <3>2. SourceOf[f.of] # s
      BY <1>0, <1>1, <2>1, <3>1, OneRunner DEF StopSide
    <3> QED
      BY <1>0, <2>1, <3>1, <3>2, Constants DEF OtherSources
  <2> QED
    BY <2>1
<1>10. RecordSound(c)'
  BY <1>4 DEF RecordSound
<1>11. \A f : Stays(t, f) /\ f.at \in AboutPoints /\ f.of = c => CallbackFrameSound(f)'
  BY <1>7
<1>12. \A f \in N : CallbackFrameSound(f)'
  BY <1>6
<1> HIDE DEF N
<1> QED
  BY <1>0, <1>2, <1>4, <1>8, <1>9, <1>10, <1>11, <1>12, OneCallback DEF StopSide

\* The callback has been executed.
LEMMA RanAliveCallbacks ==
    ASSUME StopSide, NEW t \in Threads, NEW s \in Sources, NEW c \in CallbacksOf(s), RanAlive(t, s, c)
    PROVE  CallbacksSound'
<1> DEFINE N == {Frame("relock", c)}
<1>0. c \in Callbacks /\ Changes(t, N) /\ OtherCallbacks(c) /\ Top1(t, "ran", c) /\ SourceOf[c] = s
      /\ src' = src /\ cb'[c] = [cb[c] EXCEPT !.flagged = FALSE, !.completed = TRUE]
      /\ stoppable' = stoppable /\ ~src[s].removed
  BY DEF RanAlive, CallbacksOf, StopSide, SameOperation
<1>1. /\ Stacks /\ FramesSound /\ BusyOnce /\ RecordSound(c) /\ cb[c] \in CallbackRecords
      /\ c = OnStop => stoppable
      /\ cb[c].attached /\ ~cb[c].linked /\ ~cb[c].completed /\ cb[c].life # "unborn"
      /\ cb[c].life # "dead"
  BY <1>0, TopCallback DEF StopSide
<1>2. cb[c] # Unborn
  BY <1>1, BornFields
<1>3. cb[c].life = "alive"
  BY <1>1 DEF CallbackRecords
<1>4. cb'[c].attached /\ ~cb'[c].linked /\ cb'[c].life = "alive"
  BY <1>0, <1>1, <1>3 DEF CallbackRecords
<1>6. CallbackFrameSound(Frame("relock", c))'
  BY <1>0, <1>1, <1>4 DEF CallbackFrameSound, Frame, ConstructorPoints, DestructorPoints
<1>b. stack[t] # <<>> /\ Top(t) \in BusyFrames(c)
      /\ \A f : Stays(t, f) /\ f.of = c => f.at \notin BusyPoints
  BY <1>0, <1>1, BusyTop DEF BusyPoints
<1>7. ASSUME NEW f, Stays(t, f), f.at \in AboutPoints, f.of = c PROVE CallbackFrameSound(f)'
  <2>1. CallbackFrameSound(f) /\ (f.at = "start" => f.of = OnStop) /\ f.at \notin BusyPoints
    BY <1>1, <1>b, <1>7, StayingFrame DEF StopSide
  <2>2. f.at \notin {"run", "ran", "start", "start_child"} /\ f.at \notin ConstructorPoints
    BY <1>2, <1>7, <2>1 DEF CallbackFrameSound, BusyPoints, ConstructorPoints
  <2> QED
    BY <1>0, <1>1, <1>4, <1>7, <2>1, <2>2 DEF CallbackFrameSound
<1>8. BusyOnce'
  <2>1. \A f \in N : f.at \notin BusyPoints
    BY DEF Frame, BusyPoints
  <2> HIDE DEF N
  <2> QED
    BY <1>0, <1>1, <2>1, BusyKept
<1>10. RecordSound(c)'
  BY <1>4 DEF RecordSound
<1>11. \A f : Stays(t, f) /\ f.at \in AboutPoints /\ f.of = c => CallbackFrameSound(f)'
  BY <1>7
<1>12. \A f \in N : CallbackFrameSound(f)'
  BY <1>6
<1> HIDE DEF N
<1> QED
  BY <1>0, <1>2, <1>4, <1>8, <1>10, <1>11, <1>12, OneCallback DEF StopSide

\* The end of a constructor: the callback is executed at once, or linked.
LEMMA ConstructedCallbacks ==
    ASSUME StopSide, NEW t \in Threads, NEW s \in Sources, NEW c \in CallbacksOf(s),
           AddLate(t, s, c) \/ Links(t, s, c)
    PROVE  CallbacksSound'
<1>0. PICK p \in ConstructorPoints : Top1(t, p, c)
  BY DEF AddLate, Links, ConstructorPoints
<1>1. PICK N : Changes(t, N) /\ \A f \in N : f = Frame("callback", c)
  BY DEF AddLate, Links
<1>2. /\ c \in Callbacks /\ OtherCallbacks(c) /\ stoppable' = stoppable
      /\ \A x \in Sources : src'[x].removed = src[x].removed
  BY DEF AddLate, Links, CallbacksOf, OtherSources, StopSide, SameOperation
<1>3. /\ Stacks /\ FramesSound /\ BusyOnce /\ cb[c] = Born /\ cb[c] \in CallbackRecords
      /\ c = OnStop => stoppable
  BY <1>0, <1>2, TopCallback DEF StopSide
<1>4. cb[c] # Unborn
  BY <1>3, BornFields
<1>5. cb'[c].life = "alive" /\ (cb'[c].linked => cb'[c].attached /\ ~cb'[c].completed)
  <2>1. cb[c].attached /\ ~cb[c].linked /\ ~cb[c].completed /\ cb[c].life = "alive"
    BY <1>3, BornFields
  <2>2. CASE AddLate(t, s, c)
    BY <1>3, <2>1, <2>2 DEF AddLate, CallbackRecords
  <2>3. CASE Links(t, s, c)
    BY <1>3, <2>1, <2>3 DEF Links, CallbackRecords
  <2> QED
    BY <2>2, <2>3
<1>6. \A f \in N : CallbackFrameSound(f)' /\ f.at \notin BusyPoints
  BY <1>1, <1>2, <1>3 DEF CallbackFrameSound, Frame, ConstructorPoints, DestructorPoints, BusyPoints
<1>7. ASSUME NEW f, Stays(t, f), f.at \in AboutPoints, f.of = c PROVE CallbackFrameSound(f)'
  <2>1. CallbackFrameSound(f) /\ (f.at = "start" => f.of = OnStop)
    BY <1>3, <1>7, StayingFrame DEF StopSide
  <2>2. f.at \notin BusyPoints
    BY <1>0, <1>2, <1>3, <1>7, BusyTop DEF BusyPoints, ConstructorPoints
  <2>3. f.at \notin DestructorPoints
    BY <1>0, <1>3, <1>7, ConstructorAlone DEF StopSide
  <2>4. f.at \notin {"start", "start_child"}
    BY <1>4, <1>7, <2>1 DEF CallbackFrameSound
  <2>5. f.at \in {"hand_off", "finish_child"}
    BY <1>7, <2>2, <2>3, <2>4 DEF AboutPoints, BusyPoints, ConstructorPoints
  <2> QED
    BY <1>5, <1>7, <2>5 DEF CallbackFrameSound, ConstructorPoints, DestructorPoints
<1>8. BusyOnce'
  BY <1>1, <1>3, <1>6, BusyKept
<1>9. \A f : Stays(t, f) /\ f.at = "ran" /\ src[SourceOf[f.of]].removed => src'[SourceOf[f.of]].removed
  <2>1. ASSUME NEW f, Stays(t, f), f.at = "ran", src[SourceOf[f.of]].removed PROVE src'[SourceOf[f.of]].removed
    <3>1. f.of \in Callbacks
      BY <1>3, <2>1, StayingFrame DEF StopSide, AboutPoints
    <3> QED
      BY <1>2, <2>1, <3>1, Constants
  <2> QED
    BY <2>1
<1>10. RecordSound(c)'
  BY <1>5 DEF RecordSound
<1>11. \A f : Stays(t, f) /\ f.at \in AboutPoints /\ f.of = c => CallbackFrameSound(f)'
  BY <1>7
<1> QED
  BY <1>1, <1>2, <1>4, <1>5, <1>6, <1>8, <1>9, <1>10, <1>11, OneCallback DEF StopSide

\* The end of a destructor.
LEMMA DestroyedCallbacks ==
    ASSUME StopSide, NEW t \in Threads, NEW s \in Sources, NEW c \in CallbacksOf(s),
           \/ RemoveDetached(t, s, c) \/ UnlinkListed(t, s, c) \/ UnlinkOwn(t, s, c)
           \/ AwaitEnds(t, s, c)
    PROVE  CallbacksSound'
<1>0. PICK p \in DestructorPoints : Top1(t, p, c)
  BY DEF RemoveDetached, UnlinkListed, UnlinkOwn, AwaitEnds, DestructorPoints
<1>1. /\ Changes(t, {}) /\ c \in Callbacks /\ OtherCallbacks(c) /\ SourceOf[c] = s
      /\ cb'[c] = [cb[c] EXCEPT !.life = "dead"]
  BY DEF RemoveDetached, UnlinkListed, UnlinkOwn, AwaitEnds, CallbacksOf
<1>2. stoppable' = stoppable /\ \A x \in Sources : src[x].removed => src'[x].removed
  BY DEF RemoveDetached, UnlinkListed, UnlinkOwn, AwaitEnds, OtherSources, StopSide, SameOperation
<1>3. /\ Stacks /\ FramesSound /\ BusyOnce /\ RecordSound(c) /\ cb[c] \in CallbackRecords
      /\ c = OnStop => stoppable
      /\ cb[c].life = "alive"
  BY <1>0, <1>1, TopCallback DEF StopSide
<1>4. cb[c] # Unborn
  BY <1>3, BornFields
<1>5. /\ cb'[c].life = "dead" /\ cb'[c].linked = cb[c].linked /\ cb'[c].attached = cb[c].attached
      /\ cb'[c].completed = cb[c].completed /\ cb'[c].flagged = cb[c].flagged
  BY <1>1, <1>3 DEF CallbackRecords
<1>6. /\ \A f : Stays(t, f) /\ f.of = c /\ f.at \in AboutPoints => f.at \in {"run", "ran"}
      /\ c \in Children => owner[c] # "undecided"
  BY <1>0, <1>3, DestructorTop DEF StopSide
<1>7. ASSUME NEW f, Stays(t, f), f.at \in AboutPoints, f.of = c PROVE CallbackFrameSound(f)'
  <2>1. CallbackFrameSound(f) /\ f.at \in {"run", "ran"} /\ f \in Frames
    BY <1>3, <1>6, <1>7, StayingFrame DEF StopSide
  <2>2. cb[c].attached /\ ~cb[c].linked /\ ~cb[c].completed
    BY <1>7, <2>1 DEF CallbackFrameSound
  <2>3. UnlinkOwn(t, s, c)
    BY <2>2 DEF RemoveDetached, UnlinkListed, AwaitEnds
  <2>a. PICK u \in Threads : \E i \in DOMAIN stack[u] : f = stack[u][i] /\ (u = t => i # Len(stack[t]))
    BY <1>7 DEF Stays
  <2>b. PICK i \in DOMAIN stack[u] : f = stack[u][i] /\ (u = t => i # Len(stack[t]))
    BY <2>a
  <2>4. u = t
    <3>1. stack[u][i] \in NotifyFrames(s)
      BY <1>7, <2>1, <2>b DEF NotifyFrames, FramesAt
    <3>2. Notified(s)
      BY DEF StopSide, Notifying
    <3> QED
      BY <2>3, <3>1, <3>2 DEF UnlinkOwn, Notified
  <2>5. f.at # "run"
    BY <1>3, <2>b, <2>4, Innermost DEF StopSide
  <2>6. cb[c].flagged /\ src'[s].removed
    BY <1>7, <2>1, <2>3, <2>5 DEF CallbackFrameSound, UnlinkOwn
  <2>7. f.at = "ran"
    BY <2>1, <2>5
  <2> QED
    BY <1>1, <1>2, <1>3, <1>5, <1>7, <2>2, <2>6, <2>7 DEF CallbackFrameSound, ConstructorPoints, DestructorPoints
<1>8. BusyOnce'
  BY <1>1, <1>3, BusyKept
<1>9. \A f : Stays(t, f) /\ f.at = "ran" /\ src[SourceOf[f.of]].removed => src'[SourceOf[f.of]].removed
  <2>1. ASSUME NEW f, Stays(t, f), f.at = "ran", src[SourceOf[f.of]].removed PROVE src'[SourceOf[f.of]].removed
    <3>1. f.of \in Callbacks
      BY <1>3, <2>1, StayingFrame DEF StopSide, AboutPoints
    <3> QED
      BY <1>2, <2>1, <3>1, Constants
  <2> QED
    BY <2>1
<1>10. RecordSound(c)'
  BY <1>3, <1>5 DEF RecordSound
<1>11. \A f : Stays(t, f) /\ f.at \in AboutPoints /\ f.of = c => CallbackFrameSound(f)'
  BY <1>7
<1> QED
  BY <1>1, <1>4, <1>6, <1>8, <1>9, <1>10, <1>11, OneCallback DEF StopSide
-----------------------------------------------------------------------------
\* The steps of a source that change no callback.
LEMMA QuietCallbacks ==
    ASSUME StopSide, NEW t \in Threads, NEW N, Changes(t, N), cb' = cb,
           \A s \in Sources : src'[s].removed = src[s].removed,
           \A f \in N : f.at \in PlainPoints \/ CallbackFrameSound(f)', BusyOnce'
    PROVE  CallbacksSound'
<1>1. \A x \in Children : LifeSound(x)
  BY CallbacksParts DEF StopSide
<1>2. \A x \in Children : owner'[x] = "undecided" => cb[x].life = "alive"
  BY <1>1 DEF LifeSound, StopSide, SameOperation
<1> QED
  BY <1>2, NoCallback DEF StopSide, SameOperation

\* Points of frames that know of no callback are not the busy ones.
LEMMA PlainNotBusy ==
    /\ PlainPoints \intersect BusyPoints = {}
    /\ {"notify", "request_stop"} \subseteq PlainPoints
  BY DEF PlainPoints, BusyPoints

\* A step of a source.
LEMMA StopCallbacks ==
    ASSUME StopSide, NEW t \in Threads, StopEvent(t)
    PROVE  CallbacksSound'
<1>0. Stacks /\ BusyOnce /\ stoppable' = stoppable
  BY CallbacksParts DEF StopSide, TypeOK, Stacks, SameOperation
<1>q. ASSUME NEW N, Changes(t, N), cb' = cb, \A s \in Sources : src'[s].removed = src[s].removed,
             \A f \in N : f.at \in PlainPoints \/ (CallbackFrameSound(f)' /\ f.at \notin BusyPoints)
      PROVE  CallbacksSound'
  <2>1. \A f \in N : f.at \notin BusyPoints
    BY <1>q, PlainNotBusy
  <2>2. BusyOnce'
    BY <1>0, <1>q, <2>1, BusyKept
  <2>3. \A f \in N : f.at \in PlainPoints \/ CallbackFrameSound(f)'
    BY <1>q
  <2> QED
    BY <1>q, <2>2, <2>3, QuietCallbacks
<1>1. ASSUME NEW s \in Sources, RequestLate(t, s) PROVE CallbacksSound'
  <2>1. Changes(t, {}) /\ cb' = cb /\ \A x \in Sources : src'[x].removed = src[x].removed
    BY <1>1 DEF RequestLate, OtherSources
  <2>2. \A f \in {} : f.at \in PlainPoints
    BY PlainNotBusy DEF Frame
  <2> QED
    BY <1>q, <2>1, <2>2
<1>2. ASSUME NEW s \in Sources, RequestFirst(t, s) PROVE CallbacksSound'
  <2>1. Changes(t, {Frame("notify", s)}) /\ cb' = cb /\ \A x \in Sources : src'[x].removed = src[x].removed
    BY <1>2 DEF RequestFirst, OtherSources
  <2>2. \A f \in {Frame("notify", s)} : f.at \in PlainPoints
    BY PlainNotBusy DEF Frame
  <2> QED
    BY <1>q, <2>1, <2>2
<1>3. ASSUME NEW s \in Sources, NotifyEnd(t, s) PROVE CallbacksSound'
  <2>1. Changes(t, {}) /\ cb' = cb /\ \A x \in Sources : src'[x].removed = src[x].removed
    BY <1>3 DEF NotifyEnd, OtherSources
  <2>2. \A f \in {} : f.at \in PlainPoints
    BY PlainNotBusy DEF Frame
  <2> QED
    BY <1>q, <2>1, <2>2
<1>4. ASSUME NEW s \in Sources, NEW c \in CallbacksOf(s), RanRemoved(t, s, c) PROVE CallbacksSound'
  <2>1. Changes(t, {Frame("relock", c)}) /\ cb' = cb /\ \A x \in Sources : src'[x].removed = src[x].removed
    BY <1>4 DEF RanRemoved, OtherSources
  <2>3. c \in Callbacks /\ Top1(t, "ran", c)
    BY <1>4 DEF RanRemoved, CallbacksOf
  <2>4. (c = OnStop => stoppable) /\ TRUE
    BY <1>4, <2>3, TopCallback DEF StopSide, DestructorPoints, ConstructorPoints, RanRemoved
  <2>5. CallbackFrameSound(Frame("relock", c))' /\ Frame("relock", c).at \notin BusyPoints
    BY <1>0, <2>1, <2>4 DEF CallbackFrameSound, Frame, ConstructorPoints, DestructorPoints, BusyPoints
  <2>2. \A f \in {Frame("relock", c)} : CallbackFrameSound(f)' /\ f.at \notin BusyPoints
    BY <2>5
  <2> QED
    BY <1>q, <2>1, <2>2
<1>5. ASSUME NEW s \in Sources, NEW c \in CallbacksOf(s), LockedAgain(t, s, c) PROVE CallbacksSound'
  <2>1. Changes(t, {Frame("notify", s)}) /\ cb' = cb /\ \A x \in Sources : src'[x].removed = src[x].removed
    BY <1>5 DEF LockedAgain, OtherSources
  <2>2. \A f \in {Frame("notify", s)} : f.at \in PlainPoints
    BY PlainNotBusy DEF Frame
  <2> QED
    BY <1>q, <2>1, <2>2
<1>6. ASSUME NEW s \in Sources, NEW c \in CallbacksOf(s), RemoveLocks(t, s, c) PROVE CallbacksSound'
  <2>1. Changes(t, {Frame("unlink", c)}) /\ cb' = cb /\ \A x \in Sources : src'[x].removed = src[x].removed
    BY <1>6 DEF RemoveLocks, OtherSources
  <2>3. c \in Callbacks /\ Top1(t, "remove", c)
    BY <1>6 DEF RemoveLocks, CallbacksOf
  <2>4. (c = OnStop => stoppable) /\ cb[c].life = "alive" /\ cb[c].attached
    BY <1>6, <2>3, TopCallback DEF StopSide, DestructorPoints, ConstructorPoints, RemoveLocks
  <2>5. CallbackFrameSound(Frame("unlink", c))' /\ Frame("unlink", c).at \notin BusyPoints
    BY <1>0, <2>1, <2>4 DEF CallbackFrameSound, Frame, ConstructorPoints, DestructorPoints, BusyPoints
  <2>2. \A f \in {Frame("unlink", c)} : CallbackFrameSound(f)' /\ f.at \notin BusyPoints
    BY <2>5
  <2> QED
    BY <1>q, <2>1, <2>2
<1>7. ASSUME NEW s \in Sources, NEW c \in CallbacksOf(s), UnlinkWaits(t, s, c) PROVE CallbacksSound'
  <2>1. Changes(t, {Frame("await", c)}) /\ cb' = cb /\ \A x \in Sources : src'[x].removed = src[x].removed
    BY <1>7 DEF UnlinkWaits, OtherSources
  <2>3. c \in Callbacks /\ Top1(t, "unlink", c)
    BY <1>7 DEF UnlinkWaits, CallbacksOf
  <2>4. (c = OnStop => stoppable) /\ cb[c].life = "alive" /\ cb[c].attached /\ ~cb[c].linked
    BY <1>7, <2>3, TopCallback DEF StopSide, DestructorPoints, ConstructorPoints, UnlinkWaits
  <2>5. CallbackFrameSound(Frame("await", c))' /\ Frame("await", c).at \notin BusyPoints
    BY <1>0, <2>1, <2>4 DEF CallbackFrameSound, Frame, ConstructorPoints, DestructorPoints, BusyPoints
  <2>2. \A f \in {Frame("await", c)} : CallbackFrameSound(f)' /\ f.at \notin BusyPoints
    BY <2>5
  <2> QED
    BY <1>q, <2>1, <2>2
<1>8. ASSUME NEW s \in Sources, NEW c \in CallbacksOf(s), AddLocks(t, s, c) PROVE CallbacksSound'
  <2> DEFINE N == {Frame("link", c)}
  <2>1. Changes(t, N) /\ cb' = cb /\ Top1(t, "add", c) /\ c \in Callbacks
        /\ \A x \in Sources : src'[x].removed = src[x].removed
    BY <1>8 DEF AddLocks, OtherSources, CallbacksOf
  <2>2. (c = OnStop => stoppable) /\ cb[c] = Born
    BY <2>1, TopCallback DEF StopSide, ConstructorPoints
  <2>3. \A f \in N : CallbackFrameSound(f)'
    BY <1>0, <2>1, <2>2 DEF CallbackFrameSound, Frame, ConstructorPoints, DestructorPoints
  <2>4. stack[t] # <<>> /\ Top(t) \in BusyFrames(c)
    BY <1>0, <2>1, BusyTop DEF BusyPoints
  <2>5. (\A f \in N : f.of = c) /\ \A f, g \in N : f = g
    BY DEF Frame
  <2> HIDE DEF N
  <2>6. BusyOnce'
    BY <1>0, <2>1, <2>4, <2>5, BusyMove
  <2> QED
    BY <2>1, <2>3, <2>6, QuietCallbacks
<1> QED
  BY <1>1, <1>2, <1>3, <1>4, <1>5, <1>6, <1>7, <1>8,
     NotifyOneCallbacks, RunOneCallbacks, RanAliveCallbacks, ConstructedCallbacks, DestroyedCallbacks
     DEF StopEvent
-----------------------------------------------------------------------------
(* Steps of the operation keep what is known of the callbacks.              *)

\* A callback is constructed.
LEMMA ConstructsCallback ==
    ASSUME IInv, NEW t \in Threads, NEW c \in Callbacks,
           (c = OnStop /\ StartStoppable(t)) \/ (c \in Children /\ StartAsync(t, c)),
           \A x \in Children : Begun(x) => Begun(x)'
    PROVE  CallbacksSound'
<1>0. /\ cb[c] = Unborn /\ cb'[c] = Born /\ OtherCallbacks(c) /\ src' = src /\ SameOperation
      /\ stoppable' = stoppable
  BY NewCallback DEF IInv, SameOperation
<1>1. Stacks /\ FramesSound /\ BusyOnce
  BY CallbacksParts DEF IInv, TypeOK, Stacks
<1>2. PICK p \in {"start", "start_child"} : Top1(t, p, c) /\ (p = "start" <=> c = OnStop)
  BY Constants DEF StartStoppable, StartAsync
<1>3. PICK q \in {"check", "hand_off"} : Changes(t, {Frame(q, c), Frame("add", c)})
  BY DEF StartStoppable, StartAsync
<1>4. c = OnStop => stoppable
  BY Constants DEF StartStoppable
<1> DEFINE N == {Frame(q, c), Frame("add", c)}
<1>5. \A f \in N : CallbackFrameSound(f)' /\ f.of = c /\ (f.at \in BusyPoints => f = Frame("add", c))
  <2>1. CallbackFrameSound(Frame("add", c))'
    BY <1>0, <1>4 DEF CallbackFrameSound, Frame, ConstructorPoints, DestructorPoints
  <2>2. CallbackFrameSound(Frame(q, c))'
    BY <1>0, BornFields DEF CallbackFrameSound, Frame, ConstructorPoints, DestructorPoints
  <2>3. Frame(q, c).of = c /\ Frame("add", c).of = c /\ Frame(q, c).at \notin BusyPoints
    BY DEF Frame, BusyPoints
  <2> QED
    BY <2>1, <2>2, <2>3
<1>6. \A f, g \in N : f.at \in BusyPoints /\ g.at \in BusyPoints => f = g
  BY <1>5
<1> HIDE DEF N
<1>n. Changes(t, N)
  BY <1>3 DEF N
<1>7. BusyOnce'
  <2>1. ~Occurs(BusyFrames(c))
    BY <1>0, <1>1, NotBusy
  <2> QED
    BY <1>1, <1>n, <1>5, <1>6, <2>1, BusyMove
<1>8. Len(stack[t]) \in DOMAIN stack[t] /\ stack[t][Len(stack[t])].at = p /\ stack[t][Len(stack[t])].of = c
  BY <1>1, <1>2, StackShape DEF Top1, Top, Frame, Stacks
<1>9. \A f : Stays(t, f) /\ f.at \in AboutPoints /\ f.of = c => CallbackFrameSound(f)'
  <2>1. ASSUME NEW f, Stays(t, f), f.at \in AboutPoints, f.of = c PROVE FALSE
    <3>a. PICK u \in Threads : \E i \in DOMAIN stack[u] : f = stack[u][i] /\ (u = t => i # Len(stack[t]))
      BY <2>1 DEF Stays
    <3>b. PICK i \in DOMAIN stack[u] : f = stack[u][i] /\ (u = t => i # Len(stack[t]))
      BY <3>a
    <3>1. CallbackFrameSound(f) /\ (f.at = "start" => f.of = OnStop)
      BY <1>1, <2>1, StayingFrame DEF IInv
    <3>2. ~cb[c].attached /\ cb[c] # Born /\ cb[c].life = "unborn"
      BY <1>0, BornFields
    <3>3. f.at \in {"start", "start_child"}
      BY <2>1, <3>1, <3>2 DEF CallbackFrameSound, AboutPoints
    <3>4. CASE f.at = "start"
      <4>1. p = "start"
        BY <1>2, <2>1, <3>1, <3>4
      <4> QED
        BY <1>1, <1>8, <3>4, <3>b, <4>1, BeforeBegun DEF IInv
    <3>5. CASE f.at = "start_child"
      <4>1. f.of \in Children
        BY <1>1, <3>5, <3>b, FrameKinds DEF IInv, Known, ChainPoints
      <4>2. p = "start_child" /\ "start_child" \in ChainPoints
        BY <1>2, <2>1, <4>1, Constants DEF ChainPoints
      <4> QED
        BY <1>1, <1>8, <2>1, <3>5, <3>b, <4>2, SameChain DEF IInv
    <3> QED
      BY <3>3, <3>4, <3>5
  <2> QED
    BY <2>1
<1>10. RecordSound(c)'
  BY <1>0, BornFields DEF RecordSound
<1>11. cb'[c].life = "alive"
  BY <1>0, BornFields
<1>12. c \in Children => Begun(c)'
  <2> SUFFICES ASSUME c \in Children PROVE Begun(c)
    OBVIOUS
  <2>1. p = "start_child" /\ "start_child" \in ChainPoints
    BY <1>2, Constants DEF ChainPoints
  <2> QED
    BY <1>1, <1>8, <2>1, ChainBegun DEF IInv
<1>13. \A f : Stays(t, f) /\ f.at = "ran" /\ src[SourceOf[f.of]].removed => src'[SourceOf[f.of]].removed
  BY <1>0
<1>14. \A f \in N : CallbackFrameSound(f)'
  BY <1>5
<1> QED
  BY <1>0, <1>n, <1>7, <1>9, <1>10, <1>11, <1>12, <1>13, <1>14, OneCallback DEF IInv

\* The steps of the operation that construct no callback.
LEMMA KeepsCallbacks ==
    ASSUME IInv, NEW t \in Threads, NEW N, Changes(t, N), cb' = cb, src' = src, stoppable' = stoppable,
           \A x \in Children : Begun(x) => Begun(x)',
           \A x \in Children : owner'[x] = "undecided" => owner[x] = "undecided" \/ cb[x].life = "alive",
           \A f \in N : f.at \in PlainPoints \/ (CallbackFrameSound(f)' /\ f.at \notin BusyPoints)
    PROVE  CallbacksSound'
<1>0. Stacks /\ BusyOnce /\ \A x \in Children : LifeSound(x)
  BY CallbacksParts DEF IInv, TypeOK, Stacks
<1>1. \A f \in N : f.at \notin BusyPoints
  BY PlainNotBusy
<1>2. BusyOnce'
  BY <1>0, <1>1, BusyKept
<1>3. \A f \in N : f.at \in PlainPoints \/ CallbackFrameSound(f)'
  OBVIOUS
<1>4. \A x \in Children : owner'[x] = "undecided" => cb[x].life = "alive"
  BY <1>0 DEF LifeSound
<1> QED
  BY <1>2, <1>3, <1>4, NoCallback DEF IInv

\* A step of the operation.
LEMMA ClientCallbacksSound ==
    ASSUME IInv, NEW t \in Threads, ClientEvent(t), \A x \in Children : Begun(x) => Begun(x)'
    PROVE  CallbacksSound'
<1>0. /\ Stacks /\ FramesSound /\ (\A x \in Children : LifeSound(x)) /\ CallbacksSound
      /\ owner \in [Children -> Threads \union {None, "undecided"}]
      /\ TypeOK /\ Nested /\ Chain /\ StartOrder /\ Counted /\ EndSound /\ OnStopSound /\ OperationSound
  BY CallbacksParts DEF IInv, TypeOK, Stacks
<1>a. src' = src /\ stoppable' = stoppable
  BY ClientShape DEF SameConfig
<1>b. t # "undecided"
  BY Constants
<1>p. /\ {"check", "abandon", "started", "complete_child", "emplace", "arrive", "deliver",
          "request_stop", "set_error"} \subseteq PlainPoints
      /\ Signals \subseteq PlainPoints
  BY DEF PlainPoints, Signals
<1>f. \A p, x : Frame(p, x).at = p /\ Frame(p, x).of = x
  BY DEF Frame
\* The new frames that know of a callback.
<1>s. ASSUME NEW c \in Children, ~Begun(c), cb' = cb
      PROVE  CallbackFrameSound(Frame("start_child", c))' /\ Frame("start_child", c).at \notin BusyPoints
  <2>1. cb[c] = Unborn
    BY <1>0, <1>s DEF LifeSound
  <2> QED
    BY <1>s, <2>1 DEF CallbackFrameSound, Frame, ConstructorPoints, DestructorPoints, BusyPoints
<1>d. ASSUME NEW c \in Callbacks, cb[c].life = "alive", cb' = cb, c = OnStop => stoppable
      PROVE  /\ CallbackFrameSound(Frame("remove", c))' /\ Frame("remove", c).at \notin BusyPoints
             /\ CallbackFrameSound(Frame("finish_child", c))' /\ Frame("finish_child", c).at \notin BusyPoints
  BY <1>a, <1>d DEF CallbackFrameSound, Frame, ConstructorPoints, DestructorPoints, BusyPoints
<1>t. ASSUME NEW c \in Children, NEW p \in {"hand_off", "finish_child"}, Top1(t, p, c)
      PROVE  cb[c].life = "alive"
  <2>1. CallbackFrameSound(Frame(p, c))
    BY <1>0, <1>t, TopSound
  <2> QED
    BY <1>f, <2>1 DEF CallbackFrameSound
<1>k. ASSUME NEW N, Changes(t, N), cb' = cb,
             \A x \in Children : owner'[x] = "undecided" => owner[x] = "undecided" \/ cb[x].life = "alive",
             \A f \in N : f.at \in PlainPoints \/ (CallbackFrameSound(f)' /\ f.at \notin BusyPoints)
      PROVE  CallbacksSound'
  BY <1>a, <1>k, KeepsCallbacks
<1>1. ASSUME StartNever(t) PROVE CallbacksSound'
  <2>1. Changes(t, {Frame("check", OnStop)}) /\ cb' = cb
    BY <1>1 DEF StartNever
  <2>2. \A x \in Children : owner'[x] = "undecided" => owner[x] = "undecided"
    BY <1>0, <1>b, <1>1 DEF StartNever, SameOperation, SameChild
  <2>3. \A f \in {Frame("check", OnStop)} : f.at \in PlainPoints \/ (CallbackFrameSound(f)' /\ f.at \notin BusyPoints)
    BY <1>p, <1>f
  <2> QED
    BY <1>k, <2>1, <2>2, <2>3
<1>2. ASSUME CheckStops(t) PROVE CallbacksSound'
  <2>1. Changes(t, {Frame("abandon", OnStop), Frame("remove", OnStop)}) /\ cb' = cb
    BY <1>2 DEF CheckStops
  <2>2. \A x \in Children : owner'[x] = "undecided" => owner[x] = "undecided"
    BY <1>0, <1>b, <1>2 DEF CheckStops, SameOperation, SameChild
  <2>3. \A f \in {Frame("abandon", OnStop), Frame("remove", OnStop)} : f.at \in PlainPoints \/ (CallbackFrameSound(f)' /\ f.at \notin BusyPoints)
    <3>1. stoppable /\ cb[OnStop].life = "alive"
      BY <1>0, <1>2, AliveAtCheck DEF CheckStops
    <3>2. CallbackFrameSound(Frame("remove", OnStop))' /\ Frame("remove", OnStop).at \notin BusyPoints
      BY <1>d, <2>1, <3>1, Constants
    <3> QED
      BY <1>p, <1>f, <3>2
  <2> QED
    BY <1>k, <2>1, <2>2, <2>3
<1>3. ASSUME CheckGoes(t) PROVE CallbacksSound'
  <2>1. Changes(t, {Frame("start_child", ChildOrder[1])}) /\ cb' = cb
    BY <1>3 DEF CheckGoes
  <2>2. \A x \in Children : owner'[x] = "undecided" => owner[x] = "undecided"
    BY <1>0, <1>b, <1>3 DEF CheckGoes, SameOperation, SameChild
  <2>3. \A f \in {Frame("start_child", ChildOrder[1])} : f.at \in PlainPoints \/ (CallbackFrameSound(f)' /\ f.at \notin BusyPoints)
    <3>1. ChildOrder[1] \in Children /\ ~Begun(ChildOrder[1])
      <4>1. \A c \in Children : ~Begun(c)
        BY <1>0, <1>3, NoneBegun DEF CheckGoes
      <4>2. 1 \in DOMAIN ChildOrder
        BY ChildOrderSound
      <4> QED
        BY <4>1, <4>2, ChildOrderSound
    <3> QED
      BY <1>s, <2>1, <3>1
  <2> QED
    BY <1>k, <2>1, <2>2, <2>3
<1>4. ASSUME Abandons(t) PROVE CallbacksSound'
  <2>1. Changes(t, {}) /\ cb' = cb
    BY <1>4 DEF Abandons
  <2>2. \A x \in Children : owner'[x] = "undecided" => owner[x] = "undecided"
    BY <1>0, <1>b, <1>4 DEF Abandons, SameOperation, SameChild
  <2>3. \A f \in {} : f.at \in PlainPoints \/ (CallbackFrameSound(f)' /\ f.at \notin BusyPoints)
    BY <1>p, <1>f
  <2> QED
    BY <1>k, <2>1, <2>2, <2>3
<1>5. ASSUME CallbackForwards(t) PROVE CallbacksSound'
  <2>1. Changes(t, {Frame("request_stop", Inner)}) /\ cb' = cb
    BY <1>5 DEF CallbackForwards
  <2>2. \A x \in Children : owner'[x] = "undecided" => owner[x] = "undecided"
    BY <1>0, <1>b, <1>5 DEF CallbackForwards, SameOperation, SameChild
  <2>3. \A f \in {Frame("request_stop", Inner)} : f.at \in PlainPoints \/ (CallbackFrameSound(f)' /\ f.at \notin BusyPoints)
    BY <1>p, <1>f
  <2> QED
    BY <1>k, <2>1, <2>2, <2>3
<1>6. ASSUME NEW c \in Children, HandEager(t, c) PROVE CallbacksSound'
  <2>1. Changes(t, {Frame("started", c), Frame("finish_child", c)}) /\ cb' = cb
    BY <1>6 DEF HandEager
  <2>2. \A x \in Children : owner'[x] = "undecided" => owner[x] = "undecided"
    BY <1>0, <1>b, <1>6 DEF HandEager, SameOperation, SameChild
  <2>3. \A f \in {Frame("started", c), Frame("finish_child", c)} : f.at \in PlainPoints \/ (CallbackFrameSound(f)' /\ f.at \notin BusyPoints)
    <3>1. cb[c].life = "alive"
      BY <1>6, <1>t DEF HandEager
    <3>2. CallbackFrameSound(Frame("finish_child", c))' /\ Frame("finish_child", c).at \notin BusyPoints
      BY <1>d, <1>6, <2>1, <3>1, Constants
    <3> QED
      BY <1>p, <1>f, <3>2
  <2> QED
    BY <1>k, <2>1, <2>2, <2>3
<1>7. ASSUME NEW c \in Children, HandOver(t, c) PROVE CallbacksSound'
  <2>1. Changes(t, {Frame("started", c)}) /\ cb' = cb
    BY <1>7 DEF HandOver
  <2>2. \A x \in Children : owner'[x] = "undecided" => owner[x] = "undecided" \/ cb[x].life = "alive"
    <3>1. cb[c].life = "alive"
      BY <1>7, <1>t DEF HandOver
    <3> QED
      BY <1>0, <1>7, <3>1 DEF HandOver
  <2>3. \A f \in {Frame("started", c)} : f.at \in PlainPoints \/ (CallbackFrameSound(f)' /\ f.at \notin BusyPoints)
    BY <1>p, <1>f
  <2> QED
    BY <1>k, <2>1, <2>2, <2>3
<1>8. ASSUME NEW c \in Children, NextEnds(t, c) PROVE CallbacksSound'
  <2>1. Changes(t, {}) /\ cb' = cb
    BY <1>8 DEF NextEnds
  <2>2. \A x \in Children : owner'[x] = "undecided" => owner[x] = "undecided"
    BY <1>0, <1>b, <1>8 DEF NextEnds, SameOperation, SameChild
  <2>3. \A f \in {} : f.at \in PlainPoints \/ (CallbackFrameSound(f)' /\ f.at \notin BusyPoints)
    BY <1>p, <1>f
  <2> QED
    BY <1>k, <2>1, <2>2, <2>3
<1>9. ASSUME NEW c \in Children, NEW i \in DOMAIN ChildOrder, NextStarts(t, c, i) PROVE CallbacksSound'
  <2>1. Changes(t, {Frame("start_child", ChildOrder[i + 1])}) /\ cb' = cb
    BY <1>9 DEF NextStarts
  <2>2. \A x \in Children : owner'[x] = "undecided" => owner[x] = "undecided"
    BY <1>0, <1>b, <1>9 DEF NextStarts, SameOperation, SameChild
  <2>3. \A f \in {Frame("start_child", ChildOrder[i + 1])} : f.at \in PlainPoints \/ (CallbackFrameSound(f)' /\ f.at \notin BusyPoints)
    <3>1. ChildOrder[i + 1] \in Children /\ ~Begun(ChildOrder[i + 1])
      <4>1. i + 1 \in DOMAIN ChildOrder /\ Top1(t, "started", ChildOrder[i])
        BY <1>9 DEF NextStarts
      <4>2. ~(i + 1 <= i)
        BY ChildOrderSound
      <4>3. Begun(ChildOrder[i + 1]) <=> i + 1 <= i
        BY <1>0, <4>1, NextNotBegun
      <4> QED
        BY <4>1, <4>2, <4>3, ChildOrderSound
    <3> QED
      BY <1>s, <2>1, <3>1
  <2> QED
    BY <1>k, <2>1, <2>2, <2>3
<1>10. ASSUME NEW c \in Children, CallbackFinishes(t, c) PROVE CallbacksSound'
  <2>1. Changes(t, {Frame("finish_child", c)}) /\ cb' = cb
    BY <1>10 DEF CallbackFinishes
  <2>2. \A x \in Children : owner'[x] = "undecided" => owner[x] = "undecided"
    BY <1>0, <1>b, <1>10 DEF CallbackFinishes, SameOperation, SameChild
  <2>3. \A f \in {Frame("finish_child", c)} : f.at \in PlainPoints \/ (CallbackFrameSound(f)' /\ f.at \notin BusyPoints)
    <3>1. cb[c].life = "alive"
      BY <1>0, <1>10 DEF LifeSound, CallbackFinishes
    <3>2. CallbackFrameSound(Frame("finish_child", c))' /\ Frame("finish_child", c).at \notin BusyPoints
      BY <1>d, <1>10, <2>1, <3>1, Constants
    <3> QED
      BY <1>p, <1>f, <3>2
  <2> QED
    BY <1>k, <2>1, <2>2, <2>3
<1>11. ASSUME NEW c \in Children, CallbackNotes(t, c) PROVE CallbacksSound'
  <2>1. Changes(t, {}) /\ cb' = cb
    BY <1>11 DEF CallbackNotes
  <2>2. \A x \in Children : owner'[x] = "undecided" => owner[x] = "undecided"
    BY <1>0, <1>b, <1>11 DEF CallbackNotes, SameOperation, SameChild
  <2>3. \A f \in {} : f.at \in PlainPoints \/ (CallbackFrameSound(f)' /\ f.at \notin BusyPoints)
    BY <1>p, <1>f
  <2> QED
    BY <1>k, <2>1, <2>2, <2>3
<1>12. ASSUME NEW c \in Children, Finishes(t, c) PROVE CallbacksSound'
  <2>1. Changes(t, {Frame("complete_child", c), Frame("remove", c)}) /\ cb' = cb
    BY <1>12 DEF Finishes
  <2>2. \A x \in Children : owner'[x] = "undecided" => owner[x] = "undecided"
    BY <1>0, <1>b, <1>12 DEF Finishes, SameOperation, SameChild
  <2>3. \A f \in {Frame("complete_child", c), Frame("remove", c)} : f.at \in PlainPoints \/ (CallbackFrameSound(f)' /\ f.at \notin BusyPoints)
    <3>1. cb[c].life = "alive"
      BY <1>12, <1>t DEF Finishes
    <3>2. CallbackFrameSound(Frame("remove", c))' /\ Frame("remove", c).at \notin BusyPoints
      BY <1>d, <1>12, <2>1, <3>1, Constants
    <3> QED
      BY <1>p, <1>f, <3>2
  <2> QED
    BY <1>k, <2>1, <2>2, <2>3
<1>13. ASSUME NEW c \in Children, SetsValue(t, c) PROVE CallbacksSound'
  <2>1. Changes(t, {Frame("arrive", c)}) /\ cb' = cb
    BY <1>13 DEF SetsValue
  <2>2. \A x \in Children : owner'[x] = "undecided" => owner[x] = "undecided"
    BY <1>0, <1>b, <1>13 DEF SetsValue, SameOperation, SameChild
  <2>3. \A f \in {Frame("arrive", c)} : f.at \in PlainPoints \/ (CallbackFrameSound(f)' /\ f.at \notin BusyPoints)
    BY <1>p, <1>f
  <2> QED
    BY <1>k, <2>1, <2>2, <2>3
<1>14. ASSUME NEW c \in Children, ValueThrows(t, c) PROVE CallbacksSound'
  <2>1. Changes(t, {Frame("set_error", c)}) /\ cb' = cb
    BY <1>14 DEF ValueThrows
  <2>2. \A x \in Children : owner'[x] = "undecided" => owner[x] = "undecided"
    BY <1>0, <1>b, <1>14 DEF ValueThrows, SameOperation, SameChild
  <2>3. \A f \in {Frame("set_error", c)} : f.at \in PlainPoints \/ (CallbackFrameSound(f)' /\ f.at \notin BusyPoints)
    BY <1>p, <1>f
  <2> QED
    BY <1>k, <2>1, <2>2, <2>3
<1>15. ASSUME NEW c \in Children, ErrorLate(t, c) PROVE CallbacksSound'
  <2>1. Changes(t, {Frame("arrive", c)}) /\ cb' = cb
    BY <1>15 DEF ErrorLate
  <2>2. \A x \in Children : owner'[x] = "undecided" => owner[x] = "undecided"
    BY <1>0, <1>b, <1>15 DEF ErrorLate, SameOperation, SameChild
  <2>3. \A f \in {Frame("arrive", c)} : f.at \in PlainPoints \/ (CallbackFrameSound(f)' /\ f.at \notin BusyPoints)
    BY <1>p, <1>f
  <2> QED
    BY <1>k, <2>1, <2>2, <2>3
<1>16. ASSUME NEW c \in Children, ErrorFirst(t, c) PROVE CallbacksSound'
  <2>1. Changes(t, {Frame("emplace", c), Frame("request_stop", Inner)}) /\ cb' = cb
    BY <1>16 DEF ErrorFirst
  <2>2. \A x \in Children : owner'[x] = "undecided" => owner[x] = "undecided"
    BY <1>0, <1>b, <1>16 DEF ErrorFirst, SameOperation, SameChild
  <2>3. \A f \in {Frame("emplace", c), Frame("request_stop", Inner)} : f.at \in PlainPoints \/ (CallbackFrameSound(f)' /\ f.at \notin BusyPoints)
    BY <1>p, <1>f
  <2> QED
    BY <1>k, <2>1, <2>2, <2>3
<1>17. ASSUME NEW c \in Children, Emplaces(t, c) PROVE CallbacksSound'
  <2>1. Changes(t, {Frame("arrive", c)}) /\ cb' = cb
    BY <1>17 DEF Emplaces
  <2>2. \A x \in Children : owner'[x] = "undecided" => owner[x] = "undecided"
    BY <1>0, <1>b, <1>17 DEF Emplaces, SameOperation, SameChild
  <2>3. \A f \in {Frame("arrive", c)} : f.at \in PlainPoints \/ (CallbackFrameSound(f)' /\ f.at \notin BusyPoints)
    BY <1>p, <1>f
  <2> QED
    BY <1>k, <2>1, <2>2, <2>3
<1>18. ASSUME NEW c \in Children, StoppedFirst(t, c) PROVE CallbacksSound'
  <2>1. Changes(t, {Frame("arrive", c), Frame("request_stop", Inner)}) /\ cb' = cb
    BY <1>18 DEF StoppedFirst
  <2>2. \A x \in Children : owner'[x] = "undecided" => owner[x] = "undecided"
    BY <1>0, <1>b, <1>18 DEF StoppedFirst, SameOperation, SameChild
  <2>3. \A f \in {Frame("arrive", c), Frame("request_stop", Inner)} : f.at \in PlainPoints \/ (CallbackFrameSound(f)' /\ f.at \notin BusyPoints)
    BY <1>p, <1>f
  <2> QED
    BY <1>k, <2>1, <2>2, <2>3
<1>19. ASSUME NEW c \in Children, StoppedLate(t, c) PROVE CallbacksSound'
  <2>1. Changes(t, {Frame("arrive", c)}) /\ cb' = cb
    BY <1>19 DEF StoppedLate
  <2>2. \A x \in Children : owner'[x] = "undecided" => owner[x] = "undecided"
    BY <1>0, <1>b, <1>19 DEF StoppedLate, SameOperation, SameChild
  <2>3. \A f \in {Frame("arrive", c)} : f.at \in PlainPoints \/ (CallbackFrameSound(f)' /\ f.at \notin BusyPoints)
    BY <1>p, <1>f
  <2> QED
    BY <1>k, <2>1, <2>2, <2>3
<1>20. ASSUME NEW c \in Children, ArrivesEarly(t, c) PROVE CallbacksSound'
  <2>1. Changes(t, {}) /\ cb' = cb
    BY <1>20 DEF ArrivesEarly
  <2>2. \A x \in Children : owner'[x] = "undecided" => owner[x] = "undecided"
    BY <1>0, <1>b, <1>20 DEF ArrivesEarly, SameOperation, SameChild
  <2>3. \A f \in {} : f.at \in PlainPoints \/ (CallbackFrameSound(f)' /\ f.at \notin BusyPoints)
    BY <1>p, <1>f
  <2> QED
    BY <1>k, <2>1, <2>2, <2>3
<1>21. ASSUME NEW c \in Children, ArrivesLastStoppable(t, c) PROVE CallbacksSound'
  <2>1. Changes(t, {Frame("deliver", c), Frame("remove", OnStop)}) /\ cb' = cb
    BY <1>21 DEF ArrivesLastStoppable
  <2>2. \A x \in Children : owner'[x] = "undecided" => owner[x] = "undecided"
    BY <1>0, <1>b, <1>21 DEF ArrivesLastStoppable, SameOperation, SameChild
  <2>3. \A f \in {Frame("deliver", c), Frame("remove", OnStop)} : f.at \in PlainPoints \/ (CallbackFrameSound(f)' /\ f.at \notin BusyPoints)
    <3>1. stoppable /\ cb[OnStop].life = "alive"
      BY <1>0, <1>21, AliveAtArrival DEF ArrivesLastStoppable
    <3>2. CallbackFrameSound(Frame("remove", OnStop))' /\ Frame("remove", OnStop).at \notin BusyPoints
      BY <1>d, <2>1, <3>1, Constants
    <3> QED
      BY <1>p, <1>f, <3>2
  <2> QED
    BY <1>k, <2>1, <2>2, <2>3
<1>22. ASSUME NEW c \in Children, ArrivesLast(t, c) PROVE CallbacksSound'
  <2>1. Changes(t, {Frame("deliver", c)}) /\ cb' = cb
    BY <1>22 DEF ArrivesLast
  <2>2. \A x \in Children : owner'[x] = "undecided" => owner[x] = "undecided"
    BY <1>0, <1>b, <1>22 DEF ArrivesLast, SameOperation, SameChild
  <2>3. \A f \in {Frame("deliver", c)} : f.at \in PlainPoints \/ (CallbackFrameSound(f)' /\ f.at \notin BusyPoints)
    BY <1>p, <1>f
  <2> QED
    BY <1>k, <2>1, <2>2, <2>3
<1>23. ASSUME NEW c \in Children, Delivers(t, c) PROVE CallbacksSound'
  <2>1. Changes(t, {}) /\ cb' = cb
    BY <1>23 DEF Delivers
  <2>2. \A x \in Children : owner'[x] = "undecided" => owner[x] = "undecided"
    BY <1>0, <1>b, <1>23 DEF Delivers, SameOperation, SameChild
  <2>3. \A f \in {} : f.at \in PlainPoints \/ (CallbackFrameSound(f)' /\ f.at \notin BusyPoints)
    BY <1>p, <1>f
  <2> QED
    BY <1>k, <2>1, <2>2, <2>3
<1>24. ASSUME NEW c \in Children, NEW signal \in Signals, StartInline(t, c, signal) PROVE CallbacksSound'
  <2>1. Changes(t, {Frame("started", c), Frame(signal, c)}) /\ cb' = cb
    BY <1>24 DEF StartInline
  <2>2. \A x \in Children : owner'[x] = "undecided" => owner[x] = "undecided"
    BY <1>0, <1>b, <1>24 DEF StartInline, SameOperation, SameChild
  <2>3. \A f \in {Frame("started", c), Frame(signal, c)} : f.at \in PlainPoints \/ (CallbackFrameSound(f)' /\ f.at \notin BusyPoints)
    BY <1>p, <1>f
  <2> QED
    BY <1>k, <2>1, <2>2, <2>3
<1>25. ASSUME NEW c \in Children, NEW signal \in Signals, CompletesChild(t, c, signal) PROVE CallbacksSound'
  <2>1. Changes(t, {Frame(signal, c)}) /\ cb' = cb
    BY <1>25 DEF CompletesChild
  <2>2. \A x \in Children : owner'[x] = "undecided" => owner[x] = "undecided"
    BY <1>0, <1>b, <1>25 DEF CompletesChild, SameOperation, SameChild
  <2>3. \A f \in {Frame(signal, c)} : f.at \in PlainPoints \/ (CallbackFrameSound(f)' /\ f.at \notin BusyPoints)
    BY <1>p, <1>f
  <2> QED
    BY <1>k, <2>1, <2>2, <2>3
<1>26. ASSUME StartStoppable(t) PROVE CallbacksSound'
  BY <1>26, ConstructsCallback, Constants
<1>27. ASSUME NEW c \in Children, StartAsync(t, c) PROVE CallbacksSound'
  BY <1>27, ConstructsCallback, Constants
<1> HIDE DEF CallbacksSound
<1> QED
  BY <1>1, <1>2, <1>3, <1>4, <1>5, <1>6, <1>7, <1>8, <1>9, <1>10, <1>11, <1>12, <1>13, <1>14, <1>15, <1>16, <1>17, <1>18, <1>19, <1>20, <1>21, <1>22, <1>23, <1>24, <1>25, <1>26, <1>27 DEF ClientEvent

\* The callbacks stay as their calls know them.
LEMMA CallbacksStep ==
    ASSUME IInv, [Next]_vars
    PROVE  CallbacksSound'
<1>0. TypeOK /\ Nested /\ Chain /\ StartOrder /\ Notifying /\ Listed /\ CallbacksSound
  BY DEF IInv
<1>1. \A x \in Children : Begun(x) => Begun(x)'
  BY <1>0, BegunStays
<1>2. ASSUME NEW t \in Threads, StopEvent(t), SameOperation PROVE CallbacksSound'
  BY <1>0, <1>1, <1>2, StopCallbacks DEF StopSide
<1>3. ASSUME NEW t \in Threads, ClientEvent(t) PROVE CallbacksSound'
  BY <1>1, <1>3, ClientCallbacksSound
<1>4. ASSUME Asks PROVE CallbacksSound'
  <2>1. Changes(Stopper, {Frame("request_stop", Outer)}) /\ cb' = cb /\ src' = src
        /\ stoppable' = stoppable /\ owner' = owner /\ Stopper \in Threads
    BY <1>4, Constants DEF Asks, SameConfig, SameChild
  <2>2. \A f \in {Frame("request_stop", Outer)} : f.at \in PlainPoints
    BY DEF PlainPoints, Frame
  <2> QED
    BY <1>1, <2>1, <2>2, KeepsCallbacks
<1>5. ASSUME NEW c \in Children, Works(c) PROVE CallbacksSound'
  <2>1. Changes(c, {Frame("finish_child", c)}) /\ cb' = cb /\ src' = src /\ owner[c] = "undecided"
        /\ stoppable' = stoppable /\ owner' = [owner EXCEPT ![c] = c] /\ c \in Threads
        /\ c # "undecided" /\ c # OnStop
    BY <1>5, Constants DEF Works, SameConfig
  <2>2. cb[c].life = "alive"
    BY <1>0, <2>1, CallbacksParts DEF LifeSound
  <2>3. \A f \in {Frame("finish_child", c)} : CallbackFrameSound(f)' /\ f.at \notin BusyPoints
    BY <2>1, <2>2 DEF CallbackFrameSound, Frame, ConstructorPoints, DestructorPoints, BusyPoints
  <2>4. \A x \in Children : owner'[x] = "undecided" => owner[x] = "undecided"
    BY <1>0, <2>1 DEF TypeOK
  <2> QED
    BY <1>1, <2>1, <2>3, <2>4, KeepsCallbacks
<1>6. ASSUME Stutter PROVE CallbacksSound'
  <2>1. stack' = stack /\ cb' = cb /\ src' = src /\ owner' = owner /\ stoppable' = stoppable
    BY <1>6 DEF Stutter, SameOperation
  <2>2. /\ FramesSound /\ BusyOnce /\ (\A c \in Callbacks : RecordSound(c))
        /\ \A c \in Children : LifeSound(c)
    BY <1>0, CallbacksParts
  <2>3. FramesSound'
    BY <2>1, <2>2 DEF FramesSound, CallbackFrameSound
  <2>4. BusyOnce'
    BY <2>1, <2>2, StackUnchanged DEF BusyOnce
  <2>5. \A c \in Callbacks : RecordSound(c)'
    BY <2>1, <2>2 DEF RecordSound
  <2>6. \A c \in Children : LifeSound(c)'
    BY <1>1, <2>1, <2>2 DEF LifeSound
  <2> QED
    BY <2>3, <2>4, <2>5, <2>6, CallbacksParts
<1> HIDE DEF CallbacksSound
<1> QED
  BY <1>0, <1>2, <1>3, <1>4, <1>5, <1>6, NextEvents
-----------------------------------------------------------------------------
(* A child that has not been told to stop can be told.                      *)

ReachPoints == {"add", "link", "callback", "run"}
ReachFrames(c) == FramesAt(ReachPoints, {c})
Reach(c) == cb[c].life = "alive" => cb[c].linked \/ cancelled[c] \/ Occurs(ReachFrames(c))

\* The invariant, child by child.
LEMMA ReachParts ==
    /\ Reachable <=> \A c \in Children : Reach(c)
    /\ Reachable' <=> \A c \in Children : Reach(c)'
  BY DEF Reachable, Reach, ReachFrames, ReachPoints

\* A step that loses none of the ways to reach a callback.
LEMMA ReachKept ==
    ASSUME Stacks, NEW t \in Threads, NEW N, Changes(t, N), NEW x \in Children, Reach(x),
           cb'[x].life = "alive" => cb[x].life = "alive", cancelled[x] => cancelled'[x],
           cb[x].linked => cb'[x].linked \/ \E f \in N : f \in ReachFrames(x),
           stack[t] # <<>> /\ Top(t) \in ReachFrames(x)
             => cb'[x].linked \/ cancelled'[x] \/ \E f \in N : f \in ReachFrames(x)
    PROVE  Reach(x)'
<1> SUFFICES ASSUME cb'[x].life = "alive" PROVE cb'[x].linked \/ cancelled'[x] \/ Occurs(ReachFrames(x))'
  BY DEF Reach
<1>1. CASE \E f \in N : f \in ReachFrames(x)
  BY <1>1, OccursComes
<1>2. CASE Occurs(ReachFrames(x)) /\ (stack[t] # <<>> => Top(t) \notin ReachFrames(x))
  BY <1>2, OccursStays
<1> QED
  BY <1>1, <1>2 DEF Reach

\* A step elsewhere.
LEMMA ReachAway ==
    ASSUME Stacks, NEW t \in Threads, NEW N, Changes(t, N), NEW x \in Children, Reach(x),
           cb'[x] = cb[x], cancelled[x] => cancelled'[x],
           stack[t] # <<>> => Top(t).at \notin ReachPoints \/ Top(t).of # x
    PROVE  Reach(x)'
<1>1. stack[t] # <<>> => Top(t) \notin ReachFrames(x)
  BY DEF ReachFrames, FramesAt
<1> QED
  BY <1>1, ReachKept

\* A step of a source.
LEMMA ReachStop ==
    ASSUME TypeOK, NEW t \in Threads, StopEvent(t), SameOperation, NEW x \in Children, Reach(x)
    PROVE  Reach(x)'
<1>0. Stacks /\ cancelled' = cancelled /\ x \in Callbacks /\ cb[x] \in CallbackRecords
  BY Constants DEF TypeOK, Stacks, SameOperation, CallbackRecords
<1>f. \A p, y : Frame(p, y).at = p /\ Frame(p, y).of = y
  BY DEF Frame
<1>r. \A p \in ReachPoints : Frame(p, x) \in ReachFrames(x)
  BY <1>0, FrameIn DEF ReachFrames, ReachPoints, Points, ConstructorPoints
<1>a. ASSUME NEW N, Changes(t, N), NEW p, NEW y, Top1(t, p, y), cb'[x] = cb[x],
             p \notin ReachPoints \/ y # x
      PROVE  Reach(x)'
  <2>1. Top(t).at = p /\ Top(t).of = y
    BY <1>a, <1>f DEF Top1
  <2> QED
    BY <1>0, <1>a, <2>1, ReachAway
<1>1. ASSUME NEW s \in Sources, RequestLate(t, s) PROVE Reach(x)'
  BY <1>a, <1>1 DEF RequestLate, ReachPoints
<1>2. ASSUME NEW s \in Sources, RequestFirst(t, s) PROVE Reach(x)'
  BY <1>a, <1>2 DEF RequestFirst, ReachPoints
<1>3. ASSUME NEW s \in Sources, NotifyEnd(t, s) PROVE Reach(x)'
  BY <1>a, <1>3 DEF NotifyEnd, ReachPoints
<1>4. ASSUME NEW s \in Sources, NEW c \in CallbacksOf(s), RanRemoved(t, s, c) PROVE Reach(x)'
  BY <1>a, <1>4 DEF RanRemoved, ReachPoints
<1>5. ASSUME NEW s \in Sources, NEW c \in CallbacksOf(s), LockedAgain(t, s, c) PROVE Reach(x)'
  BY <1>a, <1>5 DEF LockedAgain, ReachPoints
<1>6. ASSUME NEW s \in Sources, NEW c \in CallbacksOf(s), RemoveLocks(t, s, c) PROVE Reach(x)'
  BY <1>a, <1>6 DEF RemoveLocks, ReachPoints
<1>7. ASSUME NEW s \in Sources, NEW c \in CallbacksOf(s), UnlinkWaits(t, s, c) PROVE Reach(x)'
  BY <1>a, <1>7 DEF UnlinkWaits, ReachPoints
<1>8. ASSUME NEW s \in Sources, NEW c \in CallbacksOf(s), NotifyOne(t, s, c) PROVE Reach(x)'
  <2>1. Changes(t, {Frame("run", c)}) /\ Top1(t, "notify", s) /\ OtherCallbacks(c)
    BY <1>8 DEF NotifyOne, OtherCallbacks
  <2>2. CASE c # x
    BY <1>0, <1>a, <2>1, <2>2 DEF OtherCallbacks, ReachPoints
  <2>3. CASE c = x
    <3>1. cb'[x].life = cb[x].life
      BY <1>0, <1>8, <2>3 DEF NotifyOne, CallbackRecords
    <3>2. \E f \in {Frame("run", c)} : f \in ReachFrames(x)
      BY <1>r, <2>3 DEF ReachPoints
    <3> QED
      BY <1>0, <2>1, <3>1, <3>2, ReachKept
  <2> QED
    BY <2>2, <2>3
<1>9. ASSUME NEW s \in Sources, NEW c \in CallbacksOf(s), RunOne(t, s, c) PROVE Reach(x)'
  <2>1. Changes(t, {Frame("ran", c), Frame("callback", c)}) /\ Top1(t, "run", c) /\ OtherCallbacks(c)
    BY <1>9 DEF RunOne, OtherCallbacks
  <2>2. CASE c # x
    BY <1>0, <1>a, <2>1, <2>2 DEF OtherCallbacks, ReachPoints
  <2>3. CASE c = x
    <3>1. cb'[x].life = cb[x].life
      BY <1>0, <1>9, <2>3 DEF RunOne, CallbackRecords
    <3>2. \E f \in {Frame("ran", c), Frame("callback", c)} : f \in ReachFrames(x)
      BY <1>r, <2>3 DEF ReachPoints
    <3> QED
      BY <1>0, <2>1, <3>1, <3>2, ReachKept
  <2> QED
    BY <2>2, <2>3
<1>10. ASSUME NEW s \in Sources, NEW c \in CallbacksOf(s), RanAlive(t, s, c) PROVE Reach(x)'
  <2>1. Changes(t, {Frame("relock", c)}) /\ Top1(t, "ran", c) /\ OtherCallbacks(c)
    BY <1>10 DEF RanAlive, OtherCallbacks
  <2>2. CASE c # x
    BY <1>0, <1>a, <2>1, <2>2 DEF OtherCallbacks, ReachPoints
  <2>3. CASE c = x
    <3>1. cb'[x].life = cb[x].life /\ cb'[x].linked = cb[x].linked
      BY <1>0, <1>10, <2>3 DEF RanAlive, CallbackRecords
    <3>2. Top(t) \notin ReachFrames(x)
      BY <1>f, <2>1 DEF Top1, ReachFrames, FramesAt, ReachPoints
    <3> QED
      BY <1>0, <2>1, <3>1, <3>2, ReachKept
  <2> QED
    BY <2>2, <2>3
<1>11. ASSUME NEW s \in Sources, NEW c \in CallbacksOf(s), AddLate(t, s, c) PROVE Reach(x)'
  <2>1. Changes(t, {Frame("callback", c)}) /\ Top1(t, "add", c) /\ OtherCallbacks(c)
    BY <1>11 DEF AddLate, OtherCallbacks
  <2>2. CASE c # x
    BY <1>0, <1>a, <2>1, <2>2 DEF OtherCallbacks, ReachPoints
  <2>3. CASE c = x
    <3>1. cb'[x].life = cb[x].life
      BY <1>0, <1>11, <2>3 DEF AddLate, CallbackRecords
    <3>2. \E f \in {Frame("callback", c)} : f \in ReachFrames(x)
      BY <1>r, <2>3 DEF ReachPoints
    <3> QED
      BY <1>0, <2>1, <3>1, <3>2, ReachKept
  <2> QED
    BY <2>2, <2>3
<1>12. ASSUME NEW s \in Sources, NEW c \in CallbacksOf(s), AddLocks(t, s, c) PROVE Reach(x)'
  <2>1. Changes(t, {Frame("link", c)}) /\ Top1(t, "add", c) /\ OtherCallbacks(c)
    BY <1>12 DEF AddLocks, OtherCallbacks
  <2>2. CASE c # x
    BY <1>0, <1>a, <2>1, <2>2 DEF OtherCallbacks, ReachPoints
  <2>3. CASE c = x
    <3>1. cb'[x].life = cb[x].life
      BY <1>0, <1>12, <2>3 DEF AddLocks, CallbackRecords
    <3>2. \E f \in {Frame("link", c)} : f \in ReachFrames(x)
      BY <1>r, <2>3 DEF ReachPoints
    <3> QED
      BY <1>0, <2>1, <3>1, <3>2, ReachKept
  <2> QED
    BY <2>2, <2>3
<1>13. ASSUME NEW s \in Sources, NEW c \in CallbacksOf(s), Links(t, s, c) PROVE Reach(x)'
  <2>1. Changes(t, {}) /\ Top1(t, "link", c) /\ OtherCallbacks(c)
    BY <1>13 DEF Links, OtherCallbacks
  <2>2. CASE c # x
    BY <1>0, <1>a, <2>1, <2>2 DEF OtherCallbacks, ReachPoints
  <2>3. CASE c = x
    <3>1. cb'[x].life = cb[x].life /\ cb'[x].linked
      BY <1>0, <1>13, <2>3 DEF Links, CallbackRecords
    <3> QED
      BY <1>0, <2>1, <3>1, ReachKept
  <2> QED
    BY <2>2, <2>3
<1>14. ASSUME NEW s \in Sources, NEW c \in CallbacksOf(s), RemoveDetached(t, s, c) PROVE Reach(x)'
  <2>1. Changes(t, {}) /\ Top1(t, "remove", c) /\ OtherCallbacks(c)
    BY <1>14 DEF RemoveDetached, OtherCallbacks
  <2>2. CASE c # x
    BY <1>0, <1>a, <2>1, <2>2 DEF OtherCallbacks, ReachPoints
  <2>3. CASE c = x
    <3>1. cb'[x].life = "dead"
      BY <1>0, <1>14, <2>3 DEF RemoveDetached, CallbackRecords
    <3> QED
      BY <3>1 DEF Reach
  <2> QED
    BY <2>2, <2>3
<1>15. ASSUME NEW s \in Sources, NEW c \in CallbacksOf(s), UnlinkListed(t, s, c) PROVE Reach(x)'
  <2>1. Changes(t, {}) /\ Top1(t, "unlink", c) /\ OtherCallbacks(c)
    BY <1>15 DEF UnlinkListed, OtherCallbacks
  <2>2. CASE c # x
    BY <1>0, <1>a, <2>1, <2>2 DEF OtherCallbacks, ReachPoints
  <2>3. CASE c = x
    <3>1. cb'[x].life = "dead"
      BY <1>0, <1>15, <2>3 DEF UnlinkListed, CallbackRecords
    <3> QED
      BY <3>1 DEF Reach
  <2> QED
    BY <2>2, <2>3
<1>16. ASSUME NEW s \in Sources, NEW c \in CallbacksOf(s), UnlinkOwn(t, s, c) PROVE Reach(x)'
  <2>1. Changes(t, {}) /\ Top1(t, "unlink", c) /\ OtherCallbacks(c)
    BY <1>16 DEF UnlinkOwn, OtherCallbacks
  <2>2. CASE c # x
    BY <1>0, <1>a, <2>1, <2>2 DEF OtherCallbacks, ReachPoints
  <2>3. CASE c = x
    <3>1. cb'[x].life = "dead"
      BY <1>0, <1>16, <2>3 DEF UnlinkOwn, CallbackRecords
    <3> QED
      BY <3>1 DEF Reach
  <2> QED
    BY <2>2, <2>3
<1>17. ASSUME NEW s \in Sources, NEW c \in CallbacksOf(s), AwaitEnds(t, s, c) PROVE Reach(x)'
  <2>1. Changes(t, {}) /\ Top1(t, "await", c) /\ OtherCallbacks(c)
    BY <1>17 DEF AwaitEnds, OtherCallbacks
  <2>2. CASE c # x
    BY <1>0, <1>a, <2>1, <2>2 DEF OtherCallbacks, ReachPoints
  <2>3. CASE c = x
    <3>1. cb'[x].life = "dead"
      BY <1>0, <1>17, <2>3 DEF AwaitEnds, CallbackRecords
    <3> QED
      BY <3>1 DEF Reach
  <2> QED
    BY <2>2, <2>3
<1> HIDE DEF Reach
<1> QED
  BY <1>1, <1>2, <1>3, <1>4, <1>5, <1>6, <1>7, <1>8, <1>9, <1>10, <1>11, <1>12, <1>13, <1>14, <1>15, <1>16, <1>17 DEF StopEvent

\* A step of the operation that is not a callback's and constructs none.
LEMMA ClientReach ==
    ASSUME TypeOK, NEW t \in Threads, ClientEvent(t), Top(t).at # "callback"
    PROVE  cancelled' = cancelled
<1>1. ASSUME StartStoppable(t) PROVE cancelled' = cancelled
  BY <1>1 DEF StartStoppable, SameOperation, SameChild
<1>2. ASSUME StartNever(t) PROVE cancelled' = cancelled
  BY <1>2 DEF StartNever, SameOperation, SameChild
<1>3. ASSUME CheckStops(t) PROVE cancelled' = cancelled
  BY <1>3 DEF CheckStops, SameOperation, SameChild
<1>4. ASSUME CheckGoes(t) PROVE cancelled' = cancelled
  BY <1>4 DEF CheckGoes, SameOperation, SameChild
<1>5. ASSUME Abandons(t) PROVE cancelled' = cancelled
  BY <1>5 DEF Abandons, SameOperation, SameChild
<1>6. ASSUME CallbackForwards(t) PROVE cancelled' = cancelled
  BY <1>6 DEF CallbackForwards, SameOperation, SameChild
<1>7. ASSUME NEW c \in Children, StartAsync(t, c) PROVE cancelled' = cancelled
  BY <1>7 DEF StartAsync, SameOperation, SameChild
<1>8. ASSUME NEW c \in Children, HandEager(t, c) PROVE cancelled' = cancelled
  BY <1>8 DEF HandEager, SameOperation, SameChild
<1>9. ASSUME NEW c \in Children, HandOver(t, c) PROVE cancelled' = cancelled
  BY <1>9 DEF HandOver, SameOperation, SameChild
<1>10. ASSUME NEW c \in Children, NextEnds(t, c) PROVE cancelled' = cancelled
  BY <1>10 DEF NextEnds, SameOperation, SameChild
<1>11. ASSUME NEW c \in Children, Finishes(t, c) PROVE cancelled' = cancelled
  BY <1>11 DEF Finishes, SameOperation, SameChild
<1>12. ASSUME NEW c \in Children, SetsValue(t, c) PROVE cancelled' = cancelled
  BY <1>12 DEF SetsValue, SameOperation, SameChild
<1>13. ASSUME NEW c \in Children, ValueThrows(t, c) PROVE cancelled' = cancelled
  BY <1>13 DEF ValueThrows, SameOperation, SameChild
<1>14. ASSUME NEW c \in Children, ErrorLate(t, c) PROVE cancelled' = cancelled
  BY <1>14 DEF ErrorLate, SameOperation, SameChild
<1>15. ASSUME NEW c \in Children, ErrorFirst(t, c) PROVE cancelled' = cancelled
  BY <1>15 DEF ErrorFirst, SameOperation, SameChild
<1>16. ASSUME NEW c \in Children, Emplaces(t, c) PROVE cancelled' = cancelled
  BY <1>16 DEF Emplaces, SameOperation, SameChild
<1>17. ASSUME NEW c \in Children, StoppedFirst(t, c) PROVE cancelled' = cancelled
  BY <1>17 DEF StoppedFirst, SameOperation, SameChild
<1>18. ASSUME NEW c \in Children, StoppedLate(t, c) PROVE cancelled' = cancelled
  BY <1>18 DEF StoppedLate, SameOperation, SameChild
<1>19. ASSUME NEW c \in Children, ArrivesEarly(t, c) PROVE cancelled' = cancelled
  BY <1>19 DEF ArrivesEarly, SameOperation, SameChild
<1>20. ASSUME NEW c \in Children, ArrivesLastStoppable(t, c) PROVE cancelled' = cancelled
  BY <1>20 DEF ArrivesLastStoppable, SameOperation, SameChild
<1>21. ASSUME NEW c \in Children, ArrivesLast(t, c) PROVE cancelled' = cancelled
  BY <1>21 DEF ArrivesLast, SameOperation, SameChild
<1>22. ASSUME NEW c \in Children, Delivers(t, c) PROVE cancelled' = cancelled
  BY <1>22 DEF Delivers, SameOperation, SameChild
<1>23. ASSUME NEW c \in Children, NEW signal \in Signals, StartInline(t, c, signal) PROVE cancelled' = cancelled
  BY <1>23 DEF StartInline, SameOperation, SameChild
<1>24. ASSUME NEW c \in Children, NEW signal \in Signals, CompletesChild(t, c, signal) PROVE cancelled' = cancelled
  BY <1>24 DEF CompletesChild, SameOperation, SameChild
<1>25. ASSUME NEW c \in Children, NEW i \in DOMAIN ChildOrder, NextStarts(t, c, i) PROVE cancelled' = cancelled
  BY <1>25 DEF NextStarts, SameOperation, SameChild
<1>26. ASSUME NEW c \in Children, CallbackFinishes(t, c) \/ CallbackNotes(t, c) PROVE FALSE
  BY <1>26 DEF CallbackFinishes, CallbackNotes, Top1, Frame
<1> QED
  BY <1>1, <1>2, <1>3, <1>4, <1>5, <1>6, <1>7, <1>8, <1>9, <1>10, <1>11, <1>12, <1>13, <1>14, <1>15, <1>16, <1>17, <1>18, <1>19, <1>20, <1>21, <1>22, <1>23, <1>24, <1>25, <1>26 DEF ClientEvent

\* A step of the operation.
LEMMA ReachClient ==
    ASSUME TypeOK, Nested, CallbacksSound, NEW t \in Threads, ClientEvent(t), NEW x \in Children, Reach(x)
    PROVE  Reach(x)'
<1>0. Stacks /\ x \in Callbacks /\ x # OnStop /\ cancelled \in [Children -> BOOLEAN]
  BY Constants DEF TypeOK, Stacks
<1>1. PICK N : Changes(t, N)
  BY ClientShape DEF Within
<1>2. stack[t] # <<>> /\ Top(t).at \in ClientOnly
  BY ClientShape DEF Within
<1>3. CASE Top(t).at = "callback"
  <2>1. \/ CallbackForwards(t) \/ \E c \in Children : CallbackFinishes(t, c) \/ CallbackNotes(t, c)
    BY <1>3, CallbackCases
  <2>2. CASE CallbackForwards(t)
    <3>1. Top(t).of # x /\ cb' = cb /\ cancelled' = cancelled
      BY <1>0, <2>2 DEF CallbackForwards, Top1, Frame, SameOperation
    <3> QED
      BY <1>0, <1>1, <3>1, ReachAway
  <2>3. ASSUME NEW c \in Children, CallbackFinishes(t, c) \/ CallbackNotes(t, c) PROVE Reach(x)'
    <3>1. Top(t).of = c /\ cb' = cb /\ cancelled' = [cancelled EXCEPT ![c] = TRUE]
      BY <2>3 DEF CallbackFinishes, CallbackNotes, Top1, Frame
    <3>2. CASE x = c
      BY <1>0, <3>1, <3>2 DEF Reach
    <3>3. CASE x # c
      BY <1>0, <1>1, <3>1, <3>3, ReachAway
    <3> QED
      BY <3>2, <3>3
  <2> QED
    BY <2>1, <2>2, <2>3
<1>4. CASE Top(t).at # "callback"
  <2>1. cancelled' = cancelled /\ Top(t).at \notin ReachPoints
    BY <1>2, <1>4, ClientReach DEF ClientOnly, ReachPoints, StartPoints, ChildPoints
  <2>2. CASE cb'[x] = cb[x]
    BY <1>0, <1>1, <2>1, <2>2, ReachAway
  <2>3. CASE StartStoppable(t)
    BY <1>0, <2>2, <2>3 DEF StartStoppable, OtherCallbacks
  <2>4. ASSUME NEW c \in Children, StartAsync(t, c) PROVE Reach(x)'
    <3>1. CASE c # x
      BY <1>0, <2>2, <2>4, <3>1 DEF StartAsync, OtherCallbacks
    <3>2. CASE c = x
      <4>1. Frame("add", x) \in ReachFrames(x)
        BY <1>0, FrameIn DEF ReachFrames, ReachPoints, Points, ConstructorPoints
      <4>2. Changes(t, {Frame("hand_off", x), Frame("add", x)})
        BY <2>4, <3>2 DEF StartAsync
      <4>3. Occurs(ReachFrames(x))'
        BY <4>1, <4>2, OccursComes
      <4> QED
        BY <4>3 DEF Reach
    <3> QED
      BY <3>1, <3>2
  <2> QED
    BY <2>2, <2>3, <2>4, ClientCallbacks
<1> QED
  BY <1>3, <1>4

\* Every callback that is alive can be reached, or has been.
LEMMA ReachableStep ==
    ASSUME TypeOK, Nested, Chain, CallbacksSound, Reachable, [Next]_vars
    PROVE  Reachable'
<1> SUFFICES ASSUME NEW x \in Children PROVE Reach(x)'
  BY ReachParts
<1>0. Stacks /\ Reach(x)
  BY ReachParts DEF TypeOK, Stacks
<1>1. ASSUME Asks PROVE Reach(x)'
  <2>1. Changes(Stopper, {Frame("request_stop", Outer)}) /\ cb' = cb /\ cancelled' = cancelled
        /\ stack[Stopper] = <<>> /\ Stopper \in Threads
    BY <1>1, Constants DEF Asks, SameChild
  <2> QED
    BY <1>0, <2>1, ReachAway
<1>2. ASSUME NEW c \in Children, Works(c) PROVE Reach(x)'
  <2>1. Changes(c, {Frame("finish_child", c)}) /\ cb' = cb /\ cancelled' = cancelled
        /\ stack[c] = <<>> /\ c \in Threads
    BY <1>2, Constants DEF Works
  <2> QED
    BY <1>0, <2>1, ReachAway
<1>3. ASSUME Stutter PROVE Reach(x)'
  <2>1. cb' = cb /\ cancelled' = cancelled /\ (Occurs(ReachFrames(x))' <=> Occurs(ReachFrames(x)))
    BY <1>3, StackUnchanged DEF Stutter, SameOperation
  <2> QED
    BY <1>0, <2>1 DEF Reach
<1> HIDE DEF Reach
<1> QED
  BY <1>0, <1>1, <1>2, <1>3, ReachStop, ReachClient, NextEvents
-----------------------------------------------------------------------------
(* The life of __on_stop_.                                                  *)

OuterSound == src[Outer].notifying \in {None, Stopper}
StartCalls == FramesAt({"start"}, {OnStop})
AbandonCalls == FramesAt({"abandon"}, {OnStop})
EndCalls == FramesAt({"deliver", "abandon"}, Callbacks)
DestroyCalls == FramesAt(DestructorPoints, {OnStop})
OnStopLives ==
    /\ stoppable /\ cb[OnStop].life = "unborn" => Occurs(StartCalls)
    /\ cb[OnStop].life = "dead" => Occurs(AbandonCalls) \/ count = 0 \/ result # <<>>
    /\ stoppable /\ Occurs(EndCalls) => cb[OnStop].life = "dead" \/ Occurs(DestroyCalls)
    /\ stoppable /\ result # <<>> => cb[OnStop].life = "dead"

\* The invariant: the outer source and the callback.
LEMMA OnStopParts ==
    /\ OnStopSound <=> OuterSound /\ OnStopLives
    /\ OnStopSound' <=> OuterSound' /\ OnStopLives'
  BY DEF OnStopSound, OuterSound, OnStopLives, StartCalls, AbandonCalls, EndCalls, DestroyCalls

\* A destructor of __on_stop_ is called at the end of start() or by the last
\* child that arrives.
LEMMA DestroyedAtEnd ==
    ASSUME TypeOK, Nested, NEW u \in Threads, NEW j \in DOMAIN stack[u],
           stack[u][j].at \in DestructorPoints, stack[u][j].of = OnStop
    PROVE  /\ j - 1 \in DOMAIN stack[u]
           /\ \/ stack[u][j - 1].at = "abandon" /\ stack[u][j - 1] \in AbandonCalls
              \/ stack[u][j - 1].at = "deliver"
<1>0. Stacks
  BY DEF TypeOK, Stacks
<1> DEFINE f == stack[u][j]
<1>1. f = stack[u][j] /\ f.at \in DestructorPoints /\ f.of = OnStop
  OBVIOUS
<1> HIDE DEF f
<1>2. /\ j - 1 \in DOMAIN stack[u]
      /\ \/ /\ stack[u][j - 1].at = "complete_child" /\ stack[u][j - 1].of \in Children
            /\ f.of = stack[u][j - 1].of
         \/ stack[u][j - 1].at \in {"abandon", "deliver"} /\ f.of = OnStop
  BY <1>0, <1>1, DestructorParent
<1>3. stack[u][j - 1].at \in {"abandon", "deliver"}
  BY <1>1, <1>2, Constants
<1>4. Known(u, j - 1, stack[u][j - 1]) /\ stack[u][j - 1] \in Frames
  BY <1>0, <1>2, FrameKinds, StackShape DEF Stacks
<1>5. CASE stack[u][j - 1].at = "abandon"
  <2>1. u = Starter /\ stack[u][j - 1].of = OnStop
    BY <1>4, <1>5 DEF Known, StartPoints
  <2> QED
    BY <1>2, <1>4, <1>5, <2>1, Constants DEF AbandonCalls, FramesAt
<1>6. CASE stack[u][j - 1].at = "deliver"
  BY <1>2, <1>6
<1> QED
  BY <1>3, <1>5, <1>6

\* Only the thread that requests the receiver's stop runs __on_stop_.
LEMMA OuterStop ==
    ASSUME TypeOK, Nested, OuterSound, NEW t \in Threads, StopEvent(t)
    PROVE  OuterSound'
<1>0. Stacks /\ Outer \in Sources /\ t # None
  BY Constants DEF TypeOK, Stacks
<1>q. ASSUME src'[Outer].notifying = src[Outer].notifying PROVE OuterSound'
  BY <1>q DEF OuterSound
<1>1. ASSUME NEW s \in Sources, RequestLate(t, s) PROVE OuterSound'
  BY <1>q, <1>1 DEF RequestLate
<1>2. ASSUME NEW s \in Sources, RequestFirst(t, s) PROVE OuterSound'
  <2>1. CASE s = Outer
    <3>1. stack[t] # <<>> /\ Top(t) = Frame("request_stop", Outer)
      BY <1>2, <2>1 DEF RequestFirst, Top1
    <3>2. Known(t, Len(stack[t]), Top(t)) /\ RequestFrame(Top(t), Outer)
      BY <1>0, <3>1, TopKnown, RequestIs
    <3>3. t = Stopper
      BY <3>2 DEF Known
    <3> QED
      BY <1>2, <2>1, <3>3 DEF RequestFirst, OuterSound
  <2>2. CASE s # Outer
    BY <1>0, <1>q, <1>2, <2>2 DEF RequestFirst, OtherSources
  <2> QED
    BY <2>1, <2>2
<1>3. ASSUME NEW s \in Sources, NotifyEnd(t, s) PROVE OuterSound'
  BY <1>0, <1>q, <1>3 DEF NotifyEnd, OtherSources
<1>4. ASSUME NEW s \in Sources, NEW c \in CallbacksOf(s), NotifyOne(t, s, c) PROVE OuterSound'
  BY <1>0, <1>q, <1>4 DEF NotifyOne, OtherSources
<1>5. ASSUME NEW s \in Sources, NEW c \in CallbacksOf(s), RunOne(t, s, c) PROVE OuterSound'
  BY <1>0, <1>q, <1>5 DEF RunOne, OtherSources
<1>6. ASSUME NEW s \in Sources, NEW c \in CallbacksOf(s), RanRemoved(t, s, c) PROVE OuterSound'
  BY <1>q, <1>6 DEF RanRemoved
<1>7. ASSUME NEW s \in Sources, NEW c \in CallbacksOf(s), RanAlive(t, s, c) PROVE OuterSound'
  BY <1>q, <1>7 DEF RanAlive
<1>8. ASSUME NEW s \in Sources, NEW c \in CallbacksOf(s), LockedAgain(t, s, c) PROVE OuterSound'
  BY <1>0, <1>q, <1>8 DEF LockedAgain, OtherSources
<1>9. ASSUME NEW s \in Sources, NEW c \in CallbacksOf(s), AddLate(t, s, c) PROVE OuterSound'
  BY <1>q, <1>9 DEF AddLate
<1>10. ASSUME NEW s \in Sources, NEW c \in CallbacksOf(s), AddLocks(t, s, c) PROVE OuterSound'
  BY <1>0, <1>q, <1>10 DEF AddLocks, OtherSources
<1>11. ASSUME NEW s \in Sources, NEW c \in CallbacksOf(s), Links(t, s, c) PROVE OuterSound'
  BY <1>0, <1>q, <1>11 DEF Links, OtherSources
<1>12. ASSUME NEW s \in Sources, NEW c \in CallbacksOf(s), RemoveDetached(t, s, c) PROVE OuterSound'
  BY <1>q, <1>12 DEF RemoveDetached
<1>13. ASSUME NEW s \in Sources, NEW c \in CallbacksOf(s), RemoveLocks(t, s, c) PROVE OuterSound'
  BY <1>0, <1>q, <1>13 DEF RemoveLocks, OtherSources
<1>14. ASSUME NEW s \in Sources, NEW c \in CallbacksOf(s), UnlinkListed(t, s, c) PROVE OuterSound'
  BY <1>0, <1>q, <1>14 DEF UnlinkListed, OtherSources
<1>15. ASSUME NEW s \in Sources, NEW c \in CallbacksOf(s), UnlinkOwn(t, s, c) PROVE OuterSound'
  BY <1>0, <1>q, <1>15 DEF UnlinkOwn, OtherSources
<1>16. ASSUME NEW s \in Sources, NEW c \in CallbacksOf(s), UnlinkWaits(t, s, c) PROVE OuterSound'
  BY <1>0, <1>q, <1>16 DEF UnlinkWaits, OtherSources
<1>17. ASSUME NEW s \in Sources, NEW c \in CallbacksOf(s), AwaitEnds(t, s, c) PROVE OuterSound'
  BY <1>q, <1>17 DEF AwaitEnds
<1> HIDE DEF OuterSound
<1> QED
  BY <1>1, <1>2, <1>3, <1>4, <1>5, <1>6, <1>7, <1>8, <1>9, <1>10, <1>11, <1>12, <1>13, <1>14,
     <1>15, <1>16, <1>17 DEF StopEvent

\* A source ends a callback's life at the end of its destructor, and nowhere
\* else; a destructor that does not end goes on.
LEMMA StopLife ==
    ASSUME TypeOK, NEW t \in Threads, StopEvent(t), NEW x \in Callbacks
    PROVE  /\ \/ cb'[x].life = cb[x].life
              \/ cb'[x].life = "dead" /\ \E p \in DestructorPoints : Top1(t, p, x)
           /\ (\E p \in DestructorPoints : Top1(t, p, x)) =>
                \/ cb'[x].life = "dead"
                \/ \E q \in DestructorPoints : Changes(t, {Frame(q, x)})
<1> DEFINE P == /\ \/ cb'[x].life = cb[x].life
                   \/ cb'[x].life = "dead" /\ \E p \in DestructorPoints : Top1(t, p, x)
                /\ (\E p \in DestructorPoints : Top1(t, p, x)) =>
                     \/ cb'[x].life = "dead"
                     \/ \E q \in DestructorPoints : Changes(t, {Frame(q, x)})
<1>0. \A y \in Callbacks : cb[y] \in CallbackRecords
  BY DEF TypeOK, CallbackRecords
<1>f. \A p, y, q, z : Top1(t, p, y) /\ Top1(t, q, z) => p = q /\ y = z
  BY DEF Top1, Frame
<1>c. \A s \in Sources : \A c \in CallbacksOf(s) : c \in Callbacks
  BY Registered
<1>q. ASSUME NEW p, NEW y, Top1(t, p, y), p \notin DestructorPoints, cb'[x].life = cb[x].life
      PROVE  P
  BY <1>f, <1>q
<1>d. ASSUME NEW c \in Callbacks, NEW p \in DestructorPoints, Top1(t, p, c), OtherCallbacks(c),
             cb'[c] = [cb[c] EXCEPT !.life = "dead"]
      PROVE  P
  <2>1. CASE x = c
    <3>1. cb'[x].life = "dead"
      BY <1>0, <1>d, <2>1 DEF CallbackRecords
    <3> QED
      BY <1>d, <2>1, <3>1
  <2>2. CASE x # c
    BY <1>d, <1>f, <2>2 DEF OtherCallbacks
  <2> QED
    BY <2>1, <2>2
<1>g. ASSUME NEW c, NEW p \in DestructorPoints, NEW q \in DestructorPoints, Top1(t, p, c), cb' = cb,
             Changes(t, {Frame(q, c)})
      PROVE  P
  BY <1>f, <1>g
<1> HIDE DEF P
<1>1. ASSUME NEW s \in Sources, RequestLate(t, s) \/ RequestFirst(t, s) \/ NotifyEnd(t, s) PROVE P
  BY <1>q, <1>1 DEF RequestLate, RequestFirst, NotifyEnd, DestructorPoints
<1>2. ASSUME NEW s \in Sources, NEW c \in CallbacksOf(s), NotifyOne(t, s, c) PROVE P
  <2>1. cb'[x].life = cb[x].life
    BY <1>0, <1>c, <1>2 DEF NotifyOne, OtherCallbacks, CallbackRecords
  <2> QED
    BY <1>q, <1>2, <2>1 DEF NotifyOne, DestructorPoints
<1>3. ASSUME NEW s \in Sources, NEW c \in CallbacksOf(s), RunOne(t, s, c) PROVE P
  <2>1. cb'[x].life = cb[x].life
    BY <1>0, <1>c, <1>3 DEF RunOne, OtherCallbacks, CallbackRecords
  <2> QED
    BY <1>q, <1>3, <2>1 DEF RunOne, DestructorPoints
<1>4. ASSUME NEW s \in Sources, NEW c \in CallbacksOf(s), RanAlive(t, s, c) PROVE P
  <2>1. cb'[x].life = cb[x].life
    <3>1. cb[c] \in CallbackRecords /\ cb'[c] = [cb[c] EXCEPT !.flagged = FALSE, !.completed = TRUE]
      BY <1>0, <1>c, <1>4 DEF RanAlive
    <3>2. cb'[c].life = cb[c].life
      BY <3>1 DEF CallbackRecords
    <3> QED
      BY <1>4, <3>2 DEF RanAlive, OtherCallbacks
  <2> QED
    BY <1>q, <1>4, <2>1 DEF RanAlive, DestructorPoints
<1>5. ASSUME NEW s \in Sources, NEW c \in CallbacksOf(s), AddLate(t, s, c) PROVE P
  <2>1. cb'[x].life = cb[x].life
    BY <1>0, <1>c, <1>5 DEF AddLate, OtherCallbacks, CallbackRecords
  <2> QED
    BY <1>q, <1>5, <2>1 DEF AddLate, DestructorPoints
<1>6. ASSUME NEW s \in Sources, NEW c \in CallbacksOf(s), Links(t, s, c) PROVE P
  <2>1. cb'[x].life = cb[x].life
    BY <1>0, <1>c, <1>6 DEF Links, OtherCallbacks, CallbackRecords
  <2> QED
    BY <1>q, <1>6, <2>1 DEF Links, DestructorPoints
<1>7. ASSUME NEW s \in Sources, NEW c \in CallbacksOf(s),
             RanRemoved(t, s, c) \/ LockedAgain(t, s, c) \/ AddLocks(t, s, c)
      PROVE  P
  BY <1>q, <1>7 DEF RanRemoved, LockedAgain, AddLocks, DestructorPoints
<1>8. ASSUME NEW s \in Sources, NEW c \in CallbacksOf(s),
             \/ RemoveDetached(t, s, c) \/ UnlinkListed(t, s, c) \/ UnlinkOwn(t, s, c)
             \/ AwaitEnds(t, s, c)
      PROVE  P
  BY <1>c, <1>d, <1>8 DEF RemoveDetached, UnlinkListed, UnlinkOwn, AwaitEnds, DestructorPoints
<1>9. ASSUME NEW s \in Sources, NEW c \in CallbacksOf(s), RemoveLocks(t, s, c) \/ UnlinkWaits(t, s, c)
      PROVE  P
  BY <1>g, <1>9 DEF RemoveLocks, UnlinkWaits, DestructorPoints
<1>10. P
  BY <1>1, <1>2, <1>3, <1>4, <1>5, <1>6, <1>7, <1>8, <1>9 DEF StopEvent
<1> QED
  BY <1>10 DEF P

\* A step of a source.
LEMMA OnStopStop ==
    ASSUME TypeOK, Nested, Chain, OnStopLives, NEW t \in Threads, StopEvent(t), SameOperation
    PROVE  OnStopLives'
<1>0. Stacks /\ OnStop \in Callbacks /\ stoppable' = stoppable /\ count' = count /\ result' = result
  BY Constants DEF TypeOK, Stacks, SameOperation
<1>1. Leaves(t, StartCalls) /\ Leaves(t, AbandonCalls) /\ Leaves(t, EndCalls)
  <2>1. Within(t, StopOnly \ {"callback"}, StopOnly \ {"add", "remove", "request_stop"})
    BY StopShape
  <2> DEFINE A == StopOnly \ {"callback"}
             B == StopOnly \ {"add", "remove", "request_stop"}
             P == {"start", "abandon", "deliver"}
  <2>a. A \intersect P = {} /\ B \intersect P = {}
    BY DEF StopOnly
  <2> HIDE DEF A, B, P
  <2>b. Within(t, A, B)
    BY <2>1 DEF A, B
  <2>c. ASSUME NEW S, \A f \in S : f.at \in P PROVE Leaves(t, S)
    BY <2>a, <2>b, <2>c, WithinLeaves
  <2>2. \A S : (\A f \in S : f.at \in {"start", "abandon", "deliver"}) => Leaves(t, S)
    BY <2>c DEF P
  <2>3. /\ \A f \in StartCalls : f.at \in {"start", "abandon", "deliver"}
        /\ \A f \in AbandonCalls : f.at \in {"start", "abandon", "deliver"}
        /\ \A f \in EndCalls : f.at \in {"start", "abandon", "deliver"}
    BY DEF StartCalls, AbandonCalls, EndCalls, FramesAt
  <2> QED
    BY <2>2, <2>3
<1>2. /\ Occurs(StartCalls)' <=> Occurs(StartCalls)
      /\ Occurs(AbandonCalls)' <=> Occurs(AbandonCalls)
      /\ Occurs(EndCalls)' <=> Occurs(EndCalls)
  BY <1>0, <1>1, LeavesKept
<1>3. /\ \/ cb'[OnStop].life = cb[OnStop].life
         \/ cb'[OnStop].life = "dead" /\ \E p \in DestructorPoints : Top1(t, p, OnStop)
      /\ (\E p \in DestructorPoints : Top1(t, p, OnStop)) =>
           \/ cb'[OnStop].life = "dead"
           \/ \E q \in DestructorPoints : Changes(t, {Frame(q, OnStop)})
  BY <1>0, StopLife
<1>4. cb[OnStop].life = "dead" => cb'[OnStop].life = "dead"
  BY <1>3
<1>5. cb'[OnStop].life = "unborn" => cb[OnStop].life = "unborn"
  BY <1>3
<1>6. ASSUME cb'[OnStop].life = "dead", cb[OnStop].life # "dead" PROVE Occurs(AbandonCalls) \/ count = 0
  <2>1. PICK p \in DestructorPoints : Top1(t, p, OnStop)
    BY <1>3, <1>6
  <2>2. Len(stack[t]) \in DOMAIN stack[t] /\ stack[t][Len(stack[t])].at \in DestructorPoints
        /\ stack[t][Len(stack[t])].of = OnStop
    BY <1>0, <2>1, StackShape DEF Top1, Top, Stacks, Frame
  <2>3. /\ Len(stack[t]) - 1 \in DOMAIN stack[t]
        /\ \/ stack[t][Len(stack[t]) - 1] \in AbandonCalls
           \/ stack[t][Len(stack[t]) - 1].at = "deliver"
    BY <2>2, DestroyedAtEnd
  <2>4. ChainFrameSound(stack[t][Len(stack[t]) - 1])
    BY <2>3 DEF Chain
  <2> QED
    BY <2>3, <2>4 DEF ChainFrameSound, Occurs
<1>7. ASSUME Occurs(DestroyCalls) PROVE cb'[OnStop].life = "dead" \/ Occurs(DestroyCalls)'
  <2>1. PICK N : Changes(t, N)
    BY StopShape DEF Within
  <2>2. CASE stack[t] # <<>> /\ Top(t) \in DestroyCalls
    <3>1. \E p \in DestructorPoints : Top1(t, p, OnStop)
      <4>1. Top(t).at \in DestructorPoints /\ Top(t).of = OnStop /\ Top(t) \in Frames
        BY <2>2 DEF DestroyCalls, FramesAt
      <4>2. Top(t) = Frame(Top(t).at, Top(t).of)
        BY <4>1 DEF Frames, Frame
      <4> QED
        BY <2>2, <4>1, <4>2 DEF Top1
    <3>2. \A q \in DestructorPoints : Frame(q, OnStop) \in DestroyCalls
      BY <1>0, FrameIn DEF DestroyCalls, Points
    <3> QED
      BY <1>3, <3>1, <3>2, OccursComes
  <2>3. CASE ~(stack[t] # <<>> /\ Top(t) \in DestroyCalls)
    BY <1>0, <1>7, <2>1, <2>3, OccursStays
  <2> QED
    BY <2>2, <2>3
<1> QED
  BY <1>0, <1>2, <1>4, <1>5, <1>6, <1>7 DEF OnStopLives

\* A step that neither begins nor ends the operation.
LEMMA OnStopKept ==
    ASSUME Stacks, OnStopLives, NEW t \in Threads, NEW N, Changes(t, N), cb'[OnStop] = cb[OnStop],
           stoppable' = stoppable,
           stack[t] # <<>> => Top(t).at \notin {"start", "abandon"} \union DestructorPoints,
           \A f \in N : f.at \notin {"deliver", "abandon"}, result' = result, count = 0 => count' = 0
    PROVE  OnStopLives'
<1>1. stack[t] # <<>> => Top(t) \notin StartCalls /\ Top(t) \notin AbandonCalls /\ Top(t) \notin DestroyCalls
  BY DEF StartCalls, AbandonCalls, DestroyCalls, FramesAt
<1>2. /\ Occurs(StartCalls) => Occurs(StartCalls)'
      /\ Occurs(AbandonCalls) => Occurs(AbandonCalls)'
      /\ Occurs(DestroyCalls) => Occurs(DestroyCalls)'
  BY <1>1, OccursStays
<1>3. \A f \in N : f \notin EndCalls
  BY DEF EndCalls, FramesAt
<1>4. Occurs(EndCalls)' => Occurs(EndCalls)
  BY <1>3, OccursWas
<1> QED
  BY <1>2, <1>4 DEF OnStopLives

\* At the end nobody is still destroying __on_stop_: it is dead.
LEMMA EndsDead ==
    ASSUME TypeOK, Nested, Chain, StartOrder, OnStopLives, stoppable, NEW t \in Threads, NEW c,
           NEW p \in {"deliver", "abandon"}, Top1(t, p, c)
    PROVE  cb[OnStop].life = "dead"
<1>0. Stacks
  BY DEF TypeOK, Stacks
<1>1. stack[t] # <<>> /\ Len(stack[t]) \in DOMAIN stack[t] /\ stack[t][Len(stack[t])] = Top(t) /\ Top(t).at = p
      /\ Top(t) \in Frames /\ Known(t, Len(stack[t]), Top(t)) /\ Len(stack[t]) \in Nat
      /\ DOMAIN stack[t] = 1 .. Len(stack[t])
  BY <1>0, StackShape, TopKnown DEF Top1, Top, Frame, Stacks
<1>2. Occurs(EndCalls)
  <2>1. Top(t).of \in Callbacks
    BY <1>1, Constants DEF Known, ChainPoints, ChildPoints
  <2> QED
    BY <1>1, <2>1 DEF Occurs, EndCalls, FramesAt
<1>3. ASSUME Occurs(DestroyCalls) PROVE FALSE
  <2>a. PICK u \in Threads : \E j \in DOMAIN stack[u] : stack[u][j] \in DestroyCalls
    BY <1>3 DEF Occurs
  <2>b. PICK j \in DOMAIN stack[u] : stack[u][j] \in DestroyCalls
    BY <2>a
  <2>1. stack[u][j].at \in DestructorPoints /\ stack[u][j].of = OnStop
    BY <2>b DEF DestroyCalls, FramesAt
  <2>2. j - 1 \in DOMAIN stack[u] /\ stack[u][j - 1].at \in {"abandon", "deliver"}
    BY <2>1, DestroyedAtEnd
  <2>3. u = t /\ j - 1 = Len(stack[t])
    <3>1. CASE p = "abandon" \/ stack[u][j - 1].at = "abandon"
      <4>1. "deliver" \in ChainPoints
        BY DEF ChainPoints, ChildPoints
      <4> QED
        BY <1>0, <1>1, <2>2, <3>1, <4>1, BeforeBegun
    <3>2. CASE p = "deliver" /\ stack[u][j - 1].at = "deliver"
      BY <1>0, <1>1, <2>2, <3>2, SameDeliver
    <3> QED
      BY <2>2, <3>1, <3>2
  <2> QED
    BY <1>1, <2>3
<1> QED
  BY <1>2, <1>3 DEF OnStopLives

\* The receiver is completed.
LEMMA OnStopEnds ==
    ASSUME TypeOK, Nested, Chain, StartOrder, OnStopLives, NEW t \in Threads, NEW c,
           NEW p \in {"deliver", "abandon"}, Top1(t, p, c), Changes(t, {}), NEW r,
           r \in {"set_value", "set_error", "set_stopped"}, result' = Append(result, r),
           cb' = cb, stoppable' = stoppable
    PROVE  OnStopLives'
<1>0. Stacks /\ result \in Seq({"set_value", "set_error", "set_stopped"})
  BY DEF TypeOK, Stacks
<1>1. stoppable => cb[OnStop].life = "dead"
  BY EndsDead
<1>2. Append(result, r) # <<>>
  BY <1>0
<1> QED
  BY <1>1, <1>2 DEF OnStopLives

\* A step of the operation.
LEMMA OnStopClient ==
    ASSUME IInv, OnStopLives, NEW t \in Threads, ClientEvent(t)
    PROVE  OnStopLives'
<1>0. /\ Stacks /\ stoppable' = stoppable /\ OnStop \in Callbacks
      /\ TypeOK /\ Nested /\ Chain /\ StartOrder /\ Counted /\ EndSound /\ CallbacksSound
      /\ state \in {"started", "error", "stopped"} /\ count \in Nat
  BY ClientShape, Constants DEF IInv, TypeOK, Stacks, SameConfig
<1>f. \A p, x : Frame(p, x).at = p /\ Frame(p, x).of = x
  BY DEF Frame
<1>k. ASSUME NEW p, NEW x, Top1(t, p, x), p \notin {"start", "abandon"} \union DestructorPoints,
             NEW N, Changes(t, N), cb'[OnStop] = cb[OnStop],
             \A f \in N : f.at \notin {"deliver", "abandon"}, result' = result, count = 0 => count' = 0
      PROVE  OnStopLives'
  <2>1. stack[t] # <<>> /\ Top(t).at = p
    BY <1>f, <1>k DEF Top1
  <2> QED
    BY <1>0, <1>k, <2>1, OnStopKept
<1>1. ASSUME CheckGoes(t) PROVE OnStopLives'
  <2>1. Top1(t, "check", OnStop) /\ Changes(t, {Frame("start_child", ChildOrder[1])})
    BY <1>1 DEF CheckGoes
  <2>2. cb'[OnStop] = cb[OnStop] /\ result' = result /\ (count = 0 => count' = 0)
    BY <1>0, <1>1 DEF CheckGoes, SameOperation, SameOp, SameHistory
  <2>3. \A f \in {Frame("start_child", ChildOrder[1])} : f.at \notin {"deliver", "abandon"}
    BY <1>f
  <2>4. "check" \notin {"start", "abandon"} \union DestructorPoints
    BY DEF DestructorPoints
  <2> QED
    BY <1>k, <2>1, <2>2, <2>3, <2>4
<1>2. ASSUME CallbackForwards(t) PROVE OnStopLives'
  <2>1. Top1(t, "callback", OnStop) /\ Changes(t, {Frame("request_stop", Inner)})
    BY <1>2 DEF CallbackForwards
  <2>2. cb'[OnStop] = cb[OnStop] /\ result' = result /\ (count = 0 => count' = 0)
    BY <1>0, <1>2 DEF CallbackForwards, SameOperation, SameOp, SameHistory
  <2>3. \A f \in {Frame("request_stop", Inner)} : f.at \notin {"deliver", "abandon"}
    BY <1>f
  <2>4. "callback" \notin {"start", "abandon"} \union DestructorPoints
    BY DEF DestructorPoints
  <2> QED
    BY <1>k, <2>1, <2>2, <2>3, <2>4
<1>3. ASSUME NEW c \in Children, StartAsync(t, c) PROVE OnStopLives'
  <2>1. Top1(t, "start_child", c) /\ Changes(t, {Frame("hand_off", c), Frame("add", c)})
    BY <1>3 DEF StartAsync
  <2>2. cb'[OnStop] = cb[OnStop] /\ result' = result /\ (count = 0 => count' = 0)
    BY <1>0, <1>3, Constants DEF StartAsync, SameOperation, SameOp, SameHistory, OtherCallbacks
  <2>3. \A f \in {Frame("hand_off", c), Frame("add", c)} : f.at \notin {"deliver", "abandon"}
    BY <1>f
  <2>4. "start_child" \notin {"start", "abandon"} \union DestructorPoints
    BY DEF DestructorPoints
  <2> QED
    BY <1>k, <2>1, <2>2, <2>3, <2>4
<1>4. ASSUME NEW c \in Children, HandEager(t, c) PROVE OnStopLives'
  <2>1. Top1(t, "hand_off", c) /\ Changes(t, {Frame("started", c), Frame("finish_child", c)})
    BY <1>4 DEF HandEager
  <2>2. cb'[OnStop] = cb[OnStop] /\ result' = result /\ (count = 0 => count' = 0)
    BY <1>0, <1>4 DEF HandEager, SameOperation, SameOp, SameHistory
  <2>3. \A f \in {Frame("started", c), Frame("finish_child", c)} : f.at \notin {"deliver", "abandon"}
    BY <1>f
  <2>4. "hand_off" \notin {"start", "abandon"} \union DestructorPoints
    BY DEF DestructorPoints
  <2> QED
    BY <1>k, <2>1, <2>2, <2>3, <2>4
<1>5. ASSUME NEW c \in Children, HandOver(t, c) PROVE OnStopLives'
  <2>1. Top1(t, "hand_off", c) /\ Changes(t, {Frame("started", c)})
    BY <1>5 DEF HandOver
  <2>2. cb'[OnStop] = cb[OnStop] /\ result' = result /\ (count = 0 => count' = 0)
    BY <1>0, <1>5 DEF HandOver, SameOperation, SameOp, SameHistory
  <2>3. \A f \in {Frame("started", c)} : f.at \notin {"deliver", "abandon"}
    BY <1>f
  <2>4. "hand_off" \notin {"start", "abandon"} \union DestructorPoints
    BY DEF DestructorPoints
  <2> QED
    BY <1>k, <2>1, <2>2, <2>3, <2>4
<1>6. ASSUME NEW c \in Children, NextEnds(t, c) PROVE OnStopLives'
  <2>1. Top1(t, "started", c) /\ Changes(t, {})
    BY <1>6 DEF NextEnds
  <2>2. cb'[OnStop] = cb[OnStop] /\ result' = result /\ (count = 0 => count' = 0)
    BY <1>0, <1>6 DEF NextEnds, SameOperation, SameOp, SameHistory
  <2>3. \A f \in {} : f.at \notin {"deliver", "abandon"}
    BY <1>f
  <2>4. "started" \notin {"start", "abandon"} \union DestructorPoints
    BY DEF DestructorPoints
  <2> QED
    BY <1>k, <2>1, <2>2, <2>3, <2>4
<1>7. ASSUME NEW c \in Children, NEW i \in DOMAIN ChildOrder, NextStarts(t, c, i) PROVE OnStopLives'
  <2>1. Top1(t, "started", c) /\ Changes(t, {Frame("start_child", ChildOrder[i + 1])})
    BY <1>7 DEF NextStarts
  <2>2. cb'[OnStop] = cb[OnStop] /\ result' = result /\ (count = 0 => count' = 0)
    BY <1>0, <1>7 DEF NextStarts, SameOperation, SameOp, SameHistory
  <2>3. \A f \in {Frame("start_child", ChildOrder[i + 1])} : f.at \notin {"deliver", "abandon"}
    BY <1>f
  <2>4. "started" \notin {"start", "abandon"} \union DestructorPoints
    BY DEF DestructorPoints
  <2> QED
    BY <1>k, <2>1, <2>2, <2>3, <2>4
<1>8. ASSUME NEW c \in Children, CallbackFinishes(t, c) PROVE OnStopLives'
  <2>1. Top1(t, "callback", c) /\ Changes(t, {Frame("finish_child", c)})
    BY <1>8 DEF CallbackFinishes
  <2>2. cb'[OnStop] = cb[OnStop] /\ result' = result /\ (count = 0 => count' = 0)
    BY <1>0, <1>8 DEF CallbackFinishes, SameOperation, SameOp, SameHistory
  <2>3. \A f \in {Frame("finish_child", c)} : f.at \notin {"deliver", "abandon"}
    BY <1>f
  <2>4. "callback" \notin {"start", "abandon"} \union DestructorPoints
    BY DEF DestructorPoints
  <2> QED
    BY <1>k, <2>1, <2>2, <2>3, <2>4
<1>9. ASSUME NEW c \in Children, CallbackNotes(t, c) PROVE OnStopLives'
  <2>1. Top1(t, "callback", c) /\ Changes(t, {})
    BY <1>9 DEF CallbackNotes
  <2>2. cb'[OnStop] = cb[OnStop] /\ result' = result /\ (count = 0 => count' = 0)
    BY <1>0, <1>9 DEF CallbackNotes, SameOperation, SameOp, SameHistory
  <2>3. \A f \in {} : f.at \notin {"deliver", "abandon"}
    BY <1>f
  <2>4. "callback" \notin {"start", "abandon"} \union DestructorPoints
    BY DEF DestructorPoints
  <2> QED
    BY <1>k, <2>1, <2>2, <2>3, <2>4
<1>10. ASSUME NEW c \in Children, Finishes(t, c) PROVE OnStopLives'
  <2>1. Top1(t, "finish_child", c) /\ Changes(t, {Frame("complete_child", c), Frame("remove", c)})
    BY <1>10 DEF Finishes
  <2>2. cb'[OnStop] = cb[OnStop] /\ result' = result /\ (count = 0 => count' = 0)
    BY <1>0, <1>10 DEF Finishes, SameOperation, SameOp, SameHistory
  <2>3. \A f \in {Frame("complete_child", c), Frame("remove", c)} : f.at \notin {"deliver", "abandon"}
    BY <1>f
  <2>4. "finish_child" \notin {"start", "abandon"} \union DestructorPoints
    BY DEF DestructorPoints
  <2> QED
    BY <1>k, <2>1, <2>2, <2>3, <2>4
<1>11. ASSUME NEW c \in Children, SetsValue(t, c) PROVE OnStopLives'
  <2>1. Top1(t, "set_value", c) /\ Changes(t, {Frame("arrive", c)})
    BY <1>11 DEF SetsValue
  <2>2. cb'[OnStop] = cb[OnStop] /\ result' = result /\ (count = 0 => count' = 0)
    BY <1>0, <1>11 DEF SetsValue, SameOperation, SameOp, SameHistory
  <2>3. \A f \in {Frame("arrive", c)} : f.at \notin {"deliver", "abandon"}
    BY <1>f
  <2>4. "set_value" \notin {"start", "abandon"} \union DestructorPoints
    BY DEF DestructorPoints
  <2> QED
    BY <1>k, <2>1, <2>2, <2>3, <2>4
<1>12. ASSUME NEW c \in Children, ValueThrows(t, c) PROVE OnStopLives'
  <2>1. Top1(t, "set_value", c) /\ Changes(t, {Frame("set_error", c)})
    BY <1>12 DEF ValueThrows
  <2>2. cb'[OnStop] = cb[OnStop] /\ result' = result /\ (count = 0 => count' = 0)
    BY <1>0, <1>12 DEF ValueThrows, SameOperation, SameOp, SameHistory
  <2>3. \A f \in {Frame("set_error", c)} : f.at \notin {"deliver", "abandon"}
    BY <1>f
  <2>4. "set_value" \notin {"start", "abandon"} \union DestructorPoints
    BY DEF DestructorPoints
  <2> QED
    BY <1>k, <2>1, <2>2, <2>3, <2>4
<1>13. ASSUME NEW c \in Children, ErrorLate(t, c) PROVE OnStopLives'
  <2>1. Top1(t, "set_error", c) /\ Changes(t, {Frame("arrive", c)})
    BY <1>13 DEF ErrorLate
  <2>2. cb'[OnStop] = cb[OnStop] /\ result' = result /\ (count = 0 => count' = 0)
    BY <1>0, <1>13 DEF ErrorLate, SameOperation, SameOp, SameHistory
  <2>3. \A f \in {Frame("arrive", c)} : f.at \notin {"deliver", "abandon"}
    BY <1>f
  <2>4. "set_error" \notin {"start", "abandon"} \union DestructorPoints
    BY DEF DestructorPoints
  <2> QED
    BY <1>k, <2>1, <2>2, <2>3, <2>4
<1>14. ASSUME NEW c \in Children, ErrorFirst(t, c) PROVE OnStopLives'
  <2>1. Top1(t, "set_error", c) /\ Changes(t, {Frame("emplace", c), Frame("request_stop", Inner)})
    BY <1>14 DEF ErrorFirst
  <2>2. cb'[OnStop] = cb[OnStop] /\ result' = result /\ (count = 0 => count' = 0)
    BY <1>0, <1>14 DEF ErrorFirst, SameOperation, SameOp, SameHistory
  <2>3. \A f \in {Frame("emplace", c), Frame("request_stop", Inner)} : f.at \notin {"deliver", "abandon"}
    BY <1>f
  <2>4. "set_error" \notin {"start", "abandon"} \union DestructorPoints
    BY DEF DestructorPoints
  <2> QED
    BY <1>k, <2>1, <2>2, <2>3, <2>4
<1>15. ASSUME NEW c \in Children, Emplaces(t, c) PROVE OnStopLives'
  <2>1. Top1(t, "emplace", c) /\ Changes(t, {Frame("arrive", c)})
    BY <1>15 DEF Emplaces
  <2>2. cb'[OnStop] = cb[OnStop] /\ result' = result /\ (count = 0 => count' = 0)
    BY <1>0, <1>15 DEF Emplaces, SameOperation, SameOp, SameHistory
  <2>3. \A f \in {Frame("arrive", c)} : f.at \notin {"deliver", "abandon"}
    BY <1>f
  <2>4. "emplace" \notin {"start", "abandon"} \union DestructorPoints
    BY DEF DestructorPoints
  <2> QED
    BY <1>k, <2>1, <2>2, <2>3, <2>4
<1>16. ASSUME NEW c \in Children, StoppedFirst(t, c) PROVE OnStopLives'
  <2>1. Top1(t, "set_stopped", c) /\ Changes(t, {Frame("arrive", c), Frame("request_stop", Inner)})
    BY <1>16 DEF StoppedFirst
  <2>2. cb'[OnStop] = cb[OnStop] /\ result' = result /\ (count = 0 => count' = 0)
    BY <1>0, <1>16 DEF StoppedFirst, SameOperation, SameOp, SameHistory
  <2>3. \A f \in {Frame("arrive", c), Frame("request_stop", Inner)} : f.at \notin {"deliver", "abandon"}
    BY <1>f
  <2>4. "set_stopped" \notin {"start", "abandon"} \union DestructorPoints
    BY DEF DestructorPoints
  <2> QED
    BY <1>k, <2>1, <2>2, <2>3, <2>4
<1>17. ASSUME NEW c \in Children, StoppedLate(t, c) PROVE OnStopLives'
  <2>1. Top1(t, "set_stopped", c) /\ Changes(t, {Frame("arrive", c)})
    BY <1>17 DEF StoppedLate
  <2>2. cb'[OnStop] = cb[OnStop] /\ result' = result /\ (count = 0 => count' = 0)
    BY <1>0, <1>17 DEF StoppedLate, SameOperation, SameOp, SameHistory
  <2>3. \A f \in {Frame("arrive", c)} : f.at \notin {"deliver", "abandon"}
    BY <1>f
  <2>4. "set_stopped" \notin {"start", "abandon"} \union DestructorPoints
    BY DEF DestructorPoints
  <2> QED
    BY <1>k, <2>1, <2>2, <2>3, <2>4
<1>18. ASSUME NEW c \in Children, ArrivesEarly(t, c) PROVE OnStopLives'
  <2>1. Top1(t, "arrive", c) /\ Changes(t, {})
    BY <1>18 DEF ArrivesEarly
  <2>2. cb'[OnStop] = cb[OnStop] /\ result' = result /\ (count = 0 => count' = 0)
    BY <1>0, <1>18 DEF ArrivesEarly, SameOperation, SameOp, SameHistory
  <2>3. \A f \in {} : f.at \notin {"deliver", "abandon"}
    BY <1>f
  <2>4. "arrive" \notin {"start", "abandon"} \union DestructorPoints
    BY DEF DestructorPoints
  <2> QED
    BY <1>k, <2>1, <2>2, <2>3, <2>4
<1>19. ASSUME NEW c \in Children, NEW signal \in Signals, StartInline(t, c, signal) PROVE OnStopLives'
  <2>1. Top1(t, "start_child", c) /\ Changes(t, {Frame("started", c), Frame(signal, c)})
    BY <1>19 DEF StartInline
  <2>2. cb'[OnStop] = cb[OnStop] /\ result' = result /\ (count = 0 => count' = 0)
    BY <1>0, <1>19 DEF StartInline, SameOperation, SameOp, SameHistory
  <2>3. \A f \in {Frame("started", c), Frame(signal, c)} : f.at \notin {"deliver", "abandon"}
    BY <1>f DEF Signals
  <2>4. "start_child" \notin {"start", "abandon"} \union DestructorPoints
    BY DEF DestructorPoints
  <2> QED
    BY <1>k, <2>1, <2>2, <2>3, <2>4
<1>20. ASSUME NEW c \in Children, NEW signal \in Signals, CompletesChild(t, c, signal) PROVE OnStopLives'
  <2>1. Top1(t, "complete_child", c) /\ Changes(t, {Frame(signal, c)})
    BY <1>20 DEF CompletesChild
  <2>2. cb'[OnStop] = cb[OnStop] /\ result' = result /\ (count = 0 => count' = 0)
    BY <1>0, <1>20 DEF CompletesChild, SameOperation, SameOp, SameHistory
  <2>3. \A f \in {Frame(signal, c)} : f.at \notin {"deliver", "abandon"}
    BY <1>f DEF Signals
  <2>4. "complete_child" \notin {"start", "abandon"} \union DestructorPoints
    BY DEF DestructorPoints
  <2> QED
    BY <1>k, <2>1, <2>2, <2>3, <2>4
<1>21. ASSUME StartStoppable(t) PROVE OnStopLives'
  <2>1. /\ Top1(t, "start", OnStop) /\ Changes(t, {Frame("check", OnStop), Frame("add", OnStop)})
        /\ result' = result /\ cb'[OnStop].life = "alive"
    BY <1>21, BornFields DEF StartStoppable, SameOperation
  <2>2. Len(stack[t]) \in DOMAIN stack[t] /\ stack[t][Len(stack[t])].at = "start"
    BY <1>0, <1>f, <2>1, StackShape DEF Top1, Top, Stacks
  <2>3. /\ result = <<>>
        /\ \A v \in Threads : \A i \in DOMAIN stack[v] : stack[v][i].at \notin {"deliver", "abandon"}
    <3>1. "deliver" \in ChainPoints
      BY DEF ChainPoints, ChildPoints
    <3>2. /\ result = <<>>
          /\ \A v \in Threads : \A i \in DOMAIN stack[v] :
               /\ stack[v][i].at \notin ChainPoints
               /\ stack[v][i].at \in {"start", "check", "abandon"} => v = t /\ i = Len(stack[t])
      BY <1>0, <2>2, BeforeBegun
    <3> QED
      BY <2>2, <3>1, <3>2
  <2>4. ~Occurs(EndCalls)'
    <3>1. ~Occurs(EndCalls)
      BY <2>3 DEF Occurs, EndCalls, FramesAt
    <3>2. \A f \in {Frame("check", OnStop), Frame("add", OnStop)} : f \notin EndCalls
      BY <1>f DEF EndCalls, FramesAt
    <3> QED
      BY <1>0, <2>1, <3>1, <3>2, OccursWas
  <2> QED
    BY <2>1, <2>3, <2>4 DEF OnStopLives
<1>22. ASSUME StartNever(t) PROVE OnStopLives'
  <2>1. /\ Top1(t, "start", OnStop) /\ Changes(t, {Frame("check", OnStop)}) /\ ~stoppable
        /\ cb' = cb /\ result' = result /\ count' = count
    BY <1>22 DEF StartNever, SameOperation
  <2>2. Top(t) \notin AbandonCalls
    BY <1>f, <2>1 DEF Top1, AbandonCalls, FramesAt
  <2>3. Occurs(AbandonCalls) => Occurs(AbandonCalls)'
    BY <1>0, <2>1, <2>2, OccursStays
  <2> QED
    BY <1>0, <2>1, <2>3 DEF OnStopLives
<1>d. \A f : f = Frame("remove", OnStop) => f \in DestroyCalls
  BY FrameIn, Constants, StopPoints DEF DestroyCalls, DestructorPoints
<1>23. ASSUME CheckStops(t) PROVE OnStopLives'
  <2>1. /\ Top1(t, "check", OnStop) /\ Changes(t, {Frame("abandon", OnStop), Frame("remove", OnStop)})
        /\ cb' = cb /\ result' = result /\ count' = count
    BY <1>23 DEF CheckStops, SameOperation
  <2>2. Top(t) \notin AbandonCalls /\ Top(t) \notin StartCalls
    BY <1>f, <2>1 DEF Top1, AbandonCalls, StartCalls, FramesAt
  <2>3. (Occurs(AbandonCalls) => Occurs(AbandonCalls)') /\ (Occurs(StartCalls) => Occurs(StartCalls)')
    BY <1>0, <2>1, <2>2, OccursStays
  <2>4. Occurs(DestroyCalls)'
    BY <1>d, <2>1, OccursComes
  <2> QED
    BY <1>0, <2>1, <2>3, <2>4 DEF OnStopLives
<1>24. ASSUME NEW c \in Children, ArrivesLastStoppable(t, c) \/ ArrivesLast(t, c) PROVE OnStopLives'
  <2>1. Top1(t, "arrive", c) /\ cb' = cb /\ result' = result
    BY <1>24 DEF ArrivesLastStoppable, ArrivesLast, SameHistory
  <2>2. PICK N : Changes(t, N) /\ (stoppable => Frame("remove", OnStop) \in N)
    BY <1>24 DEF ArrivesLastStoppable, ArrivesLast
  <2>3. Top(t) \notin AbandonCalls /\ Top(t) \notin StartCalls
    BY <1>f, <2>1 DEF Top1, AbandonCalls, StartCalls, FramesAt
  <2>4. (Occurs(AbandonCalls) => Occurs(AbandonCalls)') /\ (Occurs(StartCalls) => Occurs(StartCalls)')
    BY <1>0, <2>2, <2>3, OccursStays
  <2>5. stoppable => Occurs(DestroyCalls)'
    BY <1>d, <2>2, OccursComes
  <2>6. count # 0
    BY <1>0, <2>1, ArrivingOpen
  <2> QED
    BY <1>0, <2>1, <2>4, <2>5, <2>6 DEF OnStopLives
<1>25. ASSUME Abandons(t) PROVE OnStopLives'
  <2>1. Top1(t, "abandon", OnStop) /\ Changes(t, {}) /\ cb' = cb /\ result' = Append(result, "set_stopped")
    BY <1>25 DEF Abandons
  <2> QED
    BY <1>0, <2>1, OnStopEnds
<1>26. ASSUME NEW c \in Children, Delivers(t, c) PROVE OnStopLives'
  <2>1. Top1(t, "deliver", c) /\ Changes(t, {}) /\ cb' = cb /\ result' = Append(result, Outcome)
    BY <1>26 DEF Delivers
  <2>2. Outcome \in {"set_value", "set_error", "set_stopped"}
    BY <1>0 DEF Outcome
  <2> HIDE DEF Outcome
  <2> QED
    BY <1>0, <2>1, <2>2, OnStopEnds
<1> HIDE DEF OnStopLives
<1> QED
  BY <1>1, <1>2, <1>3, <1>4, <1>5, <1>6, <1>7, <1>8, <1>9, <1>10, <1>11, <1>12, <1>13, <1>14, <1>15, <1>16, <1>17, <1>18, <1>19, <1>20, <1>21, <1>22, <1>23, <1>24, <1>25, <1>26 DEF ClientEvent

\* __on_stop_ lives from start() to the end.
LEMMA OnStopStep ==
    ASSUME IInv, [Next]_vars
    PROVE  OnStopSound'
<1>0. /\ Stacks /\ TypeOK /\ Nested /\ Chain /\ OuterSound /\ OnStopLives
  BY OnStopParts DEF IInv, TypeOK, Stacks
<1>1. ASSUME NEW t \in Threads, StopEvent(t), SameOperation PROVE OuterSound' /\ OnStopLives'
  BY <1>0, <1>1, OuterStop, OnStopStop
<1>2. ASSUME src' = src PROVE OuterSound'
  BY <1>0, <1>2 DEF OuterSound
<1>3. ASSUME NEW t \in Threads, ClientEvent(t) PROVE OuterSound' /\ OnStopLives'
  BY <1>0, <1>2, <1>3, ClientShape, OnStopClient
<1>4. ASSUME Asks PROVE OuterSound' /\ OnStopLives'
  <2>1. Changes(Stopper, {Frame("request_stop", Outer)}) /\ cb' = cb /\ src' = src /\ stack[Stopper] = <<>>
        /\ stoppable' = stoppable /\ count' = count /\ result' = result /\ Stopper \in Threads
    BY <1>4, Constants DEF Asks, SameConfig, SameOp, SameHistory
  <2>2. \A f \in {Frame("request_stop", Outer)} : f.at \notin {"deliver", "abandon"}
    BY DEF Frame
  <2> QED
    BY <1>0, <1>2, <2>1, <2>2, OnStopKept
<1>5. ASSUME NEW c \in Children, Works(c) PROVE OuterSound' /\ OnStopLives'
  <2>1. Changes(c, {Frame("finish_child", c)}) /\ cb' = cb /\ src' = src /\ stack[c] = <<>>
        /\ stoppable' = stoppable /\ count' = count /\ result' = result /\ c \in Threads
    BY <1>5, Constants DEF Works, SameConfig, SameOp, SameHistory
  <2>2. \A f \in {Frame("finish_child", c)} : f.at \notin {"deliver", "abandon"}
    BY DEF Frame
  <2> QED
    BY <1>0, <1>2, <2>1, <2>2, OnStopKept
<1>6. ASSUME Stutter PROVE OuterSound' /\ OnStopLives'
  <2>1. cb' = cb /\ src' = src /\ stoppable' = stoppable /\ count' = count /\ result' = result
        /\ stack' = stack
    BY <1>6 DEF Stutter, SameOperation
  <2>2. /\ Occurs(StartCalls)' <=> Occurs(StartCalls)
        /\ Occurs(AbandonCalls)' <=> Occurs(AbandonCalls)
        /\ Occurs(EndCalls)' <=> Occurs(EndCalls)
        /\ Occurs(DestroyCalls)' <=> Occurs(DestroyCalls)
    BY <2>1, StackUnchanged
  <2> QED
    BY <1>0, <1>2, <2>1, <2>2 DEF OnStopLives
<1> HIDE DEF OnStopLives, OuterSound
<1>7. OuterSound' /\ OnStopLives'
  BY <1>0, <1>1, <1>3, <1>4, <1>5, <1>6, NextEvents
<1> QED
  BY <1>7, OnStopParts
-----------------------------------------------------------------------------
(* The end of the children's callbacks.                                     *)

\* The four ways a callback's life ends.
Destroys(t, s, c) ==
    RemoveDetached(t, s, c) \/ UnlinkListed(t, s, c) \/ UnlinkOwn(t, s, c) \/ AwaitEnds(t, s, c)

LEMMA StopDeath ==
    ASSUME TypeOK, NEW t \in Threads, StopEvent(t), NEW x \in Callbacks
    PROVE  cb'[x].life = cb[x].life \/ \E s \in Sources : x \in CallbacksOf(s) /\ Destroys(t, s, x)
<1> DEFINE P == cb'[x].life = cb[x].life \/ \E s \in Sources : x \in CallbacksOf(s) /\ Destroys(t, s, x)
<1>0. \A y \in Callbacks : cb[y] \in CallbackRecords
  BY DEF TypeOK, CallbackRecords
<1>c. \A s \in Sources : \A c \in CallbacksOf(s) : c \in Callbacks
  BY Registered
<1>q. ASSUME cb'[x].life = cb[x].life PROVE P
  BY <1>q
<1>d. ASSUME NEW s \in Sources, NEW c \in CallbacksOf(s), Destroys(t, s, c) PROVE P
  <2>1. OtherCallbacks(c)
    BY <1>d DEF Destroys, RemoveDetached, UnlinkListed, UnlinkOwn, AwaitEnds
  <2>2. CASE x # c
    BY <2>1, <2>2 DEF OtherCallbacks
  <2>3. CASE x = c
    BY <1>d, <2>3
  <2> QED
    BY <2>2, <2>3
<1> HIDE DEF P
<1>1. ASSUME NEW s \in Sources, RequestLate(t, s) \/ RequestFirst(t, s) \/ NotifyEnd(t, s) PROVE P
  BY <1>q, <1>1 DEF RequestLate, RequestFirst, NotifyEnd
<1>2. ASSUME NEW s \in Sources, NEW c \in CallbacksOf(s), NotifyOne(t, s, c) PROVE P
  BY <1>0, <1>c, <1>q, <1>2 DEF NotifyOne, OtherCallbacks, CallbackRecords
<1>3. ASSUME NEW s \in Sources, NEW c \in CallbacksOf(s), RunOne(t, s, c) PROVE P
  BY <1>0, <1>c, <1>q, <1>3 DEF RunOne, OtherCallbacks, CallbackRecords
<1>4. ASSUME NEW s \in Sources, NEW c \in CallbacksOf(s), RanAlive(t, s, c) PROVE P
  <2>1. cb[c] \in CallbackRecords /\ cb'[c] = [cb[c] EXCEPT !.flagged = FALSE, !.completed = TRUE]
    BY <1>0, <1>c, <1>4 DEF RanAlive
  <2>2. cb'[c].life = cb[c].life
    BY <2>1 DEF CallbackRecords
  <2> QED
    BY <1>q, <1>4, <2>2 DEF RanAlive, OtherCallbacks
<1>5. ASSUME NEW s \in Sources, NEW c \in CallbacksOf(s), AddLate(t, s, c) PROVE P
  BY <1>0, <1>c, <1>q, <1>5 DEF AddLate, OtherCallbacks, CallbackRecords
<1>6. ASSUME NEW s \in Sources, NEW c \in CallbacksOf(s), Links(t, s, c) PROVE P
  BY <1>0, <1>c, <1>q, <1>6 DEF Links, OtherCallbacks, CallbackRecords
<1>7. ASSUME NEW s \in Sources, NEW c \in CallbacksOf(s),
             \/ RanRemoved(t, s, c) \/ LockedAgain(t, s, c) \/ AddLocks(t, s, c)
             \/ RemoveLocks(t, s, c) \/ UnlinkWaits(t, s, c)
      PROVE  P
  BY <1>q, <1>7 DEF RanRemoved, LockedAgain, AddLocks, RemoveLocks, UnlinkWaits
<1>8. ASSUME NEW s \in Sources, NEW c \in CallbacksOf(s),
             \/ RemoveDetached(t, s, c) \/ UnlinkListed(t, s, c) \/ UnlinkOwn(t, s, c)
             \/ AwaitEnds(t, s, c)
      PROVE  P
  BY <1>d, <1>8 DEF Destroys
<1>9. P
  BY <1>1, <1>2, <1>3, <1>4, <1>5, <1>6, <1>7, <1>8 DEF StopEvent
<1> QED
  BY <1>9 DEF P

\* A child's callback is executed by its constructor or by request_stop.
LEMMA ExecutionParent ==
    ASSUME Stacks, Nested, NEW u \in Threads, NEW j \in DOMAIN stack[u],
           stack[u][j].at = "callback", stack[u][j].of \in Children
    PROVE  /\ j - 1 \in DOMAIN stack[u] /\ stack[u][j - 1].of = stack[u][j].of
           /\ stack[u][j - 1].at \in {"hand_off", "ran"}
<1> DEFINE f == stack[u][j]
           g == stack[u][j - 1]
<1>1. j \in Nat \ {0} /\ DOMAIN stack[u] = 1 .. Len(stack[u]) /\ Len(stack[u]) \in Nat
  BY StackShape DEF Stacks
<1>2. f.at = "callback" /\ f.of \in Children /\ f.of # OnStop
  BY Constants
<1>3. f.at \notin ConstructorPoints /\ f.at \notin DestructorPoints /\ f.at \notin ChildPoints
  BY <1>2 DEF ConstructorPoints, DestructorPoints, ChildPoints
<1>4. ~ChildFrame(f) /\ \A s \in Sources : ~RequestFrame(f, s)
  BY <1>2, <1>3 DEF ChildFrame, RequestFrame
<1>5. j # 1
  <2>1. j = 1 => Outermost(u, f)
    BY DEF Nested, NestedFrames
  <2>2. ~RequestFrame(f, Outer)
    BY <1>4, Constants
  <2> QED
    BY <1>2, <1>4, <2>1, <2>2 DEF Outermost
<1>6. j - 1 \in DOMAIN stack[u] /\ CalledFrom(f, g)
  <2>1. j - 1 \in DOMAIN stack[u]
    BY <1>1, <1>5
  <2>2. IF j = 1 THEN Outermost(u, stack[u][j]) ELSE CalledFrom(stack[u][j], stack[u][j - 1])
    BY DEF Nested, NestedFrames
  <2> QED
    BY <1>5, <2>1, <2>2
<1> HIDE DEF f, g
<1>7. g.of = f.of /\ g.at \in {"hand_off", "ran"}
  BY <1>2, <1>3, <1>4, <1>6, Constants DEF CalledFrom
<1> QED
  BY <1>6, <1>7 DEF f, g

\* While a child's callback is executed nobody ends its life: a destructor
\* waits for a run on another thread, and one on the same thread is called by
\* the callback's end.
LEMMA ExecutedLives ==
    ASSUME TypeOK, Nested, Chain, Notifying, CallbacksSound, NEW c \in Children, NEW t \in Threads,
           NEW s \in Sources, c \in CallbacksOf(s), Destroys(t, s, c)
    PROVE  ~Occurs(ExecutingCalls(c))
<1> SUFFICES ASSUME NEW u \in Threads, NEW j \in DOMAIN stack[u], stack[u][j] \in ExecutingCalls(c)
             PROVE  FALSE
  BY DEF Occurs
<1>0. Stacks /\ s = Inner /\ c \in CallbacksOf(Inner) /\ c # OnStop
  BY Constants, Registered DEF TypeOK, Stacks, CallbacksOf
<1>1. stack[u][j].at = "callback" /\ stack[u][j].of = c
  BY DEF ExecutingCalls, FramesAt
<1>2. /\ j - 1 \in DOMAIN stack[u] /\ stack[u][j - 1].of = c
      /\ stack[u][j - 1].at \in {"hand_off", "ran"}
  BY <1>0, <1>1, ExecutionParent
<1>3. PICK p \in DestructorPoints : Top1(t, p, c)
  BY DEF Destroys, RemoveDetached, UnlinkListed, UnlinkOwn, AwaitEnds, DestructorPoints
<1> DEFINE n == Len(stack[t])
<1>4. n \in DOMAIN stack[t] /\ stack[t][n].at \in DestructorPoints /\ stack[t][n].of = c
  BY <1>0, <1>3, StackShape DEF Top1, Top, Stacks, Frame
<1>5. n - 1 \in DOMAIN stack[t] /\ stack[t][n - 1].at = "complete_child" /\ stack[t][n - 1].of = c
  BY <1>0, <1>4, DestructorParent
<1>6. stack[u][j - 1].at # "hand_off"
  <2>1. "hand_off" \in ChainPoints /\ "complete_child" \in ChainPoints
    BY DEF ChainPoints, ChildPoints
  <2> QED
    BY <1>0, <1>2, <1>5, <2>1, SameChain
<1>7. stack[u][j - 1].at = "ran" /\ stack[u][j - 1] \in Frames
  BY <1>0, <1>2, <1>6, StackShape DEF Stacks
<1>8. cb[c].attached /\ ~cb[c].linked /\ ~cb[c].completed
  BY <1>2, <1>7 DEF CallbacksSound, CallbackFrameSound
<1>9. UnlinkOwn(t, s, c)
  BY <1>8 DEF Destroys, RemoveDetached, UnlinkListed, AwaitEnds
<1>10. src[Inner].notifying = u
  <2>1. stack[u][j - 1] \in NotifyFrames(Inner)
    BY <1>0, <1>2, <1>7 DEF NotifyFrames, FramesAt
  <2>2. Notified(Inner)
    BY Constants DEF Notifying
  <2> QED
    BY <1>2, <2>1, <2>2 DEF Notified
<1>11. u = t
  BY <1>0, <1>9, <1>10 DEF UnlinkOwn
<1>12. j = n
  BY <1>0, <1>1, <1>11, Innermost
<1> QED
  BY <1>1, <1>4, <1>11, <1>12 DEF DestructorPoints

\* A step of a source.
LEMMA ChildStop ==
    ASSUME IInv, NEW t \in Threads, StopEvent(t), SameOperation, NEW c \in Children, ChildSound(c)
    PROVE  ChildSound(c)'
<1>0. /\ Stacks /\ TypeOK /\ Nested /\ Chain /\ Notifying /\ CallbacksSound /\ c \in Callbacks
      /\ sent' = sent /\ cb[c] \in CallbackRecords
  BY Constants DEF IInv, TypeOK, Stacks, SameOperation, CallbackRecords
<1>f. \A p, y : Frame(p, y).at = p /\ Frame(p, y).of = y
  BY DEF Frame
<1>1. /\ Occurs(CompletingCalls(c))' <=> Occurs(CompletingCalls(c))
      /\ Occurs(SignalCalls(c))' <=> Occurs(SignalCalls(c))
  <2> DEFINE A == StopOnly \ {"callback"}
             B == StopOnly \ {"add", "remove", "request_stop"}
             P == Signals \union {"complete_child"}
  <2>1. Within(t, A, B)
    BY StopShape
  <2>2. A \intersect P = {} /\ B \intersect P = {}
    BY DEF StopOnly, Signals
  <2>3. (\A f \in CompletingCalls(c) : f.at \in P) /\ \A f \in SignalCalls(c) : f.at \in P
    BY DEF CompletingCalls, SignalCalls, FramesAt
  <2> HIDE DEF A, B, P
  <2>4. Leaves(t, CompletingCalls(c)) /\ Leaves(t, SignalCalls(c))
    BY <2>1, <2>2, <2>3, WithinLeaves
  <2> QED
    BY <1>0, <2>4, LeavesKept
<1>2. /\ \/ cb'[c].life = cb[c].life
         \/ cb'[c].life = "dead" /\ \E p \in DestructorPoints : Top1(t, p, c)
      /\ (\E p \in DestructorPoints : Top1(t, p, c)) =>
           \/ cb'[c].life = "dead"
           \/ \E q \in DestructorPoints : Changes(t, {Frame(q, c)})
  BY <1>0, StopLife
<1>3. ASSUME Occurs(EndingCalls(c)) PROVE cb'[c].life = "dead" \/ Occurs(EndingCalls(c))'
  <2>1. PICK N : Changes(t, N)
    BY StopShape DEF Within
  <2>2. CASE stack[t] # <<>> /\ Top(t) \in EndingCalls(c)
    <3>1. Top(t).at \in DestructorPoints /\ Top(t).of = c /\ Top(t) \in Frames
      BY <2>2 DEF EndingCalls, FramesAt
    <3>2. Top(t) = Frame(Top(t).at, Top(t).of)
      BY <3>1 DEF Frames, Frame
    <3>3. \E p \in DestructorPoints : Top1(t, p, c)
      BY <2>2, <3>1, <3>2 DEF Top1
    <3>4. \A q \in DestructorPoints : Frame(q, c) \in EndingCalls(c)
      BY <1>0, FrameIn DEF EndingCalls, Points
    <3> QED
      BY <1>2, <3>3, <3>4, OccursComes
  <2>3. CASE ~(stack[t] # <<>> /\ Top(t) \in EndingCalls(c))
    BY <1>0, <1>3, <2>1, <2>3, OccursStays
  <2> QED
    BY <2>2, <2>3
<1>4. ASSUME Occurs(ExecutingCalls(c)) PROVE cb'[c].life = "alive"
  <2>1. cb[c].life = "alive"
    BY <1>4 DEF ChildSound
  <2>2. cb'[c].life = cb[c].life
    BY <1>0, <1>4, StopDeath, ExecutedLives
  <2> QED
    BY <2>1, <2>2
<1> DEFINE P == Occurs(ExecutingCalls(c))' => cb'[c].life = "alive"
<1>k. ASSUME NEW N, Changes(t, N), \A f \in N : f.at # "callback" PROVE P
  <2>1. \A f \in N : f \notin ExecutingCalls(c)
    BY <1>k DEF ExecutingCalls, FramesAt
  <2> QED
    BY <1>0, <1>4, <1>k, <2>1, OccursWas
<1>n. ASSUME NEW x, x # c, NEW N, Changes(t, N), \A f \in N : f.of = x PROVE P
  <2>1. \A f \in N : f \notin ExecutingCalls(c)
    BY <1>n DEF ExecutingCalls, FramesAt
  <2> QED
    BY <1>0, <1>4, <1>n, <2>1, OccursWas
<1>5. ASSUME NEW s \in Sources, NEW x \in CallbacksOf(s), RunOne(t, s, x) PROVE P
  <2>1. CASE x = c
    <3>1. CallbackFrameSound(Frame("run", c))
      BY <1>0, <1>5, <2>1, TopSound DEF RunOne
    <3>2. cb[c].life = "alive"
      BY <1>f, <3>1 DEF CallbackFrameSound
    <3> QED
      BY <1>0, <1>5, <2>1, <3>2 DEF RunOne, CallbackRecords
  <2>2. CASE x # c
    BY <1>f, <1>n, <1>5, <2>2 DEF RunOne
  <2> QED
    BY <2>1, <2>2
<1>6. ASSUME NEW s \in Sources, NEW x \in CallbacksOf(s), AddLate(t, s, x) PROVE P
  <2>1. CASE x = c
    <3>1. CallbackFrameSound(Frame("add", c))
      BY <1>0, <1>6, <2>1, TopSound DEF AddLate
    <3>2. cb[c] = Born
      BY <1>f, <3>1 DEF CallbackFrameSound, ConstructorPoints
    <3>3. cb[c].life = "alive"
      BY <3>2, BornFields
    <3> QED
      BY <1>0, <1>6, <2>1, <3>3 DEF AddLate, CallbackRecords
  <2>2. CASE x # c
    <3>1. Changes(t, {Frame("callback", x)}) /\ \A f \in {Frame("callback", x)} : f.of = x
      BY <1>f, <1>6 DEF AddLate
    <3> QED
      BY <1>n, <2>2, <3>1
  <2> QED
    BY <2>1, <2>2
<1> HIDE DEF P
<1>7. ASSUME NEW s \in Sources, RequestLate(t, s) \/ RequestFirst(t, s) \/ NotifyEnd(t, s) PROVE P
  BY <1>f, <1>k, <1>7 DEF RequestLate, RequestFirst, NotifyEnd
<1>8. ASSUME NEW s \in Sources, NEW x \in CallbacksOf(s),
             \/ NotifyOne(t, s, x) \/ RanRemoved(t, s, x) \/ RanAlive(t, s, x)
             \/ LockedAgain(t, s, x) \/ AddLocks(t, s, x) \/ Links(t, s, x)
      PROVE  P
  BY <1>f, <1>k, <1>8 DEF NotifyOne, RanRemoved, RanAlive, LockedAgain, AddLocks, Links
<1>9. ASSUME NEW s \in Sources, NEW x \in CallbacksOf(s),
             \/ RemoveDetached(t, s, x) \/ RemoveLocks(t, s, x) \/ UnlinkListed(t, s, x)
             \/ UnlinkOwn(t, s, x) \/ UnlinkWaits(t, s, x) \/ AwaitEnds(t, s, x)
      PROVE  P
  BY <1>f, <1>k, <1>9
  DEF RemoveDetached, RemoveLocks, UnlinkListed, UnlinkOwn, UnlinkWaits, AwaitEnds
<1>10. P
  BY <1>5, <1>6, <1>7, <1>8, <1>9 DEF StopEvent
<1>11. /\ cb[c].life = "dead" => cb'[c].life = "dead"
       /\ cb'[c].life = "alive" => cb[c].life = "alive"
  BY <1>2
<1> QED
  BY <1>0, <1>1, <1>3, <1>10, <1>11 DEF ChildSound, P

\* The signals of the children: who begins to complete a child, and who sends
\* its signal.
Sends(c) == sent[c] # None \/ Occurs(SignalCalls(c))
LEMMA ClientSignals ==
    ASSUME TypeOK, NEW t \in Threads, ClientEvent(t), NEW c \in Children
    PROVE  /\ Occurs(CompletingCalls(c))' => Occurs(CompletingCalls(c)) \/ Finishes(t, c)
           /\ Sends(c)' => \/ Sends(c)
                           \/ \E signal \in Signals : StartInline(t, c, signal) \/ CompletesChild(t, c, signal)
<1> DEFINE P == /\ Occurs(CompletingCalls(c))' => Occurs(CompletingCalls(c)) \/ Finishes(t, c)
                /\ Sends(c)' => \/ Sends(c)
                                \/ \E signal \in Signals :
                                     StartInline(t, c, signal) \/ CompletesChild(t, c, signal)
<1>0. Stacks /\ sent \in [Children -> {None, "set_value", "set_error", "set_stopped"}]
  BY DEF TypeOK, Stacks
<1>f. \A p, y : Frame(p, y).at = p /\ Frame(p, y).of = y
  BY DEF Frame
<1>s. \A p : p \in Signals <=> p = "set_value" \/ p = "set_error" \/ p = "set_stopped"
  BY DEF Signals
<1>k. ASSUME NEW N, Changes(t, N), \A f \in N : f.at \notin Signals /\ f.at # "complete_child", sent' = sent
      PROVE  P
  <2>1. \A f \in N : f \notin CompletingCalls(c) /\ f \notin SignalCalls(c)
    BY <1>k DEF CompletingCalls, SignalCalls, FramesAt
  <2> QED
    BY <1>0, <1>k, <2>1, OccursWas DEF Sends
<1>o. ASSUME NEW d, d # c, NEW N, Changes(t, N), \A f \in N : f.of = d \/ f.at = "request_stop",
             sent'[c] = sent[c]
      PROVE  P
  <2>1. \A f \in N : f \notin CompletingCalls(c) /\ f \notin SignalCalls(c)
    BY <1>o, <1>s DEF CompletingCalls, SignalCalls, FramesAt
  <2> QED
    BY <1>0, <1>o, <2>1, OccursWas DEF Sends
<1>g. ASSUME NEW p \in Signals, Top1(t, p, c), NEW N, Changes(t, N), \A f \in N : f.at # "complete_child"
      PROVE  P
  <2>1. \A f \in N : f \notin CompletingCalls(c)
    BY <1>g DEF CompletingCalls, FramesAt
  <2>2. stack[t] # <<>> /\ Len(stack[t]) \in DOMAIN stack[t] /\ stack[t][Len(stack[t])] \in SignalCalls(c)
    BY <1>0, <1>f, <1>g, StackShape DEF Top1, Top, Stacks, SignalCalls, FramesAt
  <2>3. Sends(c)
    BY <2>2 DEF Sends, Occurs
  <2> QED
    BY <1>0, <1>g, <2>1, <2>3, OccursWas
<1> HIDE DEF P
<1>1. ASSUME StartStoppable(t) PROVE P
  BY <1>f, <1>k, <1>s, <1>1 DEF StartStoppable, SameOperation
<1>2. ASSUME StartNever(t) PROVE P
  BY <1>f, <1>k, <1>s, <1>2 DEF StartNever, SameOperation
<1>3. ASSUME CheckStops(t) PROVE P
  BY <1>f, <1>k, <1>s, <1>3 DEF CheckStops, SameOperation
<1>4. ASSUME CheckGoes(t) PROVE P
  BY <1>f, <1>k, <1>s, <1>4 DEF CheckGoes, SameOperation
<1>5. ASSUME Abandons(t) PROVE P
  BY <1>f, <1>k, <1>s, <1>5 DEF Abandons
<1>6. ASSUME CallbackForwards(t) PROVE P
  BY <1>f, <1>k, <1>s, <1>6 DEF CallbackForwards, SameOperation
<1>7. ASSUME NEW d \in Children, StartAsync(t, d) PROVE P
  BY <1>f, <1>k, <1>s, <1>7 DEF StartAsync, SameOperation
<1>8. ASSUME NEW d \in Children, HandEager(t, d) PROVE P
  BY <1>f, <1>k, <1>s, <1>8 DEF HandEager, SameHistory
<1>9. ASSUME NEW d \in Children, HandOver(t, d) PROVE P
  BY <1>f, <1>k, <1>s, <1>9 DEF HandOver, SameHistory
<1>10. ASSUME NEW d \in Children, NextEnds(t, d) PROVE P
  BY <1>f, <1>k, <1>s, <1>10 DEF NextEnds, SameOperation
<1>11. ASSUME NEW d \in Children, CallbackFinishes(t, d) PROVE P
  BY <1>f, <1>k, <1>s, <1>11 DEF CallbackFinishes, SameHistory
<1>12. ASSUME NEW d \in Children, CallbackNotes(t, d) PROVE P
  BY <1>f, <1>k, <1>s, <1>12 DEF CallbackNotes, SameHistory
<1>13. ASSUME NEW d \in Children, Emplaces(t, d) PROVE P
  BY <1>f, <1>k, <1>s, <1>13 DEF Emplaces, SameHistory
<1>14. ASSUME NEW d \in Children, ArrivesEarly(t, d) PROVE P
  BY <1>f, <1>k, <1>s, <1>14 DEF ArrivesEarly, SameHistory
<1>15. ASSUME NEW d \in Children, ArrivesLastStoppable(t, d) PROVE P
  BY <1>f, <1>k, <1>s, <1>15 DEF ArrivesLastStoppable, SameHistory
<1>16. ASSUME NEW d \in Children, ArrivesLast(t, d) PROVE P
  BY <1>f, <1>k, <1>s, <1>16 DEF ArrivesLast, SameHistory
<1>17. ASSUME NEW d \in Children, Delivers(t, d) PROVE P
  BY <1>f, <1>k, <1>s, <1>17 DEF Delivers
<1>18. ASSUME NEW d \in Children, NEW i \in DOMAIN ChildOrder, NextStarts(t, d, i) PROVE P
  BY <1>f, <1>k, <1>s, <1>18 DEF NextStarts, SameOperation
<1>19. ASSUME NEW d \in Children, SetsValue(t, d) PROVE P
  <2>1. CASE d = c
    BY <1>f, <1>g, <1>s, <1>19, <2>1 DEF SetsValue
  <2>2. CASE d # c
    BY <1>0, <1>f, <1>o, <1>19, <2>2 DEF SetsValue
  <2> QED
    BY <2>1, <2>2
<1>20. ASSUME NEW d \in Children, ErrorLate(t, d) PROVE P
  <2>1. CASE d = c
    BY <1>f, <1>g, <1>s, <1>20, <2>1 DEF ErrorLate
  <2>2. CASE d # c
    BY <1>0, <1>f, <1>o, <1>20, <2>2 DEF ErrorLate
  <2> QED
    BY <2>1, <2>2
<1>21. ASSUME NEW d \in Children, ErrorFirst(t, d) PROVE P
  <2>1. CASE d = c
    BY <1>f, <1>g, <1>s, <1>21, <2>1 DEF ErrorFirst
  <2>2. CASE d # c
    BY <1>0, <1>f, <1>o, <1>21, <2>2 DEF ErrorFirst
  <2> QED
    BY <2>1, <2>2
<1>22. ASSUME NEW d \in Children, StoppedFirst(t, d) PROVE P
  <2>1. CASE d = c
    BY <1>f, <1>g, <1>s, <1>22, <2>1 DEF StoppedFirst
  <2>2. CASE d # c
    BY <1>0, <1>f, <1>o, <1>22, <2>2 DEF StoppedFirst
  <2> QED
    BY <2>1, <2>2
<1>23. ASSUME NEW d \in Children, StoppedLate(t, d) PROVE P
  <2>1. CASE d = c
    BY <1>f, <1>g, <1>s, <1>23, <2>1 DEF StoppedLate
  <2>2. CASE d # c
    BY <1>0, <1>f, <1>o, <1>23, <2>2 DEF StoppedLate
  <2> QED
    BY <2>1, <2>2
<1>24. ASSUME NEW d \in Children, ValueThrows(t, d) PROVE P
  <2>1. CASE d = c
    <3>1. Top1(t, "set_value", c) /\ Changes(t, {Frame("set_error", c)})
      BY <1>24, <2>1 DEF ValueThrows
    <3>2. "set_value" \in Signals /\ \A f \in {Frame("set_error", c)} : f.at # "complete_child"
      BY <1>f, <1>s
    <3> QED
      BY <1>g, <3>1, <3>2
  <2>2. CASE d # c
    <3>1. Changes(t, {Frame("set_error", d)}) /\ sent' = sent
      BY <1>24 DEF ValueThrows, SameOperation
    <3>2. \A f \in {Frame("set_error", d)} : f.of = d
      BY <1>f
    <3> QED
      BY <1>o, <2>2, <3>1, <3>2
  <2> QED
    BY <2>1, <2>2
<1>25. ASSUME NEW d \in Children, Finishes(t, d) PROVE P
  <2>1. CASE d # c
    BY <1>f, <1>o, <1>25, <2>1 DEF Finishes, SameOperation
  <2>2. CASE d = c
    <3>1. Changes(t, {Frame("complete_child", c), Frame("remove", c)}) /\ sent' = sent
      BY <1>25, <2>2 DEF Finishes, SameOperation
    <3>2. \A f \in {Frame("complete_child", c), Frame("remove", c)} : f \notin SignalCalls(c)
      BY <1>f, <1>s DEF SignalCalls, FramesAt
    <3>3. Sends(c)' => Sends(c)
      BY <1>0, <3>1, <3>2, OccursWas DEF Sends
    <3> QED
      BY <1>25, <2>2, <3>3 DEF P
  <2> QED
    BY <2>1, <2>2
<1>26. ASSUME NEW d \in Children, NEW signal \in Signals, StartInline(t, d, signal) PROVE P
  <2>1. CASE d # c
    BY <1>f, <1>o, <1>26, <2>1 DEF StartInline, SameOperation
  <2>2. CASE d = c
    <3>1. Changes(t, {Frame("started", c), Frame(signal, c)})
      BY <1>26, <2>2 DEF StartInline
    <3>2. \A f \in {Frame("started", c), Frame(signal, c)} : f \notin CompletingCalls(c)
      BY <1>f, <1>s DEF CompletingCalls, FramesAt
    <3>3. Occurs(CompletingCalls(c))' => Occurs(CompletingCalls(c))
      BY <1>0, <3>1, <3>2, OccursWas
    <3> QED
      BY <1>26, <2>2, <3>3 DEF P
  <2> QED
    BY <2>1, <2>2
<1>27. ASSUME NEW d \in Children, NEW signal \in Signals, CompletesChild(t, d, signal) PROVE P
  <2>1. CASE d # c
    BY <1>f, <1>o, <1>27, <2>1 DEF CompletesChild, SameOperation
  <2>2. CASE d = c
    <3>1. Changes(t, {Frame(signal, c)})
      BY <1>27, <2>2 DEF CompletesChild
    <3>2. \A f \in {Frame(signal, c)} : f \notin CompletingCalls(c)
      BY <1>f, <1>s DEF CompletingCalls, FramesAt
    <3>3. Occurs(CompletingCalls(c))' => Occurs(CompletingCalls(c))
      BY <1>0, <3>1, <3>2, OccursWas
    <3> QED
      BY <1>27, <2>2, <3>3 DEF P
  <2> QED
    BY <2>1, <2>2
<1>28. P
  BY <1>1, <1>2, <1>3, <1>4, <1>5, <1>6, <1>7, <1>8, <1>9, <1>10, <1>11, <1>12, <1>13, <1>14, <1>15, <1>16, <1>17, <1>18, <1>19, <1>20, <1>21, <1>22, <1>23, <1>24, <1>25, <1>26, <1>27 DEF ClientEvent
<1> QED
  BY <1>28 DEF P

\* A child that begins to send its signal has no live callback: an inline
\* child never constructed one, the others have destroyed it.
LEMMA SendsDead ==
    ASSUME TypeOK, Nested, Chain, CallbacksSound, NEW t \in Threads, NEW c \in Children, ChildSound(c),
           NEW signal, StartInline(t, c, signal) \/ CompletesChild(t, c, signal)
    PROVE  cb[c].life # "alive"
<1>0. Stacks /\ c # OnStop
  BY Constants DEF TypeOK, Stacks
<1>f. \A p, y : Frame(p, y).at = p /\ Frame(p, y).of = y
  BY DEF Frame
<1>1. CASE StartInline(t, c, signal)
  <2>1. CallbackFrameSound(Frame("start_child", c))
    BY <1>0, <1>1, TopSound DEF StartInline
  <2> QED
    BY <1>f, <2>1 DEF CallbackFrameSound, Unborn
<1>2. CASE CompletesChild(t, c, signal)
  <2> DEFINE n == Len(stack[t])
  <2>1. n \in DOMAIN stack[t] /\ stack[t][n].at = "complete_child" /\ stack[t][n].of = c
        /\ stack[t][n] \in Frames /\ n \in Nat /\ DOMAIN stack[t] = 1 .. n
    BY <1>0, <1>2, <1>f, StackShape DEF CompletesChild, Top1, Top, Stacks
  <2>2. Occurs(CompletingCalls(c))
    BY <2>1 DEF Occurs, CompletingCalls, FramesAt
  <2>3. ASSUME Occurs(EndingCalls(c)) PROVE FALSE
    <3>1. PICK u \in Threads : \E j \in DOMAIN stack[u] : stack[u][j] \in EndingCalls(c)
      BY <2>3 DEF Occurs
    <3>2. PICK j \in DOMAIN stack[u] : stack[u][j] \in EndingCalls(c)
      BY <3>1
    <3>3. stack[u][j].at \in DestructorPoints /\ stack[u][j].of = c
      BY <3>2 DEF EndingCalls, FramesAt
    <3>4. j - 1 \in DOMAIN stack[u] /\ stack[u][j - 1].at = "complete_child" /\ stack[u][j - 1].of = c
      BY <1>0, <3>3, DestructorParent
    <3>5. "complete_child" \in ChainPoints
      BY DEF ChainPoints, ChildPoints
    <3>6. u = t /\ j - 1 = n
      BY <1>0, <2>1, <3>4, <3>5, SameChain
    <3> QED
      BY <2>1, <3>6
  <2> QED
    BY <2>2, <2>3 DEF ChildSound
<1> QED
  BY <1>1, <1>2

\* A step of the operation.
LEMMA ChildClient ==
    ASSUME IInv, NEW t \in Threads, ClientEvent(t), NEW c \in Children, ChildSound(c)
    PROVE  ChildSound(c)'
<1>0. Stacks /\ TypeOK /\ Nested /\ Chain /\ CallbacksSound /\ c \in Callbacks /\ c # OnStop
  BY Constants DEF IInv, TypeOK, Stacks
<1>f. \A p, y : Frame(p, y).at = p /\ Frame(p, y).of = y
  BY DEF Frame
<1>1. PICK N : Changes(t, N) /\ \A f \in N : f.at \in ClientNext
  BY ClientShape DEF Within
<1>2. stack[t] # <<>> /\ Top(t).at \in ClientOnly
  BY ClientShape DEF Within
<1>3. cb'[c] = cb[c] \/ StartAsync(t, c)
  BY <1>0, ClientCallbacks DEF StartStoppable, StartAsync, OtherCallbacks
<1>4. StartAsync(t, c) => cb[c] = Unborn /\ ~Sends(c)
  <2> SUFFICES ASSUME StartAsync(t, c) PROVE cb[c] = Unborn /\ ~Sends(c)
    OBVIOUS
  <2>1. cb[c] = Unborn
    BY <1>0, NewCallback
  <2>2. Top1(t, "start_child", c) /\ ChainFrameSound(Frame("start_child", c))
    BY <1>0, ChainTop DEF StartAsync
  <2>3. "start_child" \in ChainPoints /\ Signals \subseteq ChainPoints /\ "start_child" \notin Signals
    BY DEF ChainPoints, ChildPoints, Signals
  <2>4. sent[c] = None
    BY <1>f, <2>2, <2>3 DEF ChainFrameSound
  <2>5. ASSUME NEW u \in Threads, NEW j \in DOMAIN stack[u], stack[u][j] \in SignalCalls(c) PROVE FALSE
    <3>1. stack[u][j].at \in Signals /\ stack[u][j].of = c
      BY <2>5 DEF SignalCalls, FramesAt
    <3>2. Len(stack[t]) \in DOMAIN stack[t] /\ stack[t][Len(stack[t])] = Frame("start_child", c)
      BY <1>0, <2>2, StackShape DEF Top1, Top, Stacks
    <3>3. u = t /\ j = Len(stack[t])
      BY <1>0, <1>f, <2>3, <3>1, <3>2, SameChain
    <3> QED
      BY <1>f, <2>3, <3>1, <3>2, <3>3
  <2> QED
    BY <2>1, <2>4, <2>5 DEF Sends, Occurs
<1>5. Unborn.life = "unborn"
  BY DEF Unborn
<1>6. cb[c].life \in {"alive", "dead"} => cb'[c] = cb[c]
  BY <1>3, <1>4, <1>5
<1>7. Occurs(ExecutingCalls(c))' => cb'[c].life = "alive"
  <2>1. \A f \in N : f \notin ExecutingCalls(c)
    BY <1>1 DEF ExecutingCalls, FramesAt, ClientNext, StartPoints, ChildPoints
  <2>2. Occurs(ExecutingCalls(c))' => Occurs(ExecutingCalls(c))
    BY <1>0, <1>1, <2>1, OccursWas
  <2> QED
    BY <1>6, <2>2 DEF ChildSound
<1>8. Occurs(CompletingCalls(c))' => cb'[c].life = "dead" \/ Occurs(EndingCalls(c))'
  <2>1. CASE Finishes(t, c)
    <3>0. "remove" \in Points /\ "remove" \in DestructorPoints /\ c \in Sources \union Callbacks
      BY <1>0, StopPoints DEF DestructorPoints
    <3>1. Frame("remove", c) \in EndingCalls(c)
      BY <3>0, FrameIn DEF EndingCalls
    <3>2. Changes(t, {Frame("complete_child", c), Frame("remove", c)})
      BY <2>1 DEF Finishes
    <3> QED
      BY <3>1, <3>2, OccursComes
  <2>2. CASE Occurs(CompletingCalls(c))
    <3>1. Top(t) \notin EndingCalls(c)
      BY <1>2 DEF EndingCalls, FramesAt, ClientOnly, StartPoints, ChildPoints, DestructorPoints
    <3>2. Occurs(EndingCalls(c)) => Occurs(EndingCalls(c))'
      BY <1>0, <1>1, <3>1, OccursStays
    <3> QED
      BY <1>6, <2>2, <3>2 DEF ChildSound
  <2> QED
    BY <1>0, <2>1, <2>2, ClientSignals
<1>9. Sends(c)' => cb'[c].life # "alive"
  <2>1. CASE Sends(c)
    BY <1>3, <1>4, <2>1 DEF ChildSound, Sends
  <2>2. ASSUME NEW signal \in Signals, StartInline(t, c, signal) \/ CompletesChild(t, c, signal)
        PROVE  cb'[c].life # "alive"
    BY <1>0, <2>2, SendsDead DEF StartInline, CompletesChild
  <2> QED
    BY <1>0, <2>1, <2>2, ClientSignals
<1> QED
  BY <1>7, <1>8, <1>9 DEF ChildSound, Sends

\* Every step keeps what is known of the children's callbacks.
LEMMA ChildrenStep ==
    ASSUME IInv, [Next]_vars
    PROVE  ChildrenSound'
<1> SUFFICES ASSUME NEW c \in Children PROVE ChildSound(c)'
  BY DEF ChildrenSound
<1>0. Stacks /\ TypeOK /\ Nested /\ Chain /\ ChildSound(c)
  BY DEF IInv, TypeOK, Stacks, ChildrenSound
<1>k. ASSUME NEW t \in Threads, stack[t] = <<>>, NEW p \in {"request_stop", "finish_child"}, NEW x,
             Changes(t, {Frame(p, x)}), cb' = cb, sent' = sent
      PROVE  ChildSound(c)'
  <2>1. \A f \in {Frame(p, x)} : f \notin CompletingCalls(c) /\ f \notin SignalCalls(c)
                                 /\ f \notin ExecutingCalls(c)
    BY DEF Frame, CompletingCalls, SignalCalls, ExecutingCalls, FramesAt, Signals
  <2>2. /\ Occurs(CompletingCalls(c))' => Occurs(CompletingCalls(c))
        /\ Occurs(SignalCalls(c))' => Occurs(SignalCalls(c))
        /\ Occurs(ExecutingCalls(c))' => Occurs(ExecutingCalls(c))
        /\ Occurs(EndingCalls(c)) => Occurs(EndingCalls(c))'
    BY <1>0, <1>k, <2>1, OccursWas, OccursStays
  <2> QED
    BY <1>0, <1>k, <2>2 DEF ChildSound
<1>1. ASSUME Asks PROVE ChildSound(c)'
  BY <1>k, <1>1, Constants DEF Asks, SameHistory
<1>2. ASSUME NEW d \in Children, Works(d) PROVE ChildSound(c)'
  BY <1>k, <1>2, Constants DEF Works, SameHistory
<1>3. ASSUME Stutter PROVE ChildSound(c)'
  <2>1. cb' = cb /\ sent' = sent /\ stack' = stack
    BY <1>3 DEF Stutter, SameOperation
  <2>2. /\ Occurs(CompletingCalls(c))' <=> Occurs(CompletingCalls(c))
        /\ Occurs(SignalCalls(c))' <=> Occurs(SignalCalls(c))
        /\ Occurs(ExecutingCalls(c))' <=> Occurs(ExecutingCalls(c))
        /\ Occurs(EndingCalls(c))' <=> Occurs(EndingCalls(c))
    BY <2>1, StackUnchanged
  <2> QED
    BY <1>0, <2>1, <2>2 DEF ChildSound
<1>4. ASSUME NEW t \in Threads, StopEvent(t), SameOperation PROVE ChildSound(c)'
  BY <1>0, <1>4, ChildStop
<1>5. ASSUME NEW t \in Threads, ClientEvent(t) PROVE ChildSound(c)'
  BY <1>0, <1>5, ChildClient
<1> HIDE DEF ChildSound
<1> QED
  BY <1>0, <1>1, <1>2, <1>3, <1>4, <1>5, NextEvents
-----------------------------------------------------------------------------
(* The state of the operation and the signals of the children.              *)

StopCalls == FramesAt({"request_stop"}, {Inner})
EmplaceCalls == FramesAt({"emplace"}, Children)
Sought == src[Inner].requested \/ Occurs(StopCalls)
SignalSound(c) ==
    /\ sent[c] = "set_value" => c \in values
    /\ sent[c] = "set_error" => state = "error"
    /\ sent[c] = "set_stopped" => state # "started"
OutcomeSound ==
    /\ \A c \in Children : SignalSound(c)
    /\ state = "stopped" => \E c \in Children : sent[c] = "set_stopped"
    /\ errors # None => sent[errors] = "set_error"
ErrorSound == state = "error" => errors # None \/ Occurs(EmplaceCalls)
SoughtSound ==
    /\ Sought => stoppable \/ state # "started"
    /\ state # "started" => Sought

\* The invariant, part by part.
LEMMA OperationParts ==
    /\ OperationSound <=> OutcomeSound /\ ErrorSound /\ SoughtSound
    /\ OperationSound' <=> OutcomeSound' /\ ErrorSound' /\ SoughtSound'
  BY DEF OperationSound, OutcomeSound, SignalSound, ErrorSound, SoughtSound, Sought, StopCalls, EmplaceCalls

\* A stop that is sought, requested or about to be, stays so.
LEMMA StopSought ==
    ASSUME TypeOK, NEW t \in Threads, StopEvent(t)
    PROVE  Sought' <=> Sought
<1>0. Stacks /\ Inner \in Sources
  BY Constants DEF TypeOK, Stacks
<1>f. \A p, y : Frame(p, y).at = p /\ Frame(p, y).of = y
  BY DEF Frame
<1>i. Frame("request_stop", Inner) \in StopCalls
  BY <1>0, FrameIn, StopPoints DEF StopCalls
<1>1. PICK N : Changes(t, N) /\ \A f \in N : f.at \in StopOnly \ {"add", "remove", "request_stop"}
  BY StopShape DEF Within
<1>2. \A f \in N : f \notin StopCalls
  BY <1>1 DEF StopCalls, FramesAt
<1>3. Occurs(StopCalls)' => Occurs(StopCalls)
  BY <1>0, <1>1, <1>2, OccursWas
<1>q. ASSUME NEW p, NEW y, Top1(t, p, y), p # "request_stop" \/ y # Inner,
             src'[Inner].requested = src[Inner].requested
      PROVE  Sought' <=> Sought
  <2>1. stack[t] # <<>> /\ Top(t) \notin StopCalls
    BY <1>f, <1>q DEF Top1, StopCalls, FramesAt
  <2>2. Occurs(StopCalls) => Occurs(StopCalls)'
    BY <1>0, <1>1, <2>1, OccursStays
  <2> QED
    BY <1>3, <1>q, <2>2 DEF Sought
<1>4. ASSUME NEW s \in Sources, RequestLate(t, s) PROVE Sought' <=> Sought
  <2>1. CASE s = Inner
    BY <1>4, <2>1 DEF RequestLate, Sought
  <2>2. CASE s # Inner
    BY <1>q, <1>4, <2>2 DEF RequestLate
  <2> QED
    BY <2>1, <2>2
<1>5. ASSUME NEW s \in Sources, RequestFirst(t, s) PROVE Sought' <=> Sought
  <2>1. CASE s = Inner
    <3>1. Len(stack[t]) \in DOMAIN stack[t] /\ stack[t][Len(stack[t])] \in StopCalls
      BY <1>0, <1>i, <1>5, <2>1, StackShape DEF RequestFirst, Top1, Top, Stacks
    <3> QED
      BY <1>5, <2>1, <3>1 DEF RequestFirst, Sought, Occurs
  <2>2. CASE s # Inner
    BY <1>0, <1>q, <1>5, <2>2 DEF RequestFirst, OtherSources
  <2> QED
    BY <2>1, <2>2
<1>6. ASSUME NEW s \in Sources, NotifyEnd(t, s) PROVE Sought' <=> Sought
  BY <1>0, <1>q, <1>6 DEF NotifyEnd, OtherSources
<1>7. ASSUME NEW s \in Sources, NEW c \in CallbacksOf(s), NotifyOne(t, s, c) PROVE Sought' <=> Sought
  BY <1>0, <1>q, <1>7 DEF NotifyOne, OtherSources
<1>8. ASSUME NEW s \in Sources, NEW c \in CallbacksOf(s), RunOne(t, s, c) PROVE Sought' <=> Sought
  BY <1>0, <1>q, <1>8 DEF RunOne, OtherSources
<1>9. ASSUME NEW s \in Sources, NEW c \in CallbacksOf(s), RanRemoved(t, s, c) PROVE Sought' <=> Sought
  BY <1>0, <1>q, <1>9 DEF RanRemoved, OtherSources
<1>10. ASSUME NEW s \in Sources, NEW c \in CallbacksOf(s), RanAlive(t, s, c) PROVE Sought' <=> Sought
  BY <1>0, <1>q, <1>10 DEF RanAlive, OtherSources
<1>11. ASSUME NEW s \in Sources, NEW c \in CallbacksOf(s), LockedAgain(t, s, c) PROVE Sought' <=> Sought
  BY <1>0, <1>q, <1>11 DEF LockedAgain, OtherSources
<1>12. ASSUME NEW s \in Sources, NEW c \in CallbacksOf(s), AddLate(t, s, c) PROVE Sought' <=> Sought
  BY <1>0, <1>q, <1>12 DEF AddLate, OtherSources
<1>13. ASSUME NEW s \in Sources, NEW c \in CallbacksOf(s), AddLocks(t, s, c) PROVE Sought' <=> Sought
  BY <1>0, <1>q, <1>13 DEF AddLocks, OtherSources
<1>14. ASSUME NEW s \in Sources, NEW c \in CallbacksOf(s), Links(t, s, c) PROVE Sought' <=> Sought
  BY <1>0, <1>q, <1>14 DEF Links, OtherSources
<1>15. ASSUME NEW s \in Sources, NEW c \in CallbacksOf(s), RemoveDetached(t, s, c) PROVE Sought' <=> Sought
  BY <1>0, <1>q, <1>15 DEF RemoveDetached, OtherSources
<1>16. ASSUME NEW s \in Sources, NEW c \in CallbacksOf(s), RemoveLocks(t, s, c) PROVE Sought' <=> Sought
  BY <1>0, <1>q, <1>16 DEF RemoveLocks, OtherSources
<1>17. ASSUME NEW s \in Sources, NEW c \in CallbacksOf(s), UnlinkListed(t, s, c) PROVE Sought' <=> Sought
  BY <1>0, <1>q, <1>17 DEF UnlinkListed, OtherSources
<1>18. ASSUME NEW s \in Sources, NEW c \in CallbacksOf(s), UnlinkOwn(t, s, c) PROVE Sought' <=> Sought
  BY <1>0, <1>q, <1>18 DEF UnlinkOwn, OtherSources
<1>19. ASSUME NEW s \in Sources, NEW c \in CallbacksOf(s), UnlinkWaits(t, s, c) PROVE Sought' <=> Sought
  BY <1>0, <1>q, <1>19 DEF UnlinkWaits, OtherSources
<1>20. ASSUME NEW s \in Sources, NEW c \in CallbacksOf(s), AwaitEnds(t, s, c) PROVE Sought' <=> Sought
  BY <1>0, <1>q, <1>20 DEF AwaitEnds, OtherSources
<1> HIDE DEF Sought
<1> QED
  BY <1>4, <1>5, <1>6, <1>7, <1>8, <1>9, <1>10, <1>11, <1>12, <1>13, <1>14, <1>15, <1>16, <1>17, <1>18, <1>19, <1>20 DEF StopEvent

\* A step that sends no signal.
LEMMA OperationKept ==
    ASSUME Stacks, OperationSound, NEW t \in Threads, NEW N, Changes(t, N),
           sent' = sent, values' = values, state' = state, errors' = errors, stoppable' = stoppable,
           stack[t] # <<>> => Top(t).at # "emplace", Sought => Sought', Sought' => Sought \/ stoppable
    PROVE  OperationSound'
<1>1. OutcomeSound /\ ErrorSound /\ SoughtSound
  BY OperationParts
<1>2. OutcomeSound'
  BY <1>1 DEF OutcomeSound, SignalSound
<1>3. ErrorSound'
  <2>1. stack[t] # <<>> => Top(t) \notin EmplaceCalls
    BY DEF EmplaceCalls, FramesAt
  <2>2. Occurs(EmplaceCalls) => Occurs(EmplaceCalls)'
    BY <2>1, OccursStays
  <2> QED
    BY <1>1, <2>2 DEF ErrorSound
<1>4. SoughtSound'
  BY <1>1 DEF SoughtSound
<1> QED
  BY <1>2, <1>3, <1>4, OperationParts

\* What a step of the operation does to the stop that is sought.
LEMMA ClientSought ==
    ASSUME Stacks, NEW t \in Threads, NEW N, Changes(t, N), src' = src,
           stack[t] # <<>> => Top(t).at # "request_stop"
    PROVE  /\ Sought => Sought'
           /\ Sought' => Sought \/ \E f \in N : f.at = "request_stop" /\ f.of = Inner
           /\ Frame("request_stop", Inner) \in N => Sought'
<1>1. stack[t] # <<>> => Top(t) \notin StopCalls
  BY DEF StopCalls, FramesAt
<1>2. Occurs(StopCalls) => Occurs(StopCalls)'
  BY <1>1, OccursStays
<1>3. Occurs(StopCalls)' => Occurs(StopCalls) \/ \E f \in N : f \in StopCalls
  BY OccursWas
<1>4. \A f \in StopCalls : f.at = "request_stop" /\ f.of = Inner
  BY DEF StopCalls, FramesAt
<1>5. Frame("request_stop", Inner) \in StopCalls
  BY FrameIn, StopPoints, Constants DEF StopCalls
<1>6. Frame("request_stop", Inner) \in N => Occurs(StopCalls)'
  BY <1>5, OccursComes
<1> QED
  BY <1>2, <1>3, <1>4, <1>6 DEF Sought

\* A step of the operation.
LEMMA OperationClient ==
    ASSUME TypeOK, Nested, Chain, CallbacksSound, OperationSound, NEW t \in Threads, ClientEvent(t)
    PROVE  OperationSound'
<1>0. /\ Stacks /\ stoppable' = stoppable /\ src' = src
      /\ sent \in [Children -> {None, "set_value", "set_error", "set_stopped"}]
      /\ state \in {"started", "error", "stopped"} /\ errors \in Children \union {None}
      /\ OutcomeSound /\ ErrorSound /\ SoughtSound
  BY ClientShape, OperationParts DEF TypeOK, Stacks, SameConfig
<1>f. \A p, x : Frame(p, x).at = p /\ Frame(p, x).of = x
  BY DEF Frame
<1>n. None # "set_value" /\ None # "set_error" /\ None # "set_stopped" /\ None \notin Children
  BY Constants
<1>t. \A p, x : Top1(t, p, x) => stack[t] # <<>> /\ Top(t).at = p
  BY <1>f DEF Top1
<1>k. ASSUME NEW p, NEW x, Top1(t, p, x), p # "emplace", p # "request_stop", NEW N, Changes(t, N),
             \A f \in N : f.at = "request_stop" => stoppable,
             sent' = sent, values' = values, state' = state, errors' = errors
      PROVE  OperationSound'
  <2>1. stack[t] # <<>> /\ Top(t).at = p
    BY <1>k, <1>t
  <2>2. (Sought => Sought') /\ (Sought' => Sought \/ \E f \in N : f.at = "request_stop")
    BY <1>0, <1>k, <2>1, ClientSought
  <2> QED
    BY <1>0, <1>k, <2>1, <2>2, OperationKept
<1>1. ASSUME StartStoppable(t) PROVE OperationSound'
  <2>1. /\ Top1(t, "start", OnStop) /\ Changes(t, {Frame("check", OnStop), Frame("add", OnStop)})
        /\ sent' = sent /\ values' = values /\ state' = state /\ errors' = errors
    BY <1>1 DEF StartStoppable, SameOperation, SameOp, SameHistory
  <2>2. \A f \in {Frame("check", OnStop), Frame("add", OnStop)} : f.at # "request_stop"
    BY <1>f
  <2> QED
    BY <1>k, <2>1, <2>2
<1>2. ASSUME StartNever(t) PROVE OperationSound'
  <2>1. /\ Top1(t, "start", OnStop) /\ Changes(t, {Frame("check", OnStop)})
        /\ sent' = sent /\ values' = values /\ state' = state /\ errors' = errors
    BY <1>2 DEF StartNever, SameOperation, SameOp, SameHistory
  <2>2. \A f \in {Frame("check", OnStop)} : f.at # "request_stop"
    BY <1>f
  <2> QED
    BY <1>k, <2>1, <2>2
<1>3. ASSUME CheckStops(t) PROVE OperationSound'
  <2>1. /\ Top1(t, "check", OnStop) /\ Changes(t, {Frame("abandon", OnStop), Frame("remove", OnStop)})
        /\ sent' = sent /\ values' = values /\ state' = state /\ errors' = errors
    BY <1>3 DEF CheckStops, SameOperation, SameOp, SameHistory
  <2>2. \A f \in {Frame("abandon", OnStop), Frame("remove", OnStop)} : f.at # "request_stop"
    BY <1>f
  <2> QED
    BY <1>k, <2>1, <2>2
<1>4. ASSUME CheckGoes(t) PROVE OperationSound'
  <2>1. /\ Top1(t, "check", OnStop) /\ Changes(t, {Frame("start_child", ChildOrder[1])})
        /\ sent' = sent /\ values' = values /\ state' = state /\ errors' = errors
    BY <1>4 DEF CheckGoes, SameOperation, SameOp, SameHistory
  <2>2. \A f \in {Frame("start_child", ChildOrder[1])} : f.at # "request_stop"
    BY <1>f
  <2> QED
    BY <1>k, <2>1, <2>2
<1>5. ASSUME Abandons(t) PROVE OperationSound'
  <2>1. /\ Top1(t, "abandon", OnStop) /\ Changes(t, {})
        /\ sent' = sent /\ values' = values /\ state' = state /\ errors' = errors
    BY <1>5 DEF Abandons, SameOperation, SameOp, SameHistory
  <2>2. \A f \in {} : f.at # "request_stop"
    BY <1>f
  <2> QED
    BY <1>k, <2>1, <2>2
<1>6. ASSUME CallbackForwards(t) PROVE OperationSound'
  <2>1. /\ Top1(t, "callback", OnStop) /\ Changes(t, {Frame("request_stop", Inner)})
        /\ sent' = sent /\ values' = values /\ state' = state /\ errors' = errors
    BY <1>6 DEF CallbackForwards, SameOperation, SameOp, SameHistory
  <2>2. stoppable
    BY <2>1, TopCallback, Constants
  <2> QED
    BY <1>k, <2>1, <2>2
<1>7. ASSUME NEW c \in Children, StartAsync(t, c) PROVE OperationSound'
  <2>1. /\ Top1(t, "start_child", c) /\ Changes(t, {Frame("hand_off", c), Frame("add", c)})
        /\ sent' = sent /\ values' = values /\ state' = state /\ errors' = errors
    BY <1>7 DEF StartAsync, SameOperation, SameOp, SameHistory
  <2>2. \A f \in {Frame("hand_off", c), Frame("add", c)} : f.at # "request_stop"
    BY <1>f
  <2> QED
    BY <1>k, <2>1, <2>2
<1>8. ASSUME NEW c \in Children, HandEager(t, c) PROVE OperationSound'
  <2>1. /\ Top1(t, "hand_off", c) /\ Changes(t, {Frame("started", c), Frame("finish_child", c)})
        /\ sent' = sent /\ values' = values /\ state' = state /\ errors' = errors
    BY <1>8 DEF HandEager, SameOperation, SameOp, SameHistory
  <2>2. \A f \in {Frame("started", c), Frame("finish_child", c)} : f.at # "request_stop"
    BY <1>f
  <2> QED
    BY <1>k, <2>1, <2>2
<1>9. ASSUME NEW c \in Children, HandOver(t, c) PROVE OperationSound'
  <2>1. /\ Top1(t, "hand_off", c) /\ Changes(t, {Frame("started", c)})
        /\ sent' = sent /\ values' = values /\ state' = state /\ errors' = errors
    BY <1>9 DEF HandOver, SameOperation, SameOp, SameHistory
  <2>2. \A f \in {Frame("started", c)} : f.at # "request_stop"
    BY <1>f
  <2> QED
    BY <1>k, <2>1, <2>2
<1>10. ASSUME NEW c \in Children, NextEnds(t, c) PROVE OperationSound'
  <2>1. /\ Top1(t, "started", c) /\ Changes(t, {})
        /\ sent' = sent /\ values' = values /\ state' = state /\ errors' = errors
    BY <1>10 DEF NextEnds, SameOperation, SameOp, SameHistory
  <2>2. \A f \in {} : f.at # "request_stop"
    BY <1>f
  <2> QED
    BY <1>k, <2>1, <2>2
<1>11. ASSUME NEW c \in Children, NEW i \in DOMAIN ChildOrder, NextStarts(t, c, i) PROVE OperationSound'
  <2>1. /\ Top1(t, "started", c) /\ Changes(t, {Frame("start_child", ChildOrder[i + 1])})
        /\ sent' = sent /\ values' = values /\ state' = state /\ errors' = errors
    BY <1>11 DEF NextStarts, SameOperation, SameOp, SameHistory
  <2>2. \A f \in {Frame("start_child", ChildOrder[i + 1])} : f.at # "request_stop"
    BY <1>f
  <2> QED
    BY <1>k, <2>1, <2>2
<1>12. ASSUME NEW c \in Children, CallbackFinishes(t, c) PROVE OperationSound'
  <2>1. /\ Top1(t, "callback", c) /\ Changes(t, {Frame("finish_child", c)})
        /\ sent' = sent /\ values' = values /\ state' = state /\ errors' = errors
    BY <1>12 DEF CallbackFinishes, SameOperation, SameOp, SameHistory
  <2>2. \A f \in {Frame("finish_child", c)} : f.at # "request_stop"
    BY <1>f
  <2> QED
    BY <1>k, <2>1, <2>2
<1>13. ASSUME NEW c \in Children, CallbackNotes(t, c) PROVE OperationSound'
  <2>1. /\ Top1(t, "callback", c) /\ Changes(t, {})
        /\ sent' = sent /\ values' = values /\ state' = state /\ errors' = errors
    BY <1>13 DEF CallbackNotes, SameOperation, SameOp, SameHistory
  <2>2. \A f \in {} : f.at # "request_stop"
    BY <1>f
  <2> QED
    BY <1>k, <2>1, <2>2
<1>14. ASSUME NEW c \in Children, Finishes(t, c) PROVE OperationSound'
  <2>1. /\ Top1(t, "finish_child", c) /\ Changes(t, {Frame("complete_child", c), Frame("remove", c)})
        /\ sent' = sent /\ values' = values /\ state' = state /\ errors' = errors
    BY <1>14 DEF Finishes, SameOperation, SameOp, SameHistory
  <2>2. \A f \in {Frame("complete_child", c), Frame("remove", c)} : f.at # "request_stop"
    BY <1>f
  <2> QED
    BY <1>k, <2>1, <2>2
<1>15. ASSUME NEW c \in Children, ValueThrows(t, c) PROVE OperationSound'
  <2>1. /\ Top1(t, "set_value", c) /\ Changes(t, {Frame("set_error", c)})
        /\ sent' = sent /\ values' = values /\ state' = state /\ errors' = errors
    BY <1>15 DEF ValueThrows, SameOperation, SameOp, SameHistory
  <2>2. \A f \in {Frame("set_error", c)} : f.at # "request_stop"
    BY <1>f
  <2> QED
    BY <1>k, <2>1, <2>2
<1>16. ASSUME NEW c \in Children, ArrivesEarly(t, c) PROVE OperationSound'
  <2>1. /\ Top1(t, "arrive", c) /\ Changes(t, {})
        /\ sent' = sent /\ values' = values /\ state' = state /\ errors' = errors
    BY <1>16 DEF ArrivesEarly, SameOperation, SameOp, SameHistory
  <2>2. \A f \in {} : f.at # "request_stop"
    BY <1>f
  <2> QED
    BY <1>k, <2>1, <2>2
<1>17. ASSUME NEW c \in Children, ArrivesLastStoppable(t, c) PROVE OperationSound'
  <2>1. /\ Top1(t, "arrive", c) /\ Changes(t, {Frame("deliver", c), Frame("remove", OnStop)})
        /\ sent' = sent /\ values' = values /\ state' = state /\ errors' = errors
    BY <1>17 DEF ArrivesLastStoppable, SameOperation, SameOp, SameHistory
  <2>2. \A f \in {Frame("deliver", c), Frame("remove", OnStop)} : f.at # "request_stop"
    BY <1>f
  <2> QED
    BY <1>k, <2>1, <2>2
<1>18. ASSUME NEW c \in Children, ArrivesLast(t, c) PROVE OperationSound'
  <2>1. /\ Top1(t, "arrive", c) /\ Changes(t, {Frame("deliver", c)})
        /\ sent' = sent /\ values' = values /\ state' = state /\ errors' = errors
    BY <1>18 DEF ArrivesLast, SameOperation, SameOp, SameHistory
  <2>2. \A f \in {Frame("deliver", c)} : f.at # "request_stop"
    BY <1>f
  <2> QED
    BY <1>k, <2>1, <2>2
<1>19. ASSUME NEW c \in Children, Delivers(t, c) PROVE OperationSound'
  <2>1. /\ Top1(t, "deliver", c) /\ Changes(t, {})
        /\ sent' = sent /\ values' = values /\ state' = state /\ errors' = errors
    BY <1>19 DEF Delivers, SameOperation, SameOp, SameHistory
  <2>2. \A f \in {} : f.at # "request_stop"
    BY <1>f
  <2> QED
    BY <1>k, <2>1, <2>2
<1>20. ASSUME NEW c \in Children, NEW signal \in Signals, StartInline(t, c, signal) PROVE OperationSound'
  <2>1. /\ Top1(t, "start_child", c) /\ Changes(t, {Frame("started", c), Frame(signal, c)})
        /\ sent' = sent /\ values' = values /\ state' = state /\ errors' = errors
    BY <1>20 DEF StartInline, SameOperation, SameOp, SameHistory
  <2>2. \A f \in {Frame("started", c), Frame(signal, c)} : f.at # "request_stop"
    BY <1>f DEF Signals
  <2> QED
    BY <1>k, <2>1, <2>2
<1>21. ASSUME NEW c \in Children, NEW signal \in Signals, CompletesChild(t, c, signal) PROVE OperationSound'
  <2>1. /\ Top1(t, "complete_child", c) /\ Changes(t, {Frame(signal, c)})
        /\ sent' = sent /\ values' = values /\ state' = state /\ errors' = errors
    BY <1>21 DEF CompletesChild, SameOperation, SameOp, SameHistory
  <2>2. \A f \in {Frame(signal, c)} : f.at # "request_stop"
    BY <1>f DEF Signals
  <2> QED
    BY <1>k, <2>1, <2>2
<1>e. \A c \in Children : \A f : f = Frame("emplace", c) => f \in EmplaceCalls
  BY FrameIn, ClientPoints, Constants DEF EmplaceCalls
<1>c. /\ {"set_value", "set_error", "set_stopped"} \subseteq ChainPoints \ {"emplace", "arrive", "deliver"}
      /\ "emplace" \in ChainPoints
  BY DEF ChainPoints, ChildPoints
\* A signal of a child that has sent none: where the error is, and the stop.
<1>m. ASSUME NEW c \in Children, NEW p \in Signals, Top1(t, p, c), NEW N, Changes(t, N),
             OutcomeSound', errors' = errors,
             state' = "error" => state = "error" \/ Frame("emplace", c) \in N,
             state' # "started" => state # "started" \/ Frame("request_stop", Inner) \in N,
             \A f \in N : f.at = "request_stop" => state' # "started",
             state # "started" => state' # "started"
      PROVE  OperationSound'
  <2>1. stack[t] # <<>> /\ Top(t).at \in Signals
    BY <1>m, <1>t
  <2>2. /\ Sought => Sought'
        /\ Sought' => Sought \/ \E f \in N : f.at = "request_stop"
        /\ Frame("request_stop", Inner) \in N => Sought'
    BY <1>0, <1>m, <2>1, ClientSought DEF Signals
  <2>3. SoughtSound'
    BY <1>0, <1>m, <2>2 DEF SoughtSound
  <2>4. stack[t] # <<>> => Top(t) \notin EmplaceCalls
    BY <2>1 DEF EmplaceCalls, FramesAt, Signals
  <2>5. Occurs(EmplaceCalls) => Occurs(EmplaceCalls)'
    BY <1>0, <1>m, <2>4, OccursStays
  <2>6. Frame("emplace", c) \in N => Occurs(EmplaceCalls)'
    BY <1>e, <1>m, OccursComes
  <2>7. ErrorSound'
    BY <1>0, <1>m, <2>5, <2>6 DEF ErrorSound
  <2> QED
    BY <1>m, <2>3, <2>7, OperationParts
<1>22. ASSUME NEW c \in Children, SetsValue(t, c) PROVE OperationSound'
  <2>1. /\ Top1(t, "set_value", c) /\ Changes(t, {Frame("arrive", c)}) /\ values' = values \union {c}
        /\ sent' = [sent EXCEPT ![c] = "set_value"] /\ state' = state /\ errors' = errors
    BY <1>22 DEF SetsValue
  <2>2. sent[c] = None
    BY <1>0, <1>c, <2>1, ChainTopIn
  <2>3. OutcomeSound'
    BY <1>0, <1>n, <2>1, <2>2 DEF OutcomeSound, SignalSound
  <2>4. \A f \in {Frame("arrive", c)} : f.at # "request_stop"
    BY <1>f
  <2> QED
    BY <1>m, <2>1, <2>3, <2>4 DEF Signals
<1>23. ASSUME NEW c \in Children, ErrorLate(t, c) PROVE OperationSound'
  <2>1. /\ Top1(t, "set_error", c) /\ Changes(t, {Frame("arrive", c)}) /\ values' = values
        /\ sent' = [sent EXCEPT ![c] = "set_error"] /\ state = "error" /\ state' = "error" /\ errors' = errors
    BY <1>23 DEF ErrorLate
  <2>2. sent[c] = None
    BY <1>0, <1>c, <2>1, ChainTopIn
  <2>3. OutcomeSound'
    BY <1>0, <1>n, <2>1, <2>2 DEF OutcomeSound, SignalSound
  <2>4. \A f \in {Frame("arrive", c)} : f.at # "request_stop"
    BY <1>f
  <2> QED
    BY <1>m, <2>1, <2>3, <2>4 DEF Signals
<1>24. ASSUME NEW c \in Children, ErrorFirst(t, c) PROVE OperationSound'
  <2>1. /\ Top1(t, "set_error", c) /\ Changes(t, {Frame("emplace", c), Frame("request_stop", Inner)})
        /\ values' = values /\ sent' = [sent EXCEPT ![c] = "set_error"] /\ state # "error"
        /\ state' = "error" /\ errors' = errors
    BY <1>24 DEF ErrorFirst
  <2>2. sent[c] = None
    BY <1>0, <1>c, <2>1, ChainTopIn
  <2>3. OutcomeSound'
    BY <1>0, <1>n, <2>1, <2>2 DEF OutcomeSound, SignalSound
  <2> QED
    BY <1>m, <2>1, <2>3 DEF Signals
<1>25. ASSUME NEW c \in Children, StoppedFirst(t, c) PROVE OperationSound'
  <2>1. /\ Top1(t, "set_stopped", c) /\ Changes(t, {Frame("arrive", c), Frame("request_stop", Inner)})
        /\ values' = values /\ sent' = [sent EXCEPT ![c] = "set_stopped"] /\ state = "started"
        /\ state' = "stopped" /\ errors' = errors
    BY <1>25 DEF StoppedFirst
  <2>2. sent[c] = None
    BY <1>0, <1>c, <2>1, ChainTopIn
  <2>3. \A x \in Children : sent[x] # "set_error" /\ sent[x] # "set_stopped"
    BY <1>0, <2>1 DEF OutcomeSound, SignalSound
  <2>4. errors = None
    BY <1>0, <2>3 DEF OutcomeSound
  <2>5. OutcomeSound'
    BY <1>0, <1>n, <2>1, <2>3, <2>4 DEF OutcomeSound, SignalSound
  <2> QED
    BY <1>m, <2>1, <2>5 DEF Signals
<1>26. ASSUME NEW c \in Children, StoppedLate(t, c) PROVE OperationSound'
  <2>1. /\ Top1(t, "set_stopped", c) /\ Changes(t, {Frame("arrive", c)}) /\ values' = values
        /\ sent' = [sent EXCEPT ![c] = "set_stopped"] /\ state # "started" /\ state' = state
        /\ errors' = errors
    BY <1>26 DEF StoppedLate, SameOp
  <2>2. sent[c] = None
    BY <1>0, <1>c, <2>1, ChainTopIn
  <2>3. OutcomeSound'
    BY <1>0, <1>n, <2>1, <2>2 DEF OutcomeSound, SignalSound
  <2>4. \A f \in {Frame("arrive", c)} : f.at # "request_stop"
    BY <1>f
  <2> QED
    BY <1>m, <2>1, <2>3, <2>4 DEF Signals
<1>27. ASSUME NEW c \in Children, Emplaces(t, c) PROVE OperationSound'
  <2>1. /\ Top1(t, "emplace", c) /\ Changes(t, {Frame("arrive", c)}) /\ values' = values
        /\ sent' = sent /\ state' = state /\ errors' = c
    BY <1>27 DEF Emplaces, SameHistory
  <2>2. sent[c] = "set_error"
    BY <1>0, <1>c, <2>1, ChainTopIn
  <2>3. OutcomeSound'
    BY <1>0, <1>n, <2>1, <2>2 DEF OutcomeSound, SignalSound
  <2>4. ErrorSound'
    BY <1>n, <2>1 DEF ErrorSound
  <2>5. stack[t] # <<>> /\ Top(t).at = "emplace"
    BY <1>t, <2>1
  <2>6. (Sought => Sought') /\ (Sought' => Sought \/ \E f \in {Frame("arrive", c)} : f.at = "request_stop")
    BY <1>0, <2>1, <2>5, ClientSought
  <2>7. SoughtSound'
    BY <1>0, <1>f, <2>1, <2>6 DEF SoughtSound
  <2> QED
    BY <2>3, <2>4, <2>7, OperationParts
<1> HIDE DEF OperationSound
<1> QED
  BY <1>1, <1>2, <1>3, <1>4, <1>5, <1>6, <1>7, <1>8, <1>9, <1>10, <1>11, <1>12, <1>13, <1>14, <1>15, <1>16, <1>17, <1>18, <1>19, <1>20, <1>21, <1>22, <1>23, <1>24, <1>25, <1>26, <1>27 DEF ClientEvent

\* The state of the operation says what the children sent.
LEMMA OperationStep ==
    ASSUME TypeOK, Nested, Chain, CallbacksSound, OperationSound, [Next]_vars
    PROVE  OperationSound'
<1>0. Stacks
  BY DEF TypeOK, Stacks
<1>1. ASSUME NEW t \in Threads, StopEvent(t), SameOperation PROVE OperationSound'
  <2>1. PICK N : Changes(t, N)
    BY <1>1, StopShape DEF Within
  <2>2. stack[t] # <<>> => Top(t).at # "emplace"
    BY <1>1, StopShape DEF Within, StopOnly
  <2>3. Sought' <=> Sought
    BY <1>1, StopSought
  <2> QED
    BY <1>0, <1>1, <2>1, <2>2, <2>3, OperationKept DEF SameOperation
<1>2. ASSUME Asks PROVE OperationSound'
  <2>1. /\ Changes(Stopper, {Frame("request_stop", Outer)}) /\ stack[Stopper] = <<>> /\ src' = src
        /\ sent' = sent /\ values' = values /\ state' = state /\ errors' = errors
        /\ stoppable' = stoppable /\ Stopper \in Threads /\ Outer # Inner
    BY <1>2, Constants DEF Asks, SameConfig, SameOp, SameHistory
  <2>2. \A f \in {Frame("request_stop", Outer)} : f.of # Inner
    BY <2>1 DEF Frame
  <2>3. (Sought => Sought') /\ (Sought' => Sought)
    BY <1>0, <2>1, <2>2, ClientSought
  <2> QED
    BY <1>0, <2>1, <2>3, OperationKept
<1>3. ASSUME NEW c \in Children, Works(c) PROVE OperationSound'
  <2>1. /\ Changes(c, {Frame("finish_child", c)}) /\ stack[c] = <<>> /\ src' = src
        /\ sent' = sent /\ values' = values /\ state' = state /\ errors' = errors
        /\ stoppable' = stoppable /\ c \in Threads
    BY <1>3, Constants DEF Works, SameConfig, SameOp, SameHistory
  <2>2. \A f \in {Frame("finish_child", c)} : f.at # "request_stop"
    BY DEF Frame
  <2>3. (Sought => Sought') /\ (Sought' => Sought)
    BY <1>0, <2>1, <2>2, ClientSought
  <2> QED
    BY <1>0, <2>1, <2>3, OperationKept
<1>4. ASSUME Stutter PROVE OperationSound'
  <2>1. /\ stack' = stack /\ src' = src /\ sent' = sent /\ values' = values /\ state' = state
        /\ errors' = errors /\ stoppable' = stoppable
    BY <1>4 DEF Stutter, SameOperation
  <2>2. (Occurs(StopCalls)' <=> Occurs(StopCalls)) /\ (Occurs(EmplaceCalls)' <=> Occurs(EmplaceCalls))
    BY <2>1, StackUnchanged
  <2>3. OutcomeSound /\ ErrorSound /\ SoughtSound
    BY OperationParts
  <2>4. OutcomeSound' /\ ErrorSound' /\ SoughtSound'
    BY <2>1, <2>2, <2>3 DEF OutcomeSound, SignalSound, ErrorSound, SoughtSound, Sought
  <2> QED
    BY <2>4, OperationParts
<1> HIDE DEF OperationSound
<1> QED
  BY <1>1, <1>2, <1>3, <1>4, OperationClient, NextEvents
-----------------------------------------------------------------------------
(* The inductive invariant.                                                 *)

\* At first the only call is the one of start().
LEMMA FirstCall ==
    ASSUME Init
    PROVE  /\ Stacks /\ Frame("start", OnStop) \in Frames
           /\ \A t \in Threads : \A i \in DOMAIN stack[t] :
                t = Starter /\ i = 1 /\ stack[t][i] = Frame("start", OnStop)
           /\ stack[Starter] = <<Frame("start", OnStop)>> /\ stack[Stopper] = <<>>
           /\ \A S : Once(S) /\ (Occurs(S) => Frame("start", OnStop) \in S)
           /\ Frame("start", OnStop) \in FramesAt({"start"}, {OnStop})
<1> DEFINE f == Frame("start", OnStop)
<1>1. "start" \in Points /\ OnStop \in Callbacks
  BY Constants DEF Points, StartPoints
<1>2. f \in Frames /\ f.at = "start" /\ f.of = OnStop
  BY <1>1, MakeFrame
<1>3. stack = [t \in Threads |-> IF t = Starter THEN <<f>> ELSE <<>>]
  BY DEF Init
<1>4. Starter \in Threads /\ Stopper \in Threads /\ Starter # Stopper
  BY Constants
<1> HIDE DEF f
<1>5. Stacks
  BY <1>2, <1>3 DEF Stacks
<1>6. \A t \in Threads : \A i \in DOMAIN stack[t] : t = Starter /\ i = 1 /\ stack[t][i] = f
  BY <1>3
<1>7. \A S : Once(S) /\ (Occurs(S) => f \in S)
  BY <1>6 DEF Once, Occurs
<1>8. stack[Starter] = <<f>> /\ stack[Stopper] = <<>>
  BY <1>3, <1>4
<1>9. f \in FramesAt({"start"}, {OnStop})
  BY <1>2 DEF FramesAt
<1> QED
  BY <1>2, <1>5, <1>6, <1>7, <1>8, <1>9 DEF f

\* The invariant holds at first.
LEMMA InitInvariant ==
    ASSUME Init
    PROVE  IInv
<1> DEFINE f == Frame("start", OnStop)
<1>0. f.at = "start" /\ f.of = OnStop
  BY DEF Frame
<1>1. /\ Stacks /\ f \in Frames
      /\ \A t \in Threads : \A i \in DOMAIN stack[t] : t = Starter /\ i = 1 /\ stack[t][i] = f
      /\ stack[Starter] = <<f>> /\ stack[Stopper] = <<>>
      /\ \A S : Once(S) /\ (Occurs(S) => f \in S)
      /\ f \in FramesAt({"start"}, {OnStop})
  BY FirstCall
<1>2. \A points, xs : "start" \notin points => ~Occurs(FramesAt(points, xs))
  BY <1>0, <1>1 DEF FramesAt
<1> HIDE DEF f
<1>3. /\ src = [s \in Sources |-> FreshSource] /\ cb = [c \in Callbacks |-> Unborn]
      /\ stoppable \in BOOLEAN /\ kind \in [Children -> Kinds]
      /\ asked = FALSE /\ owner = [c \in Children |-> None]
      /\ cancelled = [c \in Children |-> FALSE] /\ count = Len(ChildOrder) /\ state = "started"
      /\ errors = None /\ values = {} /\ sent = [c \in Children |-> None] /\ result = <<>>
  BY DEF Init, StopInit
<1>4. /\ Outer \in Sources /\ Inner \in Sources /\ OnStop \in Callbacks
      /\ \A c \in Children : c \in Callbacks
  BY Constants
<1>5. /\ FreshSource.requested = FALSE /\ FreshSource.callbacks = <<>> /\ FreshSource.notifying = None
      /\ FreshSource.removed = FALSE
      /\ FreshSource \in SourceRecords
  BY DEF FreshSource, SourceRecords
<1>6. Unborn.life = "unborn" /\ Unborn.linked = FALSE /\ Unborn \in CallbackRecords
  BY DEF Unborn, CallbackRecords
<1>7. TypeOK
  <2>1. SourcesOK
    <3>1. \A s \in Sources : src[s] = FreshSource /\ src[s].callbacks = <<>>
      BY <1>3, <1>5
    <3>2. \A s \in Sources : <<>> \in Seq(CallbacksOf(s))
      OBVIOUS
    <3>3. src \in [Sources -> SourceRecords]
      BY <1>3, <1>5
    <3> QED
      BY <3>1, <3>2, <3>3 DEF SourcesOK
  <2>2. CallbacksOK
    BY <1>3, <1>6 DEF CallbacksOK
  <2>3. OperationOK
    <3>1. count \in Nat
      BY <1>3, ChildrenCounted
    <3>2. result \in Seq({"set_value", "set_error", "set_stopped"})
      BY <1>3
    <3>3. /\ owner \in [Children -> Threads \union {None, "undecided"}]
          /\ cancelled \in [Children -> BOOLEAN]
          /\ sent \in [Children -> {None, "set_value", "set_error", "set_stopped"}]
      BY <1>3
    <3>4. /\ stoppable \in BOOLEAN /\ kind \in [Children -> Kinds] /\ asked \in BOOLEAN
          /\ state \in {"started", "error", "stopped"} /\ errors \in Children \union {None}
          /\ values \in SUBSET Children
      BY <1>3
    <3> QED
      BY <3>1, <3>2, <3>3, <3>4 DEF OperationOK
  <2> QED
    BY <2>1, <2>2, <2>3, <1>1 DEF TypeOK, SourcesOK, CallbacksOK, OperationOK, SourceRecords,
       CallbackRecords, Stacks
<1>8. Nested
  <2>1. Outermost(Starter, f)
    BY <1>0 DEF Outermost
  <2>2. NestedFrames
    BY <1>1, <2>1 DEF NestedFrames
  <2> QED
    BY <1>1, <2>2 DEF Nested
<1>9. Locks
  <2> SUFFICES ASSUME NEW s \in Sources PROVE Locked(s)
    BY DEF Locks
  <2>1. ~Occurs(LinkFrames(s))
    BY <1>2 DEF LinkFrames
  <2>2. f \notin LockFrames(s)
    BY <1>0 DEF LockFrames, FramesAt
  <2> QED
    BY <1>1, <2>1, <2>2 DEF Locked
<1>10. Notifying
  <2> SUFFICES ASSUME NEW s \in Sources PROVE Notified(s)
    BY DEF Notifying
  <2>1. f \notin NotifyFrames(s)
    BY <1>0 DEF NotifyFrames, FramesAt
  <2>2. src[s].requested = FALSE
    BY <1>3, <1>5
  <2> QED
    BY <1>1, <2>1, <2>2 DEF Notified
<1>11. "start" \notin ChainPoints
  BY DEF ChainPoints, ChildPoints
<1>12. \A c \in Children : ~Begun(c) /\ owner[c] = None /\ sent[c] = None
  BY <1>2, <1>3, <1>11 DEF Begun, ChainFrames
<1>13. Chain
  <2>1. ChainFrameSound(f)
    BY <1>0, <1>11 DEF ChainFrameSound, ChainPoints, ChildPoints
  <2>2. None # "undecided"
    BY Constants
  <2> QED
    BY <1>1, <1>12, <2>1, <2>2 DEF Chain
<1>14. StartOrder
  <2>1. stack[Starter] # <<>> /\ stack[Starter][1] = f
    BY <1>1
  <2> QED
    BY <2>1, <1>0, <1>3, <1>12 DEF StartOrder
<1>15. Counted
  <2>1. {c \in Children : Pending(c)} = Children
    BY <1>12 DEF Pending
  <2> QED
    BY <2>1, <1>3, ChildrenCounted DEF Counted
<1>16. Listed
  <2>1. IsInjective(<<>>) /\ DOMAIN <<>> = {}
    BY DEF IsInjective
  <2> SUFFICES ASSUME NEW s \in Sources
               PROVE  /\ IsInjective(src[s].callbacks)
                      /\ \A c \in CallbacksOf(s) :
                           cb[c].linked /\ cb[c].life # "dead"
                              <=> \E i \in DOMAIN src[s].callbacks : src[s].callbacks[i] = c
    BY DEF Listed
  <2>2. src[s].callbacks = <<>>
    BY <1>3, <1>5
  <2>3. \A c \in CallbacksOf(s) : ~cb[c].linked
    BY <1>3, <1>6 DEF CallbacksOf
  <2> QED
    BY <2>1, <2>2, <2>3
<1>17. CallbacksSound
  <2>1. \A c \in Callbacks : cb[c] = Unborn
    BY <1>3
  <2>2. CallbackFrameSound(f)
    BY <1>0, <1>4, <2>1 DEF CallbackFrameSound, ConstructorPoints, DestructorPoints
  <2>3. None # "undecided"
    BY Constants
  <2> QED
    BY <1>1, <1>4, <1>6, <1>12, <2>1, <2>2, <2>3 DEF CallbacksSound
<1>18. Reachable
  BY <1>3, <1>4, <1>6 DEF Reachable
<1>19. OnStopSound
  <2>1. cb[OnStop].life = "unborn" /\ src[Outer].notifying = None
    BY <1>3, <1>4, <1>5, <1>6
  <2>2. Occurs(FramesAt({"start"}, {OnStop}))
    <3>1. Starter \in Threads /\ 1 \in DOMAIN stack[Starter] /\ stack[Starter][1] = f
      BY <1>1, Constants
    <3> QED
      BY <3>1, <1>1 DEF Occurs
  <2>3. ~Occurs(FramesAt({"deliver", "abandon"}, Callbacks))
    BY <1>2
  <2> QED
    BY <1>3, <2>1, <2>2, <2>3 DEF OnStopSound
<1>20. OperationSound
  <2>1. ~Occurs(FramesAt({"request_stop"}, {Inner})) /\ src[Inner].requested = FALSE
    BY <1>2, <1>3, <1>4, <1>5
  <2>2. None # "set_value" /\ None # "set_error" /\ None # "set_stopped"
    BY Constants
  <2> QED
    BY <1>3, <1>12, <2>1, <2>2 DEF OperationSound
<1>21. EndSound
  BY <1>3 DEF EndSound
<1>22. ChildrenSound
  <2>1. \A c \in Children : cb[c].life = "unborn" /\ sent[c] = None
    BY <1>3, <1>4, <1>6
  <2>2. \A c \in Children : ~Occurs(CompletingCalls(c)) /\ ~Occurs(ExecutingCalls(c))
    BY <1>2 DEF CompletingCalls, ExecutingCalls
  <2> QED
    BY <2>1, <2>2 DEF ChildrenSound, ChildSound
<1> QED
  BY <1>7, <1>8, <1>9, <1>10, <1>13, <1>14, <1>15, <1>16, <1>17, <1>18, <1>19, <1>20, <1>21, <1>22 DEF IInv

\* Every step keeps the invariant.
LEMMA NextInvariant ==
    ASSUME IInv, [Next]_vars
    PROVE  IInv'
<1>1. /\ TypeOK /\ Nested /\ Locks /\ Notifying /\ Chain /\ StartOrder /\ Counted
      /\ Listed /\ CallbacksSound /\ Reachable /\ ChildrenSound /\ OnStopSound
      /\ OperationSound /\ EndSound
  BY DEF IInv
<1>2. TypeOK'
  BY <1>1, TypeStep
<1>3. Nested'
  BY <1>1, NestedStep
<1>4. Locks' /\ Notifying'
  BY <1>1, LocksStep
<1>5. Chain'
  BY <1>1, ChainStep
<1>6. StartOrder' /\ Counted' /\ EndSound'
  <2>1. Course
    BY <1>1 DEF Course
  <2>2. Course'
    BY <1>1, <2>1, CourseStep
  <2> QED
    BY <2>2 DEF Course
<1>7. Listed'
  BY <1>1, ListedStep
<1>8. CallbacksSound'
  BY CallbacksStep
<1>9. Reachable'
  BY <1>1, ReachableStep
<1>10. OnStopSound'
  BY OnStopStep
<1>11. OperationSound'
  BY <1>1, OperationStep
<1>12. ChildrenSound'
  BY ChildrenStep
<1> QED
  BY <1>2, <1>3, <1>4, <1>5, <1>6, <1>7, <1>8, <1>9, <1>10, <1>11, <1>12 DEF IInv

\* The invariant of when_all, for any number of children of the three kinds,
\* in any combination, and whether or not the receiver can be stopped: how the calls of start(),
\* of the children's completions, of the stop callbacks and of request_stop
\* nest, who holds the locks, and what is known of __count_, __state_,
\* __errors_, __values_ and the callbacks at each point.
THEOREM WhenAllInvariantHolds == Spec => []IInv
<1>1. Init => IInv
  BY InitInvariant
<1>2. IInv /\ [Next]_vars => IInv'
  BY NextInvariant
<1> QED
  BY <1>1, <1>2, PTL DEF Spec
-----------------------------------------------------------------------------
(* What the invariant says.                                                 *)

\* A frame in which a source's callbacks are run.
LEMMA NotifyingCall ==
    ASSUME Stacks, NEW s \in Sources, NEW t \in Threads, NEW i \in DOMAIN stack[t]
    PROVE  /\ stack[t][i] \in NotifyFrames(s) => Notifies(t, s)
           /\ stack[t][i].at \in {"run", "ran"} /\ stack[t][i].of \in CallbacksOf(s)
                => stack[t][i] \in NotifyFrames(s)
<1>1. stack[t][i] \in Frames
  BY StackShape DEF Stacks
<1>2. ASSUME stack[t][i] \in FramesAt({"notify"}, {s}) PROVE Notifies(t, s)
  BY <1>2 DEF FramesAt, Notifies, Inside
<1>3. ASSUME stack[t][i] \in FramesAt({"run", "ran", "relock"}, CallbacksOf(s))
      PROVE  Notifies(t, s)
  <2>1. PICK c \in Callbacks : c = stack[t][i].of /\ SourceOf[c] = s
    BY <1>3 DEF FramesAt, CallbacksOf
  <2>2. Inside(t, {"run", "ran", "relock"}, c)
    BY <1>3, <2>1 DEF FramesAt, Inside
  <2> QED
    BY <2>1, <2>2 DEF Notifies
<1>4. ASSUME stack[t][i].at \in {"run", "ran"}, stack[t][i].of \in CallbacksOf(s)
      PROVE  stack[t][i] \in NotifyFrames(s)
  BY <1>1, <1>4 DEF FramesAt, NotifyFrames
<1>5. stack[t][i] \in NotifyFrames(s) => Notifies(t, s)
  BY <1>2, <1>3 DEF NotifyFrames
<1> QED
  BY <1>4, <1>5

\* The invariant implies that no callback is forgotten.
LEMMA NoneForgotten ==
    ASSUME IInv
    PROVE  NoForgottenCallback
<1> SUFFICES ASSUME NEW s \in Sources, src[s].requested, src[s].callbacks # <<>>
             PROVE  \E t \in Threads : Notifies(t, s)
  BY DEF NoForgottenCallback
<1>1. Occurs(NotifyFrames(s)) /\ Stacks
  BY DEF IInv, Notifying, Notified, TypeOK, Stacks
<1>2. PICK t \in Threads : \E i \in DOMAIN stack[t] : stack[t][i] \in NotifyFrames(s)
  BY <1>1 DEF Occurs
<1> QED
  BY <1>1, <1>2, NotifyingCall

\* The invariant implies that a destroyed callback is out of reach.
LEMMA DeadUntouched ==
    ASSUME IInv
    PROVE  DeadCallbackUntouched
<1> SUFFICES ASSUME NEW c \in Callbacks, cb[c].life = "dead"
             PROVE  /\ ~Contains(src[SourceOf[c]].callbacks, c)
                    /\ \A t \in Threads :
                         /\ ~Inside(t, {"run"}, c)
                         /\ Inside(t, {"ran"}, c) =>
                              src[SourceOf[c]].notifying = t /\ src[SourceOf[c]].removed
  BY DEF DeadCallbackUntouched
<1> DEFINE s == SourceOf[c]
<1>1. s \in Sources /\ c \in CallbacksOf(s)
  BY Constants DEF CallbacksOf
<1>2. Stacks /\ CallbacksSound /\ Notified(s) /\ Listed /\ src[s].callbacks \in Seq(CallbacksOf(s))
  BY <1>1 DEF IInv, Notifying, TypeOK, Stacks
<1>3. ~Contains(src[s].callbacks, c)
  <2>1. ~\E i \in DOMAIN src[s].callbacks : src[s].callbacks[i] = c
    BY <1>1, <1>2 DEF Listed
  <2>2. DOMAIN src[s].callbacks = 1 .. Len(src[s].callbacks)
    BY <1>2
  <2> QED
    BY <2>1, <2>2 DEF Contains
<1>4. ASSUME NEW t \in Threads, NEW i \in DOMAIN stack[t], stack[t][i].of = c
      PROVE  /\ stack[t][i].at # "run"
             /\ stack[t][i].at = "ran" => src[s].notifying = t /\ src[s].removed
  <2>1. CallbackFrameSound(stack[t][i])
    BY <1>2 DEF CallbacksSound
  <2>2. stack[t][i].at # "run"
    BY <1>4, <2>1 DEF CallbackFrameSound
  <2>3. ASSUME stack[t][i].at = "ran" PROVE src[s].removed
    BY <1>4, <2>1, <2>3 DEF CallbackFrameSound
  <2>4. ASSUME stack[t][i].at = "ran" PROVE src[s].notifying = t
    <3>1. stack[t][i] \in NotifyFrames(s)
      BY <1>1, <1>2, <1>4, <2>4, NotifyingCall
    <3> QED
      BY <3>1, <1>2 DEF Notified
  <2> QED
    BY <2>2, <2>3, <2>4
<1> QED
  BY <1>3, <1>4 DEF Inside

\* The invariant implies that the other children are cancelled.
LEMMA OthersTold ==
    ASSUME IInv
    PROVE  OthersCancelled
<1> SUFFICES ASSUME state # "started",
                    \A t \in Threads : ~Inside(t, {"request_stop"}, Inner) /\ ~Notifies(t, Inner),
                    NEW c \in Children, cb[c].life = "alive",
                    \A t \in Threads : ~Inside(t, {"add", "callback"}, c), ~cancelled[c]
             PROVE  FALSE
  BY DEF OthersCancelled, IInv, TypeOK
<1>1. /\ Stacks /\ Locked(Inner) /\ Notified(Inner) /\ Listed /\ Reachable /\ OperationSound
      /\ Inner \in Sources /\ c \in CallbacksOf(Inner) /\ CallbacksOf(Inner) = Children
  BY Constants, Registered DEF IInv, Locks, Notifying, TypeOK, Stacks
<1>2. ~Occurs(FramesAt({"request_stop"}, {Inner}))
  BY DEF Occurs, Inside, FramesAt
<1>3. src[Inner].requested
  BY <1>1, <1>2 DEF OperationSound
<1>4. ~Occurs(NotifyFrames(Inner))
  BY <1>1, NotifyingCall DEF Occurs
<1>5. ~cb[c].linked
  <2>1. src[Inner].callbacks = <<>>
    BY <1>1, <1>3, <1>4 DEF Notified
  <2>2. DOMAIN src[Inner].callbacks = {}
    BY <2>1
  <2> QED
    BY <1>1, <2>2 DEF Listed
<1>6. PICK t \in Threads : \E i \in DOMAIN stack[t] :
          stack[t][i] \in FramesAt({"add", "link", "callback", "run"}, {c})
  BY <1>1, <1>5 DEF Reachable, Occurs
<1>7. PICK i \in DOMAIN stack[t] : stack[t][i] \in FramesAt({"add", "link", "callback", "run"}, {c})
  BY <1>6
<1>8. stack[t][i].at \in {"add", "link", "callback", "run"} /\ stack[t][i].of = c
      /\ stack[t][i] \in Frames
  BY <1>7 DEF FramesAt
<1>9. CASE stack[t][i].at \in {"add", "callback"}
  BY <1>8, <1>9 DEF Inside
<1>10. CASE stack[t][i].at = "run"
  BY <1>1, <1>4, <1>8, <1>10, NotifyingCall DEF Occurs
<1>11. CASE stack[t][i].at = "link"
  <2>1. stack[t][i] \in LinkFrames(Inner)
    BY <1>1, <1>8, <1>11 DEF LinkFrames, FramesAt
  <2> QED
    BY <1>1, <1>3, <2>1 DEF Locked, Occurs
<1> QED
  BY <1>8, <1>9, <1>10, <1>11

\* The invariant implies that the receiver's completion is the right one.
LEMMA CompletedRight ==
    ASSUME IInv
    PROVE  CompletesRight
<1>1. /\ OperationSound /\ EndSound /\ state \in {"started", "error", "stopped"}
      /\ sent \in [Children -> {None, "set_value", "set_error", "set_stopped"}]
      /\ values \in SUBSET Children
  BY DEF IInv, TypeOK
<1>2. \A e, x : Len(<<e>>) = 1 /\ (Contains(<<e>>, x) <=> x = e)
  BY DEF Contains
<1>3. \A x : ~Contains(<<>>, x)
  BY DEF Contains
<1>4. CASE result = <<>>
  BY <1>3, <1>4 DEF CompletesRight
<1>5. CASE result = <<Outcome>> /\ \A c \in Children : ~Pending(c)
  <2> DEFINE o == Outcome
  <2>0. result = <<o>>
    BY <1>5
  <2>1. /\ o \in {"set_value", "set_error", "set_stopped"}
        /\ o = "set_value" <=> state = "started"
        /\ o = "set_error" <=> state = "error"
        /\ o = "set_stopped" <=> state = "stopped"
    BY <1>1 DEF Outcome
  <2>2. \A c \in Children : sent[c] # None /\ ~Occurs(FramesAt({"emplace"}, {c}))
    <3> SUFFICES ASSUME NEW c \in Children
                 PROVE  sent[c] # None /\ ~Occurs(FramesAt({"emplace"}, {c}))
      OBVIOUS
    <3>1. sent[c] # None /\ ~Occurs(FramesAt({"emplace", "arrive"}, {c}))
      BY <1>5 DEF Pending
    <3> QED
      BY <3>1 DEF Occurs, FramesAt
  <2> HIDE DEF o
  <2>3. ASSUME o = "set_value" PROVE values = Children
    <3>1. \A c \in Children : sent[c] = "set_value"
      BY <1>1, <2>1, <2>2, <2>3 DEF OperationSound
    <3> QED
      BY <1>1, <3>1 DEF OperationSound
  <2>4. ASSUME o = "set_error" PROVE errors # None /\ sent[errors] = "set_error"
    <3>1. ~Occurs(FramesAt({"emplace"}, Children))
      BY <2>2 DEF Occurs, FramesAt
    <3> QED
      BY <1>1, <2>1, <2>4, <3>1 DEF OperationSound
  <2>5. ASSUME o = "set_stopped"
        PROVE  /\ \A c \in Children : sent[c] # "set_error"
               /\ \E c \in Children : sent[c] = "set_stopped"
    BY <1>1, <2>1, <2>5 DEF OperationSound
  <2>6. Len(result) <= 1 /\ \A x : Contains(result, x) => x = o
    BY <2>0, <1>2
  <2> QED
    BY <2>3, <2>4, <2>5, <2>6 DEF CompletesRight
<1>6. CASE result = <<"set_stopped">> /\ \A c \in Children : ~Begun(c)
  <2>1. \A c \in Children : sent[c] = None
    BY <1>6 DEF Begun
  <2>2. None # "set_error"
    BY Constants
  <2>3. Len(result) <= 1 /\ \A x : Contains(result, x) => x = "set_stopped"
    BY <1>6, <1>2
  <2> QED
    BY <2>1, <2>2, <2>3 DEF CompletesRight
<1> QED
  BY <1>1, <1>4, <1>5, <1>6 DEF EndSound

\* After the receiver's completion no child is on its way and start() has no
\* child left to start.
LEMMA AllOver ==
    ASSUME IInv, result # <<>>, NEW t \in Threads, NEW i \in DOMAIN stack[t]
    PROVE  /\ stack[t][i].at \notin ChainPoints \union {"start", "check", "abandon"}
           /\ stack[t][i].at = "started" => \A c \in Children : Begun(c)
<1> DEFINE f == stack[t][i]
<1>1. Stacks /\ Nested /\ StartOrder /\ EndSound /\ ChainFrameSound(f) /\ f \in Frames
  BY StackShape DEF IInv, TypeOK, Stacks, Chain
<1>2. f.at \notin {"start", "check", "abandon"}
  BY <1>1, BeforeBegun
<1>3. /\ f.at \in ChainPoints \union {"started"} => f.of \in Children
      /\ f.at = "started" => t = Starter
  BY <1>1, FrameKinds DEF Known, StartPoints
<1>4. \/ \A c \in Children : ~Pending(c)
      \/ stack[Starter] = <<>> /\ \A c \in Children : ~Begun(c)
  BY <1>1 DEF EndSound
<1>5. f.at \notin ChainPoints
  <2> SUFFICES ASSUME f.at \in ChainPoints PROVE FALSE
    OBVIOUS
  <2>1. f \in ChainFrames(f.of) /\ f.of \in Children
    BY <1>1, <1>3 DEF ChainFrames, FramesAt
  <2>2. Begun(f.of)
    BY <2>1 DEF Begun, Occurs
  <2>3. f.at # "deliver"
    BY <1>1 DEF ChainFrameSound
  <2>4. Pending(f.of)
    <3>1. CASE f.at \in {"emplace", "arrive"}
      <4>1. f \in FramesAt({"emplace", "arrive"}, {f.of})
        BY <1>1, <3>1 DEF FramesAt
      <4> QED
        BY <4>1 DEF Pending, Occurs
    <3>2. CASE f.at \notin {"emplace", "arrive"}
      <4>1. f.at \in ChainPoints \ {"emplace", "arrive", "deliver"}
        BY <2>3, <3>2
      <4> QED
        BY <1>1, <4>1 DEF ChainFrameSound, Pending
    <3> QED
      BY <3>1, <3>2
  <2> QED
    BY <1>4, <2>1, <2>2, <2>4
<1>6. ASSUME f.at = "started" PROVE \A c \in Children : Begun(c)
  <2>1. stack[Starter] # <<>>
    <3>1. i \in DOMAIN stack[Starter]
      BY <1>3, <1>6
    <3> QED
      BY <3>1
  <2> QED
    BY <1>4, <2>1 DEF Pending, Begun
<1> QED
  BY <1>2, <1>5, <1>6

\* After the receiver's completion nobody passes a stop on to the operation's
\* own source: __on_stop_ is destroyed, so that its run is over, unless it was
\* that run that destroyed it.
LEMMA SourceOver ==
    ASSUME IInv, result # <<>>, NEW t \in Threads, NEW i \in DOMAIN stack[t]
    PROVE  RequestFrame(stack[t][i], Inner) => DestroyedByItself(t)
<1> SUFFICES ASSUME RequestFrame(stack[t][i], Inner) PROVE DestroyedByItself(t)
  OBVIOUS
<1> DEFINE f == stack[t][i]
           g == stack[t][i - 1]
<1>1. Stacks /\ Nested /\ OnStopSound /\ CallbacksSound
  BY DEF IInv, TypeOK, Stacks
<1>2. i \in Nat \ {0} /\ DOMAIN stack[t] = 1 .. Len(stack[t]) /\ Len(stack[t]) \in Nat
  BY <1>1, StackShape DEF Stacks
<1>3. /\ f.at \in {"request_stop", "notify", "run", "ran", "relock"}
      /\ ~RequestFrame(f, Outer) /\ ~ChildFrame(f)
  <2>1. f.at \in {"request_stop", "notify", "run", "ran", "relock"}
    BY DEF RequestFrame
  <2>2. ~RequestFrame(f, Outer)
    BY Constants DEF RequestFrame, CallbacksOf
  <2>3. ~ChildFrame(f)
    BY <2>1 DEF ChildFrame, ChildPoints
  <2> QED
    BY <2>1, <2>2, <2>3
<1>4. i # 1
  <2>1. i = 1 => Outermost(t, f)
    BY <1>1 DEF Nested, NestedFrames
  <2> QED
    BY <1>3, <2>1 DEF Outermost
<1>5. i - 1 \in DOMAIN stack[t] /\ CalledFrom(f, g)
  BY <1>1, <1>2, <1>4 DEF Nested, NestedFrames
<1>6. g.at \notin ChainPoints \union {"start", "check", "abandon"}
  BY <1>5, AllOver
<1>7. g.at = "ran" /\ g.of = OnStop
  <2>1. g.at \notin {"check", "hand_off", "abandon", "complete_child", "deliver", "emplace", "arrive"}
    BY <1>6 DEF ChainPoints, ChildPoints
  <2>2. f.at # "callback"
    BY <1>3
  <2> HIDE DEF f, g
  <2> QED
    BY <1>3, <1>5, <2>1, <2>2 DEF CalledFrom
<1>8. CallbackFrameSound(g)
  BY <1>1, <1>5 DEF CallbacksSound
<1>9. Inside(t, {"ran"}, OnStop)
  BY <1>5, <1>7 DEF Inside
<1> HIDE DEF f, g
<1>10. stoppable /\ (cb[OnStop].life = "dead" => src[Outer].removed)
  BY <1>7, <1>8, Constants DEF CallbackFrameSound
<1> QED
  BY <1>1, <1>9, <1>10 DEF OnStopSound, DestroyedByItself

\* After the receiver's completion no child's callback is about to be executed:
\* each is destroyed, or was never constructed.
LEMMA CallbacksOver ==
    ASSUME IInv, result # <<>>, NEW t \in Threads, NEW i \in DOMAIN stack[t],
           stack[t][i].of \in Children
    PROVE  stack[t][i].at \notin {"run", "callback"}
<1> DEFINE f == stack[t][i]
           c == f.of
<1>1. Stacks /\ CallbacksSound /\ EndSound /\ ChildSound(c) /\ c \in Callbacks /\ f \in Frames
  BY StackShape, Constants DEF IInv, TypeOK, Stacks, ChildrenSound
<1>2. cb[c].life # "alive"
  <2>1. CASE ~Pending(c)
    BY <1>1, <2>1 DEF Pending, ChildSound
  <2>2. CASE ~Begun(c)
    BY <1>1, <2>2 DEF CallbacksSound, Unborn
  <2> QED
    BY <1>1, <2>1, <2>2 DEF EndSound
<1>3. f.at # "run"
  BY <1>1, <1>2 DEF CallbacksSound, CallbackFrameSound
<1>4. f.at # "callback"
  <2>1. f.at = "callback" => Occurs(ExecutingCalls(c))
    BY <1>1 DEF Occurs, ExecutingCalls, FramesAt
  <2> QED
    BY <1>1, <1>2, <2>1 DEF ChildSound
<1> QED
  BY <1>3, <1>4

\* The invariant implies that the completed operation is left alone.
LEMMA LeftAlone ==
    ASSUME IInv
    PROVE  NoTouchAfterCompletion
<1> SUFFICES ASSUME result # <<>>, NEW t \in Threads, NEW i \in DOMAIN stack[t],
                    TouchesOperation(stack[t][i])
             PROVE  DestroyedByItself(t) /\ StopsChildren(stack[t][i])
  BY DEF NoTouchAfterCompletion
<1> DEFINE f == stack[t][i]
           Excepted == DestroyedByItself(t) /\ StopsChildren(f)
<1>1. Stacks /\ Nested /\ StartOrder
  BY DEF IInv, TypeOK, Stacks
<1>2. /\ f.at \notin ChainPoints \union {"start", "check", "abandon"}
      /\ f.at = "started" => \A c \in Children : Begun(c)
  BY AllOver
<1>3. RequestFrame(f, Inner) => DestroyedByItself(t)
  BY SourceOver
<1>4. f.at \notin {"check", "abandon", "start_child", "hand_off", "complete_child",
                   "set_value", "set_error", "set_stopped", "emplace", "arrive", "deliver",
                   "finish_child"}
  BY <1>2 DEF ChainPoints, ChildPoints
<1>5. ASSUME f.at \in {"request_stop", "notify"}, f.of = Inner PROVE Excepted
  BY <1>3, <1>5 DEF RequestFrame, StopsChildren
<1>6. ASSUME f.at \in {"ran", "relock"}, f.of \in Children PROVE Excepted
  BY <1>3, <1>6, Registered DEF RequestFrame, StopsChildren
<1>7. ASSUME f.at \in {"add", "link"}, f.of \in Children PROVE FALSE
  <2>1. /\ i - 1 \in DOMAIN stack[t]
        /\ stack[t][i - 1].at = "hand_off" \/ (stack[t][i - 1].at = "check" /\ f.of = OnStop)
    BY <1>1, <1>7, ConstructorParent DEF ConstructorPoints
  <2> QED
    BY <1>7, <2>1, AllOver DEF ChainPoints
<1>8. ASSUME f.at \in {"remove", "unlink", "await"}, f.of \in Children PROVE FALSE
  <2>1. /\ i - 1 \in DOMAIN stack[t]
        /\ stack[t][i - 1].at = "complete_child" \/ f.of = OnStop
    BY <1>1, <1>8, DestructorParent DEF DestructorPoints
  <2> QED
    BY <1>8, <2>1, AllOver, Constants DEF ChainPoints, ChildPoints
<1>9. ASSUME f.at \in {"run", "callback"}, f.of \in Children PROVE FALSE
  BY <1>9, CallbacksOver
<1>10. ASSUME f.at = "started", f.of # Last(ChildOrder) PROVE FALSE
  <2>1. t = Starter /\ i = 1 /\ f.of \in Children
    BY <1>1, <1>10, FrameKinds DEF Known, StartPoints
  <2> DEFINE n == Len(ChildOrder)
  <2>2. n \in Nat \ {0} /\ DOMAIN ChildOrder = 1 .. n /\ Last(ChildOrder) = ChildOrder[n]
    BY ChildOrderSound DEF Last
  <2>3. PICK k \in DOMAIN ChildOrder : ChildOrder[k] = f.of
    BY <2>1, ChildOrderSound
  <2>4. n \in DOMAIN ChildOrder /\ ~(n <= k)
    <3>1. k # n
      BY <1>10, <2>2, <2>3
    <3> HIDE DEF n
    <3> QED
      BY <2>2, <3>1
  <2>5. ChildOrder[n] \in Children
    BY <2>4, ChildOrderSound
  <2>6. stack[Starter] # <<>> /\ stack[Starter][1] = f
    BY <2>1
  <2> HIDE DEF n, f
  <2>7. Begun(ChildOrder[n]) <=> n <= k
    BY <1>1, <1>10, <2>3, <2>4, <2>6 DEF StartOrder
  <2> QED
    BY <1>2, <1>10, <2>4, <2>5, <2>7
<1> HIDE DEF f, Excepted
<1>11. TouchesOperation(f)
  BY DEF f
<1>12. Excepted
  BY <1>4, <1>5, <1>6, <1>7, <1>8, <1>9, <1>10, <1>11 DEF TouchesOperation
<1> QED
  BY <1>12 DEF Excepted, f

-----------------------------------------------------------------------------
\* The receiver is completed at most once and with the signal its children's
\* signals call for: __arrive delivers only when __count_ is down to nothing,
\* and by then the first error is in __errors_.
THEOREM CompletesRightHolds == Spec => []CompletesRight
<1>1. IInv => CompletesRight
  BY CompletedRight
<1> QED
  BY <1>1, WhenAllInvariantHolds, PTL

\* When the receiver is completed, and may have destroyed the operation, no
\* thread has a call left that touches it: __complete destroys __on_stop_
\* first, which waits for a request_stop that is still forwarding the stop,
\* and every child arrives only after its own request_stop has returned.  The
\* exception is the thread that forwards the stop and, doing so, completes the
\* last child itself: it goes back into request_stop on the source inside the
\* operation, but runs no child's callback any more.
THEOREM NoTouchAfterCompletionHolds == Spec => []NoTouchAfterCompletion
<1>1. IInv => NoTouchAfterCompletion
  BY LeftAlone
<1> QED
  BY <1>1, WhenAllInvariantHolds, PTL

\* After an error or a stop, when nobody is passing the request on any more,
\* every child with a live stop callback was told: __set_error and
\* __set_stopped request the stop, and the source runs, or has its constructor
\* run, every callback.
THEOREM OthersCancelledHolds == Spec => []OthersCancelled
<1>1. IInv => OthersCancelled
  BY OthersTold
<1> QED
  BY <1>1, WhenAllInvariantHolds, PTL

\* No thread gets at a destroyed callback of either source: the destructor
\* takes it out of the list, or has its own run marked as removed, or waits
\* for the run on another thread.
THEOREM DeadCallbackUntouchedHolds == Spec => []DeadCallbackUntouched
<1>1. IInv => DeadCallbackUntouched
  BY DeadUntouched
<1> QED
  BY <1>1, WhenAllInvariantHolds, PTL

\* As long as a stopped source lists a callback, request_stop is on its way
\* to it: no constructor links one after the last look at the list.
THEOREM NoForgottenCallbackHolds == Spec => []NoForgottenCallback
<1>1. IInv => NoForgottenCallback
  BY NoneForgotten
<1> QED
  BY <1>1, WhenAllInvariantHolds, PTL
====
