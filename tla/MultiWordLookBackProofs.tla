----------------------- MODULE MultiWordLookBackProofs ----------------------
(***************************************************************************)
(* The look-back over three arrays implements the look-back over whole     *)
(* descriptors, for every number of tiles, every warp width and every      *)
(* number of resident blocks; what is proved of LookBack carries over.     *)
(***************************************************************************)
EXTENDS MultiWordLookBack, TLAPS

\* The lemmas about LookBack, for the state this module's state stands for.
Proved == INSTANCE LookBackProofs WITH
    d_tile_descriptors <- Descriptors, pc <- Locations, seen <- Seen, stable <- FALSE

-----------------------------------------------------------------------------
(* The operators of the mapping.                                           *)

\* LookBack is instantiated with the same tiles and lanes.
LEMMA SameSets == Abstract!Tiles = Tiles /\ Abstract!Lanes = Lanes
BY DEF Abstract!Tiles, Abstract!Lanes, Tiles, Lanes

\* The value a status speaks of.
LEMMA PublishedCases ==
    ASSUME NEW i
    PROVE  /\ Published(i, "PARTIAL") = d_tile_partial[i]
           /\ Published(i, "INCLUSIVE") = d_tile_inclusive[i]
           /\ Published(i, "INVALID") = Garbage /\ Published(i, "OOB") = Garbage
BY DEF Published, Garbage, Abstract!Garbage, Abstract!Run

\* The location of LookBack that a location stands for.
LEMMA LocationCases ==
    /\ Location("waiting") = "waiting" /\ Location("scan") = "scan"
    /\ Location("status_partial") = "scan" /\ Location("status_first") = "scan"
    /\ Location("lookback") = "lookback" /\ Location("values") = "lookback"
    /\ Location("publish") = "publish" /\ Location("status_inclusive") = "publish"
    /\ Location("done") = "done"
BY DEF Location

\* Moving a block moves the block of LookBack.
LEMMA GotoLocation ==
    ASSUME TypeOK, NEW t \in Tiles, NEW l, Goto(t, l)
    PROVE  Locations' = [Locations EXCEPT ![t] = Location(l)]
BY DEF TypeOK, Goto, Locations

\* Runs and what is built from them are values.
LEMMA ValueTypes ==
    /\ Garbage \in Abstract!Value
    /\ \A x, y \in Int : Run(x, y) \in Abstract!Value
    /\ \A a, b \in Abstract!Value : Abstract!scan_op(a, b) \in Abstract!Value
BY DEF Garbage, Run, Abstract!Garbage, Abstract!Run, Abstract!Value, Abstract!scan_op

\* A descriptor with a status speaks of a value.
LEMMA PublishedType ==
    ASSUME TypeOK, NEW i \in Tiles, NEW s \in {"OOB", "INVALID", "PARTIAL", "INCLUSIVE"}
    PROVE  Published(i, s) \in Abstract!Value
BY PublishedCases, ValueTypes DEF TypeOK

-----------------------------------------------------------------------------
(* What a store may do to what others have seen.                           *)

\* No step takes back a status or touches the value of one that somebody may
\* have seen: a block stores a value only before its status.
LEMMA ReachedStays ==
    ASSUME IInv, [Next]_vars, NEW i \in Tiles,
           NEW s \in {"INVALID", "PARTIAL", "INCLUSIVE"}, Reached(i, s)
    PROVE  Reached(i, s)' /\ Published(i, s)' = Published(i, s)
<1> USE TilesAssumption DEF IInv
<1>0. BlockSound(i) /\ 0 \in Tiles
  BY DEF Tiles
<1>1. SUFFICES /\ Reached(i, s)'
               /\ s = "PARTIAL" => d_tile_partial'[i] = d_tile_partial[i]
               /\ s = "INCLUSIVE" => d_tile_inclusive'[i] = d_tile_inclusive[i]
  <2>1. s \in {"INVALID", "PARTIAL", "INCLUSIVE"} => Published(i, s)' =
          CASE s = "PARTIAL"   -> d_tile_partial'[i]
            [] s = "INCLUSIVE" -> d_tile_inclusive'[i]
            [] OTHER           -> [lo |-> -1, hi |-> -1]
    BY DEF Published
  <2>2. /\ s = "PARTIAL" => Published(i, s)' = d_tile_partial'[i]
        /\ s = "INCLUSIVE" => Published(i, s)' = d_tile_inclusive'[i]
        /\ s = "INVALID" => Published(i, s)' = [lo |-> -1, hi |-> -1]
    BY <2>1
  <2>3. Garbage = [lo |-> -1, hi |-> -1]
    BY DEF Garbage, Abstract!Garbage, Abstract!Run
  <2> QED
    BY <2>2, <2>3, PublishedCases
<1>2. CASE UNCHANGED tile_state
  BY <1>2 DEF tile_state, Reached
<1>3. CASE StoreFirst
  BY <1>0, <1>3 DEF StoreFirst, Goto, Reached, BlockSound, TypeOK
<1>4. ASSUME NEW t \in Tiles, StorePartial(t)
      PROVE  /\ Reached(i, s)'
             /\ s = "PARTIAL" => d_tile_partial'[i] = d_tile_partial[i]
             /\ s = "INCLUSIVE" => d_tile_inclusive'[i] = d_tile_inclusive[i]
  BY <1>0, <1>4 DEF StorePartial, Reached, BlockSound, TypeOK
<1>5. ASSUME NEW t \in Tiles, StoreInclusive(t)
      PROVE  /\ Reached(i, s)'
             /\ s = "PARTIAL" => d_tile_partial'[i] = d_tile_partial[i]
             /\ s = "INCLUSIVE" => d_tile_inclusive'[i] = d_tile_inclusive[i]
  BY <1>0, <1>5 DEF StoreInclusive, Reached, BlockSound, TypeOK
<1>6. ASSUME NEW t \in Tiles, StoreStatus(t)
      PROVE  /\ Reached(i, s)'
             /\ s = "PARTIAL" => d_tile_partial'[i] = d_tile_partial[i]
             /\ s = "INCLUSIVE" => d_tile_inclusive'[i] = d_tile_inclusive[i]
  BY <1>0, <1>6 DEF StoreStatus, Reached, BlockSound, TypeOK
<1>7. \/ UNCHANGED tile_state \/ StoreFirst
      \/ \E t \in Tiles : StorePartial(t) \/ StoreInclusive(t) \/ StoreStatus(t)
  BY DEF Next, Schedule, Vote, ProcessWindow, LoadStatus, LoadValue, Terminated, vars, tile_state
<1> QED
  BY <1>2, <1>3, <1>4, <1>5, <1>6, <1>7

\* The load of a status returns one its tile has reached.
LEMMA LoadReached ==
    ASSUME IInv, NEW t \in Tiles, NEW l \in Lanes,
           NEW s, s = IF predecessor_idx[t] - l < 0 THEN "OOB"
                      ELSE d_tile_status[predecessor_idx[t] - l]
    PROVE  /\ s \in {"OOB", "INVALID", "PARTIAL", "INCLUSIVE"}
           /\ predecessor_idx[t] - l >= 0 => predecessor_idx[t] - l \in Tiles
           /\ \/ s = "OOB"
              \/ predecessor_idx[t] - l \in Tiles /\ Reached(predecessor_idx[t] - l, s)
<1> USE TilesAssumption, WarpAssumption DEF IInv
<1>1. /\ predecessor_idx[t] - l \in Int
      /\ predecessor_idx[t] - l >= 0 => predecessor_idx[t] - l \in Tiles
  BY DEF TypeOK, WarpSound, Tiles, Lanes
<1>2. CASE predecessor_idx[t] - l < 0
  BY <1>1, <1>2
<1>3. CASE ~(predecessor_idx[t] - l < 0)
  <2> DEFINE i == predecessor_idx[t] - l
  <2>1. i \in Tiles /\ s = d_tile_status[i]
    BY <1>1, <1>3
  <2>2. s \in {"INVALID", "PARTIAL", "INCLUSIVE"}
    BY <2>1 DEF TypeOK
  <2>3. s = "PARTIAL" => i > 0
    <3>1. BlockSound(i)
      BY <2>1
    <3> QED
      BY <2>1, <3>1 DEF BlockSound, Tiles
  <2> HIDE DEF i
  <2>4. Reached(i, s)
    BY <2>1, <2>2, <2>3 DEF Reached
  <2> QED
    BY <1>1, <2>1, <2>2, <2>4 DEF i
<1> QED
  BY <1>2, <1>3

\* The warp-wide reduction of values is a value.
LEMMA ReduceType ==
    ASSUME NEW val \in [Lanes -> Abstract!Value], NEW tails \in SUBSET Lanes
    PROVE  Abstract!TailSegmentedReduce(val, tails) \in Abstract!Value
<1>1. Proved!Lanes = Lanes /\ Proved!TailLane(tails) = Abstract!TailLane(tails)
  BY DEF Proved!Lanes, Lanes, Proved!TailLane, Abstract!TailLane
<1>2. Abstract!TailLane(tails) \in Lanes
  BY <1>1, WarpAssumption, TilesAssumption, Proved!TailLaneProperty
<1>3. 0 \in Lanes
  BY WarpAssumption DEF Lanes
<1> QED
  BY <1>2, <1>3 DEF Abstract!TailSegmentedReduce, Abstract!Value, Abstract!Run, Abstract!Garbage

\* Where a processed window leaves the block.
LEMMA WindowProcessed ==
    ASSUME NEW t \in Tiles, ProcessWindow(t)
    PROVE  /\ pc[t] = "values" /\ fresh[t] = {}
           /\ UNCHANGED <<tile_state, fresh, status, value>>
           /\ TailFlags(t) # {} => /\ pc' = [pc EXCEPT ![t] = "publish"]
                                   /\ UNCHANGED <<predecessor_idx, loaded>>
           /\ TailFlags(t) = {} =>
                /\ pc' = [pc EXCEPT ![t] = "lookback"]
                /\ predecessor_idx' = [predecessor_idx EXCEPT ![t] = @ - WarpThreads]
                /\ loaded' = [loaded EXCEPT ![t] = {}]
BY DEF ProcessWindow, Goto

-----------------------------------------------------------------------------
(* The inductive invariant.                                                *)

\* The invariant holds initially.
LEMMA InitIInv == Init => IInv
<1> SUFFICES ASSUME Init PROVE IInv
  OBVIOUS
<1> USE TilesAssumption, WarpAssumption
<1>1. TypeOK
  BY ValueTypes DEF Init, TypeOK, Tiles
<1>2. \A t \in Tiles : BlockSound(t) /\ WarpSound(t)
  BY DEF Init, BlockSound, WarpSound, Tiles
<1> QED
  BY <1>1, <1>2 DEF IInv

\* Every step keeps the state well typed.
LEMMA NextTypeOK ==
    ASSUME IInv, [Next]_vars
    PROVE  TypeOK'
<1> USE TilesAssumption, WarpAssumption, ValueTypes DEF IInv
<1>0. 0 \in Tiles
  BY DEF Tiles
<1>1. CASE StoreFirst
  <2>1. Run(0, 1) \in Abstract!Value
    OBVIOUS
  <2> QED
    BY <1>0, <1>1, <2>1 DEF TypeOK, StoreFirst, Goto, warp
<1>2. ASSUME NEW t \in Tiles, Schedule(t) PROVE TypeOK'
  BY <1>2 DEF TypeOK, Schedule, Goto, warp, tile_state
<1>3. ASSUME NEW t \in Tiles, StorePartial(t) PROVE TypeOK'
  <2>1. Run(t, t + 1) \in Abstract!Value
    BY DEF Tiles
  <2> QED
    BY <1>3, <2>1 DEF TypeOK, StorePartial, Goto, warp
<1>4. ASSUME NEW t \in Tiles, StoreInclusive(t) PROVE TypeOK'
  <2>1. Run(t, t + 1) \in Abstract!Value
    BY DEF Tiles
  <2>2. Abstract!scan_op(exclusive_prefix[t], Run(t, t + 1)) \in Abstract!Value
    BY <2>1 DEF TypeOK
  <2> QED
    BY <1>4, <2>2 DEF TypeOK, StoreInclusive, Goto, warp
<1>5. ASSUME NEW t \in Tiles, StoreStatus(t) PROVE TypeOK'
  BY <1>5 DEF TypeOK, StoreStatus, Goto, warp
<1>6. ASSUME NEW t \in Tiles, Vote(t) PROVE TypeOK'
  BY <1>6 DEF TypeOK, Vote, Goto, tile_state
<1>7. ASSUME NEW t \in Tiles, ProcessWindow(t) PROVE TypeOK'
  <2> DEFINE window == Abstract!TailSegmentedReduce(value[t], TailFlags(t))
             folded == IF predecessor_idx[t] = t - 1 THEN window
                       ELSE Abstract!scan_op(window, exclusive_prefix[t])
  <2>1. window \in Abstract!Value
    BY ReduceType DEF TypeOK, TailFlags
  <2> HIDE DEF window
  <2>2. folded \in Abstract!Value
    BY <2>1 DEF TypeOK
  <2>3. exclusive_prefix' = [exclusive_prefix EXCEPT ![t] = folded]
    BY <1>7 DEF ProcessWindow, window
  <2> HIDE DEF folded
  <2>4. exclusive_prefix' \in [Tiles -> Abstract!Value]
    BY <2>2, <2>3 DEF TypeOK
  <2>5. /\ pc' \in [Tiles -> {"waiting", "scan", "status_partial", "status_first", "lookback",
                              "values", "publish", "status_inclusive", "done"}]
        /\ predecessor_idx' \in [Tiles -> Int] /\ loaded' \in [Tiles -> SUBSET Lanes]
    <3>1. CASE TailFlags(t) # {}
      BY <1>7, <3>1, WindowProcessed DEF TypeOK
    <3>2. CASE TailFlags(t) = {}
      <4>1. /\ pc' = [pc EXCEPT ![t] = "lookback"]
            /\ predecessor_idx' = [predecessor_idx EXCEPT ![t] = @ - WarpThreads]
            /\ loaded' = [loaded EXCEPT ![t] = {}]
        BY <1>7, <3>2, WindowProcessed
      <4>2. predecessor_idx[t] - WarpThreads \in Int
        BY DEF TypeOK
      <4> QED
        BY <4>1, <4>2 DEF TypeOK
    <3> QED
      BY <3>1, <3>2
  <2> QED
    BY <1>7, <2>4, <2>5, WindowProcessed DEF TypeOK, tile_state
<1>8. ASSUME NEW t \in Tiles, NEW l \in Lanes, LoadStatus(t, l) PROVE TypeOK'
  <2> DEFINE s == IF predecessor_idx[t] - l < 0 THEN "OOB" ELSE d_tile_status[predecessor_idx[t] - l]
  <2>1. s \in {"OOB", "INVALID", "PARTIAL", "INCLUSIVE"}
    BY LoadReached
  <2>2. status' = [status EXCEPT ![t][l] = s]
    BY <1>8 DEF LoadStatus
  <2> HIDE DEF s
  <2> QED
    BY <1>8, <2>1, <2>2 DEF TypeOK, LoadStatus, tile_state
<1>9. ASSUME NEW t \in Tiles, NEW l \in Lanes, LoadValue(t, l) PROVE TypeOK'
  <2>1. Published(predecessor_idx[t] - l, status[t][l]) \in Abstract!Value
    <3>1. CASE status[t][l] = "OOB"
      BY <3>1, PublishedCases
    <3>2. CASE status[t][l] # "OOB"
      <4>1. predecessor_idx[t] - l \in Tiles
        BY <1>9, <3>2 DEF LoadValue, WarpSound
      <4> QED
        BY <4>1, PublishedType DEF TypeOK
    <3> QED
      BY <3>1, <3>2
  <2> QED
    BY <1>9, <2>1 DEF TypeOK, LoadValue, tile_state
<1>10. CASE UNCHANGED vars
  BY <1>10 DEF TypeOK, vars
<1> QED
  BY <1>1, <1>2, <1>3, <1>4, <1>5, <1>6, <1>7, <1>8, <1>9, <1>10 DEF Next, Terminated

\* Every step keeps statuses and values in order.
LEMMA NextBlockSound ==
    ASSUME IInv, [Next]_vars
    PROVE  \A t \in Tiles : BlockSound(t)'
<1> USE TilesAssumption DEF IInv, BlockSound, TypeOK
<1> SUFFICES ASSUME NEW u \in Tiles PROVE BlockSound(u)'
  OBVIOUS
<1>0. BlockSound(u) /\ 0 \in Tiles /\ u \in Nat
  BY DEF Tiles
<1>1. CASE StoreFirst
  BY <1>0, <1>1 DEF StoreFirst, Goto, warp
<1>2. ASSUME NEW t \in Tiles, Schedule(t) PROVE BlockSound(u)'
  BY <1>0, <1>2 DEF Schedule, Goto, warp, tile_state
<1>3. ASSUME NEW t \in Tiles, StorePartial(t) PROVE BlockSound(u)'
  BY <1>0, <1>3 DEF StorePartial, Goto, warp
<1>4. ASSUME NEW t \in Tiles, StoreInclusive(t) PROVE BlockSound(u)'
  BY <1>0, <1>4 DEF StoreInclusive, Goto, warp
<1>5. ASSUME NEW t \in Tiles, StoreStatus(t) PROVE BlockSound(u)'
  BY <1>0, <1>5 DEF StoreStatus, Goto, warp
<1>6. ASSUME NEW t \in Tiles, Vote(t) PROVE BlockSound(u)'
  BY <1>0, <1>6 DEF Vote, Goto, tile_state
<1>7. ASSUME NEW t \in Tiles, ProcessWindow(t) PROVE BlockSound(u)'
  <2>1. pc[t] = "values" /\ pc' = [pc EXCEPT ![t] = pc'[t]] /\ pc'[t] \in {"publish", "lookback"}
    BY <1>7 DEF ProcessWindow, Goto
  <2>2. \A v \in Tiles : v # t => exclusive_prefix'[v] = exclusive_prefix[v]
    BY <1>7 DEF ProcessWindow
  <2>3. UNCHANGED tile_state
    BY <1>7 DEF ProcessWindow
  <2> QED
    BY <1>0, <2>1, <2>2, <2>3 DEF tile_state
<1>8. ASSUME NEW t \in Tiles, NEW l \in Lanes, LoadStatus(t, l) \/ LoadValue(t, l)
      PROVE  BlockSound(u)'
  BY <1>0, <1>8 DEF LoadStatus, LoadValue, tile_state
<1>9. CASE UNCHANGED vars
  BY <1>0, <1>9 DEF vars
<1> QED
  BY <1>1, <1>2, <1>3, <1>4, <1>5, <1>6, <1>7, <1>8, <1>9 DEF Next, Terminated

\* What a lane has seen before a step it can still rely on after it.
LEMMA FreshStays ==
    ASSUME IInv, [Next]_vars, NEW u \in Tiles, NEW l \in fresh[u],
           status'[u][l] = status[u][l], predecessor_idx'[u] = predecessor_idx[u]
    PROVE  /\ \/ status'[u][l] = "OOB"
              \/ /\ predecessor_idx'[u] - l \in Tiles
                 /\ Reached(predecessor_idx[u] - l, status[u][l])'
           /\ Published(predecessor_idx[u] - l, status[u][l])' =
                Published(predecessor_idx[u] - l, status[u][l])
<1>0. WarpSound(u) /\ status[u][l] \in {"OOB", "INVALID", "PARTIAL", "INCLUSIVE"}
  BY DEF IInv, TypeOK
<1>1. CASE status[u][l] = "OOB"
  BY <1>1 DEF Published
<1>2. CASE status[u][l] # "OOB"
  <2>1. PICK i \in Tiles : i = predecessor_idx[u] - l
    BY <1>0, <1>2 DEF WarpSound
  <2>2. PICK s \in {"INVALID", "PARTIAL", "INCLUSIVE"} : s = status[u][l]
    BY <1>0, <1>2
  <2>3. Reached(i, s)
    BY <1>0, <1>2, <2>1, <2>2 DEF WarpSound
  <2>4. Reached(i, s)' /\ Published(i, s)' = Published(i, s)
    BY <2>3, ReachedStays
  <2> QED
    BY <2>1, <2>2, <2>4 DEF Reached, Published
<1> QED
  BY <1>1, <1>2

\* Every step keeps the lanes of every warp sound.
LEMMA NextWarpSound ==
    ASSUME IInv, [Next]_vars
    PROVE  \A t \in Tiles : WarpSound(t)'
<1> USE TilesAssumption, WarpAssumption
<1> SUFFICES ASSUME NEW u \in Tiles PROVE WarpSound(u)'
  OBVIOUS
<1>0. WarpSound(u) /\ TypeOK /\ u \in Int /\ predecessor_idx[u] \in Int
  BY DEF IInv, TypeOK, Tiles
<1>1. ASSUME UNCHANGED <<predecessor_idx, fresh, status>>
      PROVE  \A l \in fresh'[u] :
               \/ status'[u][l] = "OOB"
               \/ /\ predecessor_idx'[u] - l \in Tiles
                  /\ Reached(predecessor_idx[u] - l, status[u][l])'
  BY <1>1, FreshStays
<1>2. ASSUME UNCHANGED <<predecessor_idx, loaded, fresh, status>>,
             pc'[u] = "values" => pc[u] = "values"
      PROVE  WarpSound(u)'
  BY <1>0, <1>1, <1>2 DEF WarpSound
<1>3. CASE StoreFirst
  BY <1>0, <1>2, <1>3 DEF StoreFirst, Goto, warp, TypeOK
<1>4. ASSUME NEW t \in Tiles,
             Schedule(t) \/ StorePartial(t) \/ StoreInclusive(t) \/ StoreStatus(t)
      PROVE  WarpSound(u)'
  BY <1>0, <1>2, <1>4 DEF Schedule, StorePartial, StoreInclusive, StoreStatus, Goto, warp, TypeOK
<1>5. ASSUME NEW t \in Tiles, Vote(t) PROVE WarpSound(u)'
  <2>1. UNCHANGED <<predecessor_idx, fresh, status>>
    BY <1>5 DEF Vote
  <2>2. predecessor_idx'[u] <= u - 1
    BY <1>0, <2>1 DEF WarpSound
  <2>3. pc'[u] = "values" => loaded'[u] = Lanes /\ \A l \in Lanes : status'[u][l] # "INVALID"
    BY <1>0, <1>5 DEF Vote, Goto, TypeOK, WarpSound
  <2> QED
    BY <1>1, <2>1, <2>2, <2>3 DEF WarpSound
<1>6. ASSUME NEW t \in Tiles, ProcessWindow(t) PROVE WarpSound(u)'
  <2>1. /\ pc[t] = "values" /\ fresh[t] = {} /\ UNCHANGED <<fresh, status>>
        /\ pc'[t] \in {"publish", "lookback"} /\ predecessor_idx'[t] <= predecessor_idx[t]
        /\ \A v \in Tiles : v # t => /\ pc'[v] = pc[v] /\ loaded'[v] = loaded[v]
                                      /\ predecessor_idx'[v] = predecessor_idx[v]
    <3>1. CASE TailFlags(t) # {}
      BY <1>0, <1>6, <3>1, WindowProcessed DEF TypeOK
    <3>2. CASE TailFlags(t) = {}
      BY <1>0, <1>6, <3>2, WindowProcessed DEF TypeOK
    <3> QED
      BY <3>1, <3>2
  <2>2. TypeOK'
    BY NextTypeOK
  <2>3. CASE u = t
    BY <1>0, <2>1, <2>2, <2>3 DEF WarpSound, TypeOK
  <2>4. CASE u # t
    <3>1. \A l \in fresh'[u] :
            \/ status'[u][l] = "OOB"
            \/ /\ predecessor_idx'[u] - l \in Tiles
               /\ Reached(predecessor_idx[u] - l, status[u][l])'
      BY <2>1, <2>4, FreshStays
    <3> QED
      BY <1>0, <2>1, <2>4, <3>1 DEF WarpSound
  <2> QED
    BY <2>3, <2>4
<1>7. ASSUME NEW t \in Tiles, NEW l \in Lanes, LoadStatus(t, l) PROVE WarpSound(u)'
  <2>1. /\ UNCHANGED <<tile_state, pc, predecessor_idx>> /\ pc[t] # "values"
        /\ \A v \in Tiles : v # t => loaded'[v] = loaded[v] /\ fresh'[v] = fresh[v]
                                      /\ status'[v] = status[v]
        /\ fresh'[t] = fresh[t] \union {l}
        /\ \A m \in Lanes : m # l => status'[t][m] = status[t][m]
    BY <1>0, <1>7 DEF LoadStatus, TypeOK
  <2>2. ASSUME NEW m \in fresh'[u]
        PROVE  \/ status'[u][m] = "OOB"
               \/ /\ predecessor_idx'[u] - m \in Tiles
                  /\ Reached(predecessor_idx[u] - m, status[u][m])'
    <3>1. CASE u = t /\ m = l
      <4>1. PICK s : s = IF predecessor_idx[t] - l < 0 THEN "OOB"
                         ELSE d_tile_status[predecessor_idx[t] - l]
        OBVIOUS
      <4>2. status'[t][l] = s
        BY <1>0, <1>7, <4>1 DEF LoadStatus, TypeOK
      <4>3. \/ s = "OOB"
            \/ predecessor_idx[t] - l \in Tiles /\ Reached(predecessor_idx[t] - l, s)
        BY <4>1, LoadReached
      <4> QED
        BY <2>1, <3>1, <4>2, <4>3 DEF Reached, tile_state
    <3>2. CASE ~(u = t /\ m = l)
      <4>1. m \in fresh[u] /\ m \in Lanes
        BY <1>0, <2>1, <3>2 DEF TypeOK
      <4>2. status'[u][m] = status[u][m]
        BY <2>1, <3>2, <4>1
      <4> QED
        BY <2>1, <4>1, <4>2, FreshStays
    <3> QED
      BY <3>1, <3>2
  <2>3. pc'[u] = "values" => loaded'[u] = Lanes /\ \A m \in Lanes : status'[u][m] # "INVALID"
    BY <1>0, <2>1 DEF WarpSound
  <2> QED
    BY <1>0, <2>1, <2>2, <2>3 DEF WarpSound
<1>8. ASSUME NEW t \in Tiles, NEW l \in Lanes, LoadValue(t, l) PROVE WarpSound(u)'
  <2>1. UNCHANGED <<pc, predecessor_idx, loaded, status>> /\ fresh'[u] \subseteq fresh[u]
    BY <1>0, <1>8 DEF LoadValue, TypeOK
  <2>2. \A m \in fresh'[u] :
          \/ status'[u][m] = "OOB"
          \/ /\ predecessor_idx'[u] - m \in Tiles
             /\ Reached(predecessor_idx[u] - m, status[u][m])'
    BY <2>1, FreshStays
  <2> QED
    BY <1>0, <2>1, <2>2 DEF WarpSound
<1>9. CASE UNCHANGED vars
  BY <1>2, <1>9 DEF vars
<1> QED
  BY <1>3, <1>4, <1>5, <1>6, <1>7, <1>8, <1>9 DEF Next, Terminated

\* Every step preserves the invariant.
LEMMA NextIInv == IInv /\ [Next]_vars => IInv'
BY NextTypeOK, NextBlockSound, NextWarpSound DEF IInv

-----------------------------------------------------------------------------
(* The refinement: what a step does to the state of LookBack.              *)

\* A step that stores no status and no published value leaves the descriptors.
LEMMA SameDescriptors ==
    ASSUME UNCHANGED tile_state
    PROVE  Descriptors' = Descriptors
BY DEF tile_state, Descriptors, Published

\* A step in which no lane loads leaves what the lanes have seen.
LEMMA SameSeen ==
    ASSUME IInv, [Next]_vars, UNCHANGED <<fresh, status, value>>,
           \A t \in Tiles : fresh[t] # {} => predecessor_idx'[t] = predecessor_idx[t]
    PROVE  Seen' = Seen
<1>1. ASSUME NEW t \in Tiles, NEW l \in fresh[t]
      PROVE  Published(predecessor_idx[t] - l, status[t][l])' =
               Published(predecessor_idx[t] - l, status[t][l])
  BY <1>1, FreshStays
<1> QED
  BY <1>1 DEF Seen

\* The scheduler of one is the scheduler of the other.
LEMMA ScheduleSimulated ==
    ASSUME IInv, [Next]_vars, NEW t \in Tiles, Schedule(t)
    PROVE  Abstract!Schedule(t)
<1> USE SameSets, LocationCases
<1>1. TypeOK /\ pc[t] = "waiting" /\ \A u \in Tiles : Locations[u] = Location(pc[u])
  BY DEF IInv, Schedule, Locations
<1>2. \A u \in Tiles : /\ Locations[u] = "waiting" <=> pc[u] = "waiting"
                       /\ Locations[u] \in {"scan", "lookback", "publish"} <=>
                            pc[u] \notin {"waiting", "done"}
  BY <1>1 DEF TypeOK
<1>3. Abstract!Running = {u \in Tiles : pc[u] \notin {"waiting", "done"}}
  BY <1>2 DEF Abstract!Running
<1>4. Locations' = [Locations EXCEPT ![t] = "scan"]
  BY <1>1, GotoLocation DEF Schedule
<1>5. Descriptors' = Descriptors /\ Seen' = Seen
  BY SameDescriptors, SameSeen DEF Schedule, warp
<1>6. \A S : Abstract!Cardinality(S) = Cardinality(S)
  BY DEF Abstract!Cardinality, Cardinality
<1> QED
  BY <1>1, <1>2, <1>3, <1>4, <1>5, <1>6 DEF Schedule, warp, Abstract!Schedule

\* Storing a value whose status has not been stored is invisible.
LEMMA StoreValueSimulated ==
    ASSUME IInv, [Next]_vars,
           \/ StoreFirst /\ NumTiles > 1
           \/ \E t \in Tiles : StorePartial(t) \/ StoreInclusive(t)
    PROVE  UNCHANGED Abstract!vars
<1> USE TilesAssumption, LocationCases
<1>0. 0 \in Tiles /\ TypeOK /\ \A u \in Tiles : Locations[u] = Location(pc[u])
  BY DEF Tiles, IInv, Locations
<1>1. UNCHANGED <<warp, d_tile_status>>
  BY DEF StoreFirst, StorePartial, StoreInclusive
<1>2. Locations' = Locations
  <2>1. CASE StoreFirst /\ NumTiles > 1
    <3>1. Locations' = [Locations EXCEPT ![0] = "scan"] /\ Locations[0] = "scan"
      BY <1>0, <2>1, GotoLocation DEF StoreFirst
    <3> QED
      BY <3>1 DEF Locations
  <2>2. ASSUME NEW t \in Tiles, StorePartial(t) PROVE Locations' = Locations
    <3>1. Locations' = [Locations EXCEPT ![t] = "scan"] /\ Locations[t] = "scan"
      BY <1>0, <2>2, GotoLocation DEF StorePartial
    <3> QED
      BY <3>1 DEF Locations
  <2>3. ASSUME NEW t \in Tiles, StoreInclusive(t) PROVE Locations' = Locations
    <3>1. Locations' = [Locations EXCEPT ![t] = "publish"] /\ Locations[t] = "publish"
      BY <1>0, <2>3, GotoLocation DEF StoreInclusive
    <3> QED
      BY <3>1 DEF Locations
  <2> QED
    BY <2>1, <2>2, <2>3
<1>3. Seen' = Seen
  BY <1>1, SameSeen DEF warp
<1>4. Descriptors' = Descriptors
  <2>1. ASSUME NEW i \in Tiles
        PROVE  Published(i, d_tile_status[i])' = Published(i, d_tile_status[i])
    <3>1. PICK s \in {"INVALID", "PARTIAL", "INCLUSIVE"} : s = d_tile_status[i]
      BY <1>0 DEF TypeOK
    <3>2. BlockSound(i)
      BY DEF IInv
    <3>3. Reached(i, s)
      BY <3>1, <3>2 DEF Reached, BlockSound, Tiles
    <3>4. Published(i, s)' = Published(i, s)
      BY <3>3, ReachedStays
    <3> QED
      BY <1>1, <3>1, <3>4 DEF Published
  <2> QED
    BY <1>1, <2>1 DEF Descriptors
<1> QED
  BY <1>1, <1>2, <1>3, <1>4 DEF Abstract!vars, warp

\* Storing a status is the publication of a descriptor.
LEMMA StoreStatusSimulated ==
    ASSUME IInv, [Next]_vars, NEW t \in Tiles, StoreStatus(t)
    PROVE  /\ pc[t] = "status_partial" => Abstract!PublishPartial(t)
           /\ pc[t] = "status_first" => t = 0 /\ Abstract!ScanFirstTile
           /\ pc[t] = "status_inclusive" => Abstract!PublishInclusive(t)
<1> USE SameSets, LocationCases
<1>0. /\ TypeOK /\ BlockSound(t) /\ Locations[t] = Location(pc[t])
      /\ UNCHANGED <<d_tile_partial, d_tile_inclusive, warp>>
  BY DEF IInv, Locations, StoreStatus
<1>1. Seen' = Seen
  BY <1>0, SameSeen DEF warp
<1>2. ASSUME NEW s \in {"PARTIAL", "INCLUSIVE"}, d_tile_status' = [d_tile_status EXCEPT ![t] = s]
      PROVE  Descriptors' = [Descriptors EXCEPT ![t] = Abstract!Descriptor(s, Published(t, s))]
  <2>1. \A i \in Tiles : Published(i, d_tile_status[i])' =
                           IF i = t THEN Published(t, s) ELSE Published(i, d_tile_status[i])
    BY <1>0, <1>2 DEF Published, TypeOK
  <2>2. Descriptors' = [i \in Tiles |-> IF i = t THEN [status |-> s, value |-> Published(t, s)]
                                        ELSE Descriptors[i]]
    BY <1>0, <1>2, <2>1 DEF Descriptors, TypeOK
  <2> QED
    BY <2>2 DEF Abstract!Descriptor, Descriptors
<1>3. CASE pc[t] = "status_partial"
  <2>1. /\ t > 0 /\ Locations[t] = "scan" /\ d_tile_status' = [d_tile_status EXCEPT ![t] = "PARTIAL"]
        /\ Published(t, "PARTIAL") = Run(t, t + 1)
    BY <1>0, <1>3, PublishedCases DEF BlockSound, StoreStatus
  <2>2. Locations' = [Locations EXCEPT ![t] = "lookback"]
    BY <1>0, <1>3, GotoLocation DEF StoreStatus
  <2>3. Descriptors' = [Descriptors EXCEPT ![t] = Abstract!Descriptor("PARTIAL", Run(t, t + 1))]
    BY <1>2, <2>1
  <2> QED
    BY <1>0, <1>1, <1>3, <2>1, <2>2, <2>3
    DEF Abstract!PublishPartial, Abstract!SetPartial, Abstract!SCAN_TILE_PARTIAL, Run, warp
<1>4. CASE pc[t] = "status_first"
  <2>1. /\ t = 0 /\ NumTiles > 1 /\ Locations[t] = "scan"
        /\ d_tile_status' = [d_tile_status EXCEPT ![t] = "INCLUSIVE"]
        /\ Published(t, "INCLUSIVE") = Run(0, 1)
    BY <1>0, <1>4, PublishedCases DEF BlockSound, StoreStatus
  <2>2. Locations' = [Locations EXCEPT ![t] = "done"]
    BY <1>0, <1>4, GotoLocation DEF StoreStatus
  <2>3. Descriptors' = [Descriptors EXCEPT ![t] = Abstract!Descriptor("INCLUSIVE", Run(0, 1))]
    BY <1>2, <2>1
  <2> QED
    BY <1>0, <1>1, <1>4, <2>1, <2>2, <2>3
    DEF Abstract!ScanFirstTile, Abstract!SetInclusive, Abstract!SCAN_TILE_INCLUSIVE, Run, warp
<1>5. CASE pc[t] = "status_inclusive"
  <2> DEFINE v == Abstract!scan_op(exclusive_prefix[t], Run(t, t + 1))
  <2>1. /\ Locations[t] = "publish" /\ d_tile_status' = [d_tile_status EXCEPT ![t] = "INCLUSIVE"]
        /\ Published(t, "INCLUSIVE") = v
    BY <1>0, <1>5, PublishedCases DEF BlockSound, StoreStatus
  <2>2. Locations' = [Locations EXCEPT ![t] = "done"]
    BY <1>0, <1>5, GotoLocation DEF StoreStatus
  <2>3. Descriptors' = [Descriptors EXCEPT ![t] = Abstract!Descriptor("INCLUSIVE", v)]
    BY <1>2, <2>1
  <2> QED
    BY <1>0, <1>1, <1>5, <2>1, <2>2, <2>3
    DEF Abstract!PublishInclusive, Abstract!SetInclusive, Abstract!SCAN_TILE_INCLUSIVE, Run, warp
<1> QED
  BY <1>3, <1>4, <1>5

\* The only tile of a problem is scanned without being published.
LEMMA OnlyTileSimulated ==
    ASSUME IInv, [Next]_vars, StoreFirst, ~(NumTiles > 1)
    PROVE  Abstract!ScanFirstTile
<1> USE TilesAssumption, LocationCases
<1>0. 0 \in Tiles /\ TypeOK /\ Locations[0] = "scan"
  BY DEF Tiles, IInv, Locations, StoreFirst
<1>1. UNCHANGED <<tile_state, warp>> /\ Goto(0, "done")
  BY DEF StoreFirst, tile_state
<1>2. Locations' = [Locations EXCEPT ![0] = "done"]
  BY <1>0, <1>1, GotoLocation
<1>3. Descriptors' = Descriptors /\ Seen' = Seen
  BY <1>1, SameDescriptors, SameSeen DEF warp
<1> QED
  BY <1>0, <1>1, <1>2, <1>3 DEF Abstract!ScanFirstTile, warp

\* The load of a status is the load of the descriptor: the value it speaks of
\* is settled at that moment.
LEMMA LoadStatusSimulated ==
    ASSUME IInv, [Next]_vars, NEW t \in Tiles, NEW l \in Lanes, LoadStatus(t, l)
    PROVE  Abstract!LoadLane(t, l)
<1> USE SameSets, LocationCases
<1>0. /\ TypeOK /\ Locations[t] = Location(pc[t])
      /\ UNCHANGED <<tile_state, pc, predecessor_idx, value, exclusive_prefix>>
  BY DEF IInv, Locations, LoadStatus
<1>1. Descriptors' = Descriptors /\ Locations' = Locations
  BY <1>0, SameDescriptors DEF Locations
<1>2. \/ Locations[t] = "lookback"
      \/ Locations[t] = "scan" /\ t > 0 /\ l > 0
  BY <1>0 DEF LoadStatus
<1>3. PICK s : s = IF predecessor_idx[t] - l < 0 THEN "OOB"
                   ELSE d_tile_status[predecessor_idx[t] - l]
  OBVIOUS
<1>4. status' = [status EXCEPT ![t][l] = s] /\ fresh' = [fresh EXCEPT ![t] = @ \union {l}]
  BY <1>3 DEF LoadStatus
<1>5. [status |-> s, value |-> Published(predecessor_idx[t] - l, s)] =
        Abstract!LoadStatus(predecessor_idx[t] - l)
  <2>1. predecessor_idx[t] - l >= 0 => predecessor_idx[t] - l \in Tiles
    BY <1>3, LoadReached
  <2>2. CASE predecessor_idx[t] - l < 0
    BY <1>3, <2>2, PublishedCases
    DEF Abstract!LoadStatus, Abstract!Descriptor, Abstract!SCAN_TILE_OOB, Garbage
  <2>3. CASE ~(predecessor_idx[t] - l < 0)
    <3>1. predecessor_idx[t] - l \in Tiles
      BY <1>0, <2>1, <2>3 DEF TypeOK, Lanes
    <3> QED
      BY <1>3, <2>3, <3>1 DEF Abstract!LoadStatus, Descriptors
  <2> QED
    BY <2>2, <2>3
<1>6. Seen' = [Seen EXCEPT ![t][l] = [status |-> s, value |-> Published(predecessor_idx[t] - l, s)]]
  <2> DEFINE entry(u, m) ==
        [status |-> status[u][m],
         value |-> IF m \in fresh[u] THEN Published(predecessor_idx[u] - m, status[u][m])
                   ELSE value[u][m]]
  <2>1. \A u \in Tiles, m \in Lanes : ~(u = t /\ m = l) => entry(u, m)' = entry(u, m)
    <3> SUFFICES ASSUME NEW u \in Tiles, NEW m \in Lanes, ~(u = t /\ m = l)
                 PROVE  entry(u, m)' = entry(u, m)
      OBVIOUS
    <3>1. /\ status'[u][m] = status[u][m] /\ predecessor_idx'[u] = predecessor_idx[u]
          /\ m \in fresh'[u] <=> m \in fresh[u]
      BY <1>0, <1>4 DEF TypeOK
    <3>2. m \in fresh[u] => Published(predecessor_idx[u] - m, status[u][m])' =
                             Published(predecessor_idx[u] - m, status[u][m])
      BY <3>1, FreshStays
    <3> QED
      BY <1>0, <3>1, <3>2
  <2>2. entry(t, l)' = [status |-> s, value |-> Published(predecessor_idx[t] - l, s)]
    <3>1. status'[t][l] = s /\ l \in fresh'[t] /\ predecessor_idx' = predecessor_idx
      BY <1>0, <1>4 DEF TypeOK
    <3>2. Published(predecessor_idx[t] - l, status[t][l])' = Published(predecessor_idx[t] - l, s)
      BY <1>0, <3>1 DEF Published, tile_state
    <3> QED
      BY <3>1, <3>2
  <2>3. /\ Seen = [u \in Tiles |-> [m \in Lanes |-> entry(u, m)]]
        /\ Seen' = [u \in Tiles |-> [m \in Lanes |-> entry(u, m)']]
    BY DEF Seen
  <2> HIDE DEF entry
  <2> QED
    BY <2>1, <2>2, <2>3
<1> QED
  BY <1>0, <1>1, <1>2, <1>5, <1>6 DEF Abstract!LoadLane, LoadStatus

\* The vote sends the warp back to its loads, or it is invisible.
LEMMA VoteSimulated ==
    ASSUME IInv, [Next]_vars, NEW t \in Tiles, Vote(t)
    PROVE  Abstract!Retry(t) \/ UNCHANGED Abstract!vars
<1> USE SameSets, LocationCases
<1>0. /\ TypeOK /\ Locations[t] = "lookback" /\ loaded[t] = Lanes /\ pc[t] = "lookback"
      /\ UNCHANGED <<tile_state, predecessor_idx, fresh, status, value, exclusive_prefix>>
  BY DEF IInv, Locations, Vote
<1>1. Descriptors' = Descriptors /\ Seen' = Seen
  BY <1>0, SameDescriptors, SameSeen
<1>2. \A l \in Lanes : Seen[t][l].status = status[t][l]
  BY DEF Seen
<1>3. CASE \E l \in Lanes : status[t][l] = "INVALID"
  <2>1. loaded' = [loaded EXCEPT ![t] = {}] /\ Locations' = Locations
    BY <1>3 DEF Vote, Locations
  <2>2. Abstract!AnyInvalid(t)
    BY <1>2, <1>3 DEF Abstract!AnyInvalid, Abstract!SCAN_TILE_INVALID
  <2> QED
    BY <1>0, <1>1, <2>1, <2>2 DEF Abstract!Retry
<1>4. CASE ~\E l \in Lanes : status[t][l] = "INVALID"
  <2>1. loaded' = loaded /\ Goto(t, "values")
    BY <1>4 DEF Vote
  <2>2. Locations' = [Locations EXCEPT ![t] = "lookback"]
    BY <1>0, <2>1, GotoLocation
  <2>3. Locations' = Locations
    BY <1>0, <2>2 DEF Locations
  <2> QED
    BY <1>0, <1>1, <2>1, <2>3 DEF Abstract!vars
<1> QED
  BY <1>3, <1>4

\* The load of a value brings what the lane has been said to have.
LEMMA LoadValueSimulated ==
    ASSUME IInv, [Next]_vars, NEW t \in Tiles, NEW l \in Lanes, LoadValue(t, l)
    PROVE  UNCHANGED Abstract!vars
<1>0. /\ TypeOK /\ UNCHANGED <<tile_state, pc, predecessor_idx, loaded, status, exclusive_prefix>>
  BY DEF IInv, LoadValue
<1>1. Descriptors' = Descriptors /\ Locations' = Locations
  BY <1>0, SameDescriptors DEF Locations
<1>2. Seen' = Seen
  <2> DEFINE entry(u, m) ==
        [status |-> status[u][m],
         value |-> IF m \in fresh[u] THEN Published(predecessor_idx[u] - m, status[u][m])
                   ELSE value[u][m]]
  <2>1. \A u \in Tiles, m \in Lanes : entry(u, m)' = entry(u, m)
    <3> SUFFICES ASSUME NEW u \in Tiles, NEW m \in Lanes
                 PROVE  entry(u, m)' = entry(u, m)
      OBVIOUS
    <3>1. Published(predecessor_idx[u] - m, status[u][m])' =
            Published(predecessor_idx[u] - m, status[u][m])
      BY <1>0 DEF Published, tile_state
    <3>2. CASE u = t /\ m = l
      <4>1. /\ m \notin fresh'[u] /\ m \in fresh[u]
            /\ value'[u][m] = Published(predecessor_idx[u] - m, status[u][m])
        BY <1>0, <3>2 DEF LoadValue, TypeOK
      <4> QED
        BY <1>0, <4>1
    <3>3. CASE ~(u = t /\ m = l)
      <4>1. (m \in fresh'[u] <=> m \in fresh[u]) /\ value'[u][m] = value[u][m]
        BY <1>0, <3>3 DEF LoadValue, TypeOK
      <4> QED
        BY <1>0, <3>1, <4>1
    <3> QED
      BY <3>2, <3>3
  <2>2. /\ Seen = [u \in Tiles |-> [m \in Lanes |-> entry(u, m)]]
        /\ Seen' = [u \in Tiles |-> [m \in Lanes |-> entry(u, m)']]
    BY DEF Seen
  <2> HIDE DEF entry
  <2> QED
    BY <2>1, <2>2
<1> QED
  BY <1>0, <1>1, <1>2 DEF Abstract!vars

\* Both fold the same window.
LEMMA ProcessWindowSimulated ==
    ASSUME IInv, [Next]_vars, NEW t \in Tiles, ProcessWindow(t)
    PROVE  Abstract!ProcessWindow(t)
<1> USE SameSets, LocationCases
<1>0. /\ TypeOK /\ WarpSound(t) /\ pc[t] = "values" /\ fresh[t] = {}
      /\ UNCHANGED <<tile_state, fresh, status, value>>
      /\ Locations[t] = "lookback"
  BY WindowProcessed DEF IInv, Locations
<1>1. loaded[t] = Lanes /\ \A l \in Lanes : status[t][l] # "INVALID"
  BY <1>0 DEF WarpSound
<1>2. \A l \in Lanes : Seen[t][l].status = status[t][l] /\ Seen[t][l].value = value[t][l]
  BY <1>0 DEF Seen
<1>3. Descriptors' = Descriptors
  BY <1>0, SameDescriptors
<1>4. Seen' = Seen
  <2>1. \A u \in Tiles : fresh[u] # {} => predecessor_idx'[u] = predecessor_idx[u]
    <3>1. \A u \in Tiles : u # t => predecessor_idx'[u] = predecessor_idx[u]
      BY <1>0, WindowProcessed DEF TypeOK
    <3> QED
      BY <1>0, <3>1
  <2> QED
    BY <1>0, <2>1, SameSeen
<1>5. ~Abstract!AnyInvalid(t)
  BY <1>1, <1>2 DEF Abstract!AnyInvalid, Abstract!SCAN_TILE_INVALID
<1>6. Abstract!TailFlags(t) = TailFlags(t)
  BY <1>2 DEF Abstract!TailFlags, TailFlags, Abstract!SCAN_TILE_INCLUSIVE
<1>7. Abstract!WindowAggregate(t) = Abstract!TailSegmentedReduce(value[t], TailFlags(t))
  <2>1. [l \in Lanes |-> Seen[t][l].value] = value[t]
    BY <1>0, <1>2 DEF TypeOK
  <2> QED
    BY <1>6, <2>1 DEF Abstract!WindowAggregate
<1>8. exclusive_prefix' = [exclusive_prefix EXCEPT ![t] = Abstract!FoldWindow(t)]
  BY <1>7 DEF Abstract!FoldWindow, ProcessWindow
<1>9. CASE TailFlags(t) # {}
  <2>1. Locations' = [Locations EXCEPT ![t] = "publish"]
    BY <1>0, <1>9, GotoLocation DEF ProcessWindow
  <2> QED
    BY <1>0, <1>1, <1>3, <1>4, <1>5, <1>6, <1>8, <1>9, <2>1, WindowProcessed
    DEF Abstract!ProcessWindow
<1>10. CASE TailFlags(t) = {}
  <2>1. Locations' = [Locations EXCEPT ![t] = "lookback"]
    BY <1>0, <1>10, GotoLocation DEF ProcessWindow
  <2>2. Locations' = Locations
    BY <1>0, <2>1 DEF Locations
  <2> QED
    BY <1>0, <1>1, <1>3, <1>4, <1>5, <1>6, <1>8, <1>10, <2>2, WindowProcessed
    DEF Abstract!ProcessWindow
<1> QED
  BY <1>9, <1>10

-----------------------------------------------------------------------------
(* The refinement.                                                         *)

\* An initial state stands for an initial state of LookBack.
LEMMA InitSimulated == Init => Abstract!Init
<1> SUFFICES ASSUME Init PROVE Abstract!Init
  OBVIOUS
<1> USE SameSets DEF Init
<1>1. Descriptors = [i \in Tiles |-> Abstract!Descriptor("INVALID", Garbage)]
  BY PublishedCases DEF Descriptors, Abstract!Descriptor
<1>2. Locations = [t \in Tiles |-> "waiting"]
  BY LocationCases DEF Locations
<1>3. Seen = [t \in Tiles |-> [l \in Lanes |-> Abstract!Descriptor("OOB", Garbage)]]
  BY DEF Seen, Abstract!Descriptor
<1> QED
  BY <1>1, <1>2, <1>3
  DEF Abstract!Init, Abstract!InitializeStatus, Abstract!SCAN_TILE_INVALID, Abstract!SCAN_TILE_OOB,
      Garbage

\* Every step stands for a step of LookBack or for none.
LEMMA NextSimulated ==
    ASSUME IInv, [Next]_vars
    PROVE  [Abstract!Next]_Abstract!vars
<1> USE SameSets
<1>0. 0 \in Tiles
  BY TilesAssumption DEF Tiles
<1>1. ASSUME NEW t \in Tiles, Abstract!Schedule(t) \/ Abstract!Block(t)
      PROVE  Abstract!Next
  BY <1>1 DEF Abstract!Next
<1>2. CASE StoreFirst
  <2>1. CASE NumTiles > 1
    BY <1>2, <2>1, StoreValueSimulated
  <2>2. CASE ~(NumTiles > 1)
    BY <1>0, <1>1, <1>2, <2>2, OnlyTileSimulated DEF Abstract!Block
  <2> QED
    BY <2>1, <2>2
<1>3. ASSUME NEW t \in Tiles, Schedule(t) PROVE Abstract!Next
  BY <1>1, <1>3, ScheduleSimulated
<1>4. ASSUME NEW t \in Tiles, StorePartial(t) \/ StoreInclusive(t) PROVE UNCHANGED Abstract!vars
  BY <1>4, StoreValueSimulated
<1>5. ASSUME NEW t \in Tiles, StoreStatus(t) PROVE Abstract!Next
  <2>1. pc[t] \in {"status_first", "status_partial", "status_inclusive"}
    BY <1>5 DEF StoreStatus
  <2> QED
    BY <1>1, <1>5, <2>1, StoreStatusSimulated DEF Abstract!Block
<1>6. ASSUME NEW t \in Tiles, Vote(t) PROVE [Abstract!Next]_Abstract!vars
  BY <1>1, <1>6, VoteSimulated DEF Abstract!Block
<1>7. ASSUME NEW t \in Tiles, ProcessWindow(t) PROVE Abstract!Next
  BY <1>1, <1>7, ProcessWindowSimulated DEF Abstract!Block
<1>8. ASSUME NEW t \in Tiles, NEW l \in Lanes, LoadStatus(t, l) PROVE Abstract!Next
  BY <1>1, <1>8, LoadStatusSimulated DEF Abstract!Block
<1>9. ASSUME NEW t \in Tiles, NEW l \in Lanes, LoadValue(t, l) PROVE UNCHANGED Abstract!vars
  BY <1>9, LoadValueSimulated
<1>10. CASE UNCHANGED vars
  BY <1>10 DEF vars, Abstract!vars, Descriptors, Locations, Seen, Published
<1> QED
  BY <1>2, <1>3, <1>4, <1>5, <1>6, <1>7, <1>8, <1>9, <1>10 DEF Next, Terminated

\* The inductive invariant holds in every reachable state.
THEOREM MultiWordInvariant == Spec => []IInv
BY InitIInv, NextIInv, PTL DEF Spec

\* A look-back whose descriptors are spread over three arrays, each stored and
\* loaded in a step of its own, behaves like one whose descriptors are atomic.
THEOREM MultiWordRefinement == Spec => ImplementsLookBack
BY MultiWordInvariant, InitSimulated, NextSimulated, PTL
DEF Spec, ImplementsLookBack, Abstract!Spec

-----------------------------------------------------------------------------
(* What LookBack guarantees.                                               *)

\* LookBackProofs speaks of the same specification.
LEMMA SameSpecification ==
    /\ Abstract!Init => Proved!Init
    /\ [Abstract!Next]_Abstract!vars => [Proved!Next]_Proved!vars
<1> USE DEF Abstract!Tiles, Proved!Tiles, Abstract!Lanes, Proved!Lanes, Abstract!Garbage,
            Proved!Garbage, Abstract!Run, Proved!Run, Abstract!Descriptor, Proved!Descriptor,
            Abstract!SCAN_TILE_OOB, Proved!SCAN_TILE_OOB, Abstract!SCAN_TILE_INVALID,
            Proved!SCAN_TILE_INVALID, Abstract!SCAN_TILE_PARTIAL, Proved!SCAN_TILE_PARTIAL,
            Abstract!SCAN_TILE_INCLUSIVE, Proved!SCAN_TILE_INCLUSIVE
<1>1. Abstract!Init => Proved!Init
  BY DEF Abstract!Init, Proved!Init, Abstract!InitializeStatus, Proved!InitializeStatus
<1>2. UNCHANGED Abstract!vars => UNCHANGED Proved!vars
  BY DEF Abstract!vars, Proved!vars
<1>3. \A t : Abstract!Schedule(t) => Proved!Schedule(t)
  BY DEF Abstract!Schedule, Proved!Schedule, Abstract!Running, Proved!Running,
         Abstract!Cardinality, Proved!Cardinality
<1>4. Abstract!ScanFirstTile => Proved!ScanFirstTile
  BY DEF Abstract!ScanFirstTile, Proved!ScanFirstTile, Abstract!SetInclusive, Proved!SetInclusive
<1>5. \A t : Abstract!PublishPartial(t) => Proved!PublishPartial(t)
  BY DEF Abstract!PublishPartial, Proved!PublishPartial, Abstract!SetPartial, Proved!SetPartial
<1>6. \A t, l : Abstract!LoadLane(t, l) => Proved!LoadLane(t, l)
  BY DEF Abstract!LoadLane, Proved!LoadLane, Abstract!LoadStatus, Proved!LoadStatus
<1>7. \A t : Abstract!Retry(t) => Proved!Retry(t)
  BY DEF Abstract!Retry, Proved!Retry, Abstract!AnyInvalid, Proved!AnyInvalid
<1>8. \A t : Abstract!ProcessWindow(t) => Proved!ProcessWindow(t)
  BY DEF Abstract!ProcessWindow, Proved!ProcessWindow, Abstract!AnyInvalid, Proved!AnyInvalid,
         Abstract!TailFlags, Proved!TailFlags, Abstract!WindowAggregate, Proved!WindowAggregate,
         Abstract!FoldWindow, Proved!FoldWindow, Abstract!TailSegmentedReduce,
         Proved!TailSegmentedReduce, Abstract!TailLane, Proved!TailLane, Abstract!scan_op,
         Proved!scan_op
<1>9. \A t : Abstract!PublishInclusive(t) => Proved!PublishInclusive(t)
  BY DEF Abstract!PublishInclusive, Proved!PublishInclusive, Abstract!SetInclusive,
         Proved!SetInclusive, Abstract!scan_op, Proved!scan_op
<1>10. Abstract!Terminated => Proved!Terminated
  BY <1>2 DEF Abstract!Terminated, Proved!Terminated
<1>11. \A t : Abstract!Block(t) => Proved!Block(t)
  BY <1>4, <1>5, <1>6, <1>7, <1>8, <1>9 DEF Abstract!Block, Proved!Block
<1>12. Abstract!Next => Proved!Next
  BY <1>3, <1>10, <1>11 DEF Abstract!Next, Proved!Next
<1> QED
  BY <1>1, <1>2, <1>12

\* The state every state stands for satisfies the invariant of LookBack, so
\* that every look-back over three arrays returns the right prefix.
THEOREM MultiWordSound == Spec => []Proved!IInv
<1>1. Init => Proved!IInv
  BY InitSimulated, SameSpecification, Proved!InitIInv, WarpAssumption, TilesAssumption
<1>2. IInv /\ [Next]_vars /\ Proved!IInv => Proved!IInv'
  <2>1. Proved!IInv /\ [Proved!Next]_Proved!vars => Proved!IInv'
    BY Proved!NextIInv, WarpAssumption, TilesAssumption
  <2> QED
    BY <2>1, NextSimulated, SameSpecification
<1> QED
  BY <1>1, <1>2, MultiWordInvariant, PTL DEF Spec

\* In particular a block leaves its look-back with the reduction of exactly its
\* predecessors, although status and values were loaded at different times.
THEOREM MultiWordPrefixCorrect ==
    Spec => [](\A t \in Tiles \ {0} : pc[t] \in {"publish", "status_inclusive", "done"} =>
                                        exclusive_prefix[t] = Run(0, t))
<1>1. IInv /\ Proved!IInv => \A t \in Tiles \ {0} :
        pc[t] \in {"publish", "status_inclusive", "done"} => exclusive_prefix[t] = Run(0, t)
  BY LocationCases DEF Proved!IInv, Proved!PrefixCorrect, Proved!Tiles, Tiles, Locations,
                       Proved!Run, Run, Abstract!Run
<1> QED
  BY <1>1, MultiWordInvariant, MultiWordSound, PTL

\* A lane that has loaded a valid status finds the value in place, however much
\* later it loads it and however far the tile has moved on since.
THEOREM MultiWordValueInPlace == Spec => []ValueInPlace
<1>1. IInv /\ Proved!IInv => ValueInPlace
  <2> SUFFICES ASSUME IInv, Proved!IInv, NEW t \in Tiles, NEW l \in fresh[t],
                      status[t][l] \in {"PARTIAL", "INCLUSIVE"}
               PROVE  Published(predecessor_idx[t] - l, status[t][l]) # Garbage
    BY DEF ValueInPlace
  <2>1. PICK i \in Tiles : i = predecessor_idx[t] - l /\ Reached(i, status[t][l])
    BY DEF IInv, WarpSound
  <2>2. BlockSound(i) /\ i \in Nat
    BY TilesAssumption DEF IInv, Tiles
  <2>3. CASE status[t][l] = "PARTIAL"
    <3>1. i > 0 /\ d_tile_partial[i] = Run(i, i + 1)
      BY <2>1, <2>2, <2>3 DEF Reached, BlockSound
    <3>2. Run(i, i + 1) # Garbage
      BY <2>2 DEF Run, Garbage, Abstract!Run, Abstract!Garbage
    <3> QED
      BY <2>1, <2>3, <3>1, <3>2, PublishedCases
  <2>4. CASE status[t][l] = "INCLUSIVE"
    <3>1. d_tile_status[i] = "INCLUSIVE" /\ Descriptors[i].status = "INCLUSIVE"
      BY <2>1, <2>4 DEF Reached, Descriptors
    <3>2. Proved!SoundDescriptor(i, Descriptors[i])
      BY DEF Proved!IInv, Proved!DescriptorsSound, Proved!Tiles, Tiles
    <3>3. Descriptors[i].value = Proved!Run(0, i + 1)
      BY <3>1, <3>2 DEF Proved!SoundDescriptor, Proved!SCAN_TILE_INVALID,
                       Proved!SCAN_TILE_PARTIAL, Proved!SCAN_TILE_INCLUSIVE
    <3>4. Proved!Run(0, i + 1) # Garbage
      BY <2>2 DEF Proved!Run, Garbage, Abstract!Run, Abstract!Garbage
    <3> QED
      BY <2>1, <2>4, <3>1, <3>3, <3>4 DEF Descriptors
  <2> QED
    BY <2>3, <2>4
<1> QED
  BY <1>1, MultiWordInvariant, MultiWordSound, PTL
=============================================================================
