--------------------------- MODULE LookBackProofs --------------------------
(***************************************************************************)
(* Proofs that the decoupled look-back is correct, that it stays so with   *)
(* the stable reduction order, and that the stable order reduces the same  *)
(* descriptors in every run: for every number of tiles, every warp width   *)
(* and every number of resident blocks.                                    *)
(***************************************************************************)
EXTENDS LookBackStable, WellFoundedInduction, TLAPS

\* Every nonempty set of naturals has a least element.
LEMMA LeastNatural ==
    ASSUME NEW S \in SUBSET Nat, S # {}
    PROVE  \E m \in S : \A k \in S : m <= k
<1>1. PICK m \in S : \A k \in S : <<k, m>> \notin OpToRel(<, Nat)
  BY WFMin, NatLessThanWellFounded
<1>2. \A k \in S : ~(k < m)
  BY <1>1, Zenon DEF OpToRel
<1> QED
  BY <1>2

-----------------------------------------------------------------------------
(* The segmented warp reduction.                                           *)

\* TailLane is a lane: the first of the flagged ones if there is one.
LEMMA TailLaneProperty ==
    ASSUME NEW tails \in SUBSET Lanes
    PROVE  /\ TailLane(tails) \in Lanes
           /\ tails # {} => /\ TailLane(tails) \in tails
                            /\ \A m \in 0 .. TailLane(tails) - 1 : m \notin tails
           /\ tails = {} => TailLane(tails) = WarpThreads - 1
<1> USE WarpThreadsAssumption
<1>1. CASE tails = {}
  BY <1>1 DEF TailLane, Lanes
<1>2. CASE tails # {}
  <2>1. \E k \in tails : \A j \in tails : k <= j
    <3>1. tails \in SUBSET Nat
      BY DEF Lanes
    <3> QED
      BY <1>2, <3>1, LeastNatural
  <2>2. TailLane(tails) = CHOOSE l \in tails : \A m \in tails : l <= m
    BY <1>2 DEF TailLane
  <2>3. TailLane(tails) \in tails /\ \A m \in tails : TailLane(tails) <= m
    BY <2>1, <2>2
  <2>4. TailLane(tails) \in Lanes
    BY <2>3
  <2>5. \A m \in 0 .. TailLane(tails) - 1 : m \notin tails
    BY <2>3, <2>4 DEF Lanes
  <2> QED
    BY <1>2, <2>3, <2>4, <2>5
<1> QED
  BY <1>1, <1>2

\* Lanes 0 .. k-1 hold the tiles p, p-1, ... one each, and the tail lane k
\* holds everything from b up to its own tile: together they are b .. p.
LEMMA ChainReduction ==
    ASSUME NEW p \in Nat, NEW b \in Nat, NEW k \in Nat, k <= p,
           NEW val, NEW tails, TailLane(tails) = k,
           val[k] = Run(b, p - k + 1),
           \A l \in 0 .. k - 1 : val[l] = Run(p - l, p - l + 1)
    PROVE  TailSegmentedReduce(val, tails) = Run(b, p + 1)
<1>1. \A x, y \in Int : /\ Run(x, y).lo = x /\ Run(x, y).hi = y
                        /\ x >= 0 => Run(x, y) # Garbage
  BY DEF Run, Garbage
<1>2. val[k].lo = b /\ val[k].hi = p - k + 1 /\ val[k] # Garbage
  BY <1>1
<1>3. ASSUME NEW l \in 0 .. k - 1
      PROVE  val[l].lo = p - l /\ val[l].hi = p - l + 1 /\ val[l] # Garbage
  <2>1. val[l] = Run(p - l, p - l + 1)
    OBVIOUS
  <2>2. p - l \in Int /\ p - l + 1 \in Int /\ p - l >= 0
    OBVIOUS
  <2> QED
    BY ONLY <1>1, <2>1, <2>2
<1>4. ASSUME NEW l \in 0 .. k
      PROVE  val[l] # Garbage
  <2>1. l = k \/ l \in 0 .. k - 1
    OBVIOUS
  <2> QED
    BY <1>2, <1>3, <2>1
<1>5. ASSUME NEW l \in 0 .. k - 1
      PROVE  val[l + 1].hi = val[l].lo
  <2>1. CASE l + 1 = k
    BY <1>2, <1>3, <2>1
  <2>2. CASE l + 1 \in 0 .. k - 1
    BY <1>3, <2>2
  <2> QED
    BY <2>1, <2>2
<1>6. val[0].hi = p + 1
  <2>1. CASE k = 0
    BY <1>2, <2>1
  <2>2. CASE 0 \in 0 .. k - 1
    BY <1>3, <2>2
  <2> QED
    BY <2>1, <2>2
<1>7. TailSegmentedReduce(val, tails) = Run(val[k].lo, val[0].hi)
  BY <1>4, <1>5 DEF TailSegmentedReduce
<1> QED
  BY <1>2, <1>6, <1>7

\* A window of sound, valid descriptors that ends at tile p.  If some lane
\* saw an inclusive prefix the window reduces to the prefix of tile p;
\* otherwise it lies wholly behind tile 0 and reduces to its own tiles.
LEMMA WindowReduction ==
    ASSUME NEW p \in Nat,
           NEW s \in [Lanes -> TileDescriptor],
           \A l \in Lanes : SoundLoad(p - l, s[l]) /\ s[l].status # SCAN_TILE_INVALID
    PROVE  LET tails == {l \in Lanes : s[l].status = SCAN_TILE_INCLUSIVE}
               val == [l \in Lanes |-> s[l].value]
           IN  /\ tails # {} => TailSegmentedReduce(val, tails) = Run(0, p + 1)
               /\ tails = {} =>
                    /\ p - WarpThreads >= 0
                    /\ TailSegmentedReduce(val, tails) = Run(p - WarpThreads + 1, p + 1)
<1> USE WarpThreadsAssumption
<1> DEFINE tails == {l \in Lanes : s[l].status = SCAN_TILE_INCLUSIVE}
           val == [l \in Lanes |-> s[l].value]
           k == TailLane(tails)
<1>1. /\ k \in Lanes
      /\ tails # {} => k \in tails /\ \A m \in 0 .. k - 1 : m \notin tails
      /\ tails = {} => k = WarpThreads - 1
  BY TailLaneProperty
<1>2. ASSUME NEW l \in Lanes, l \in tails
      PROVE  p - l >= 0 /\ val[l] = Run(0, p - l + 1)
  BY <1>2 DEF SoundLoad, SoundDescriptor, Lanes, SCAN_TILE_OOB, SCAN_TILE_INVALID,
              SCAN_TILE_PARTIAL, SCAN_TILE_INCLUSIVE
<1>3. ASSUME NEW l \in Lanes, l \notin tails, p - l >= 0
      PROVE  p - l > 0 /\ val[l] = Run(p - l, p - l + 1)
  BY <1>3 DEF SoundLoad, SoundDescriptor, Lanes, SCAN_TILE_OOB, SCAN_TILE_INVALID,
              SCAN_TILE_PARTIAL, SCAN_TILE_INCLUSIVE
<1> HIDE DEF k, tails, val
<1>4. k \in Nat /\ k < WarpThreads
  BY <1>1 DEF Lanes
<1>5. CASE tails # {}
  <2>1. p - k >= 0 /\ val[k] = Run(0, p - k + 1)
    BY <1>1, <1>2, <1>5
  <2>2. ASSUME NEW l \in 0 .. k - 1
        PROVE  val[l] = Run(p - l, p - l + 1)
    <3>1. l \in Lanes /\ p - l >= 0
      BY <1>4, <2>1 DEF Lanes
    <3> QED
      BY <1>1, <1>3, <1>5, <3>1
  <2>3. TailSegmentedReduce(val, tails) = Run(0, p + 1)
    BY <1>4, <2>1, <2>2, ChainReduction DEF k
  <2> QED
    BY <1>5, <2>3 DEF tails, val
<1>6. CASE tails = {}
  <2>1. k = WarpThreads - 1
    BY <1>1, <1>6
  <2>2. p > WarpThreads - 1
    <3> SUFFICES ASSUME p <= WarpThreads - 1 PROVE FALSE
      OBVIOUS
    <3>1. p \in Lanes /\ p \notin tails /\ p - p >= 0 /\ ~(p - p > 0)
      BY <1>6 DEF Lanes
    <3> QED
      BY <1>3, <3>1
  <2>3. ASSUME NEW l \in 0 .. k
        PROVE  val[l] = Run(p - l, p - l + 1)
    <3>1. l \in Lanes /\ p - l >= 0
      BY <1>4, <2>1, <2>2 DEF Lanes
    <3> QED
      BY <1>3, <1>6, <3>1
  <2>4. k <= p /\ p - k \in Nat /\ p - k = p - WarpThreads + 1
    BY <1>4, <2>1, <2>2
  <2>5. val[k] = Run(p - k, p - k + 1) /\ \A l \in 0 .. k - 1 : val[l] = Run(p - l, p - l + 1)
    BY <1>4, <2>3
  <2>6. TailSegmentedReduce(val, tails) = Run(p - k, p + 1)
    BY <1>4, <2>4, <2>5, ChainReduction DEF k
  <2> QED
    BY <1>6, <2>2, <2>4, <2>6 DEF tails, val
<1> QED
  BY <1>5, <1>6

-----------------------------------------------------------------------------
(* The inductive invariant.                                                *)

\* A load returns a descriptor that is sound for the index it was asked for.
LEMMA LoadStatusSound ==
    ASSUME TypeOK, DescriptorsSound, NEW i \in Int, i < NumTiles
    PROVE  LoadStatus(i) \in TileDescriptor /\ SoundLoad(i, LoadStatus(i))
<1>1. CASE i < 0
  BY <1>1 DEF LoadStatus, SoundLoad, Descriptor, TileDescriptor, ScanTileStatus,
              Value, Garbage, Run, SCAN_TILE_OOB
<1>2. CASE i >= 0
  <2>1. i \in Tiles
    BY <1>2, NumTilesAssumption DEF Tiles
  <2>2. LoadStatus(i) = d_tile_descriptors[i]
    BY <1>2 DEF LoadStatus
  <2> QED
    BY <1>2, <2>1, <2>2 DEF TypeOK, DescriptorsSound, SoundLoad
<1> QED
  BY <1>1, <1>2

\* Publishing a descriptor keeps the array well typed and sound.
LEMMA PublishSound ==
    ASSUME TypeOK, DescriptorsSound, NEW i \in Tiles, NEW d \in TileDescriptor,
           SoundDescriptor(i, d),
           d_tile_descriptors' = [d_tile_descriptors EXCEPT ![i] = d]
    PROVE  d_tile_descriptors' \in [Tiles -> TileDescriptor] /\ DescriptorsSound'
BY DEF TypeOK, DescriptorsSound, SoundDescriptor

\* Descriptors the blocks build are well typed.
LEMMA DescriptorType ==
    \A x, y \in Int : /\ Run(x, y) \in Value
                      /\ Descriptor(SCAN_TILE_PARTIAL, Run(x, y)) \in TileDescriptor
                      /\ Descriptor(SCAN_TILE_INCLUSIVE, Run(x, y)) \in TileDescriptor
                      /\ Descriptor(SCAN_TILE_INVALID, Run(x, y)) \in TileDescriptor
                      /\ Descriptor(SCAN_TILE_OOB, Run(x, y)) \in TileDescriptor
BY DEF Run, Value, Descriptor, TileDescriptor, ScanTileStatus, SCAN_TILE_OOB,
       SCAN_TILE_INVALID, SCAN_TILE_PARTIAL, SCAN_TILE_INCLUSIVE

\* The invariant holds initially.
LEMMA InitIInv == Init => IInv
<1> SUFFICES ASSUME Init PROVE IInv
  OBVIOUS
<1> USE NumTilesAssumption, WarpThreadsAssumption
<1>1. /\ Descriptor(SCAN_TILE_INVALID, Garbage) \in TileDescriptor
      /\ Descriptor(SCAN_TILE_OOB, Garbage) \in TileDescriptor
      /\ Garbage \in Value
  BY DescriptorType DEF Garbage
<1>2. TypeOK
  BY <1>1 DEF Init, InitializeStatus, TypeOK, Tiles, Locations
<1>3. DescriptorsSound
  BY DEF Init, InitializeStatus, DescriptorsSound, SoundDescriptor, Descriptor
<1>4. \A t \in Tiles : pc[t] = "waiting" /\ predecessor_idx[t] = t - 1 /\ loaded[t] = {}
  BY DEF Init, Tiles
<1>5. PrefixCorrect /\ \A t \in Tiles \ {0} : LookBackSound(t)
  BY <1>4 DEF PrefixCorrect, LookBackSound
<1>6. \A t \in Tiles : OwnerStatus(t)
  BY <1>4 DEF Init, InitializeStatus, OwnerStatus, Descriptor
<1> QED
  BY <1>2, <1>3, <1>4, <1>5, <1>6 DEF IInv, Tiles

\* The step in which a warp has a complete window: the fold extends the
\* prefix down to the window's left end, or completes it.
LEMMA ProcessWindowStep ==
    ASSUME IInv, NEW t \in Tiles, ProcessWindow(t)
    PROVE  /\ t # 0
           /\ FoldWindow(t) \in Value
           /\ TailFlags(t) # {} => FoldWindow(t) = Run(0, t)
           /\ TailFlags(t) = {} => /\ predecessor_idx[t] - WarpThreads \in 0 .. t - 1
                                   /\ FoldWindow(t) = Run(predecessor_idx[t] - WarpThreads + 1, t)
<1> USE NumTilesAssumption, WarpThreadsAssumption
<1> DEFINE p == predecessor_idx[t]
<1>1. pc[t] = "lookback" /\ loaded[t] = Lanes /\ ~AnyInvalid(t)
  BY DEF ProcessWindow
<1>2. t # 0
  BY <1>1 DEF IInv
<1>3. LookBackSound(t)
  BY <1>2 DEF IInv
<1>4. /\ p \in 0 .. t - 1 /\ t \in Nat
      /\ p = t - 1 \/ exclusive_prefix[t] = Run(p + 1, t)
      /\ \A l \in Lanes : SoundLoad(p - l, seen[t][l]) /\ seen[t][l].status # SCAN_TILE_INVALID
  BY <1>1, <1>3 DEF LookBackSound, AnyInvalid, Tiles
<1>5. seen[t] \in [Lanes -> TileDescriptor]
  BY DEF IInv, TypeOK
<1>6. /\ TailFlags(t) # {} => WindowAggregate(t) = Run(0, p + 1)
      /\ TailFlags(t) = {} => /\ p - WarpThreads >= 0
                              /\ WindowAggregate(t) = Run(p - WarpThreads + 1, p + 1)
  <2>1. p \in Nat
    BY <1>4
  <2> HIDE DEF p
  <2> QED
    BY <1>4, <1>5, <2>1, WindowReduction DEF TailFlags, WindowAggregate
<1>7. ASSUME NEW b \in Nat, WindowAggregate(t) = Run(b, p + 1)
      PROVE  FoldWindow(t) = Run(b, t)
  <2>1. CASE p = t - 1
    BY <1>4, <1>7, <2>1 DEF FoldWindow
  <2>2. CASE p # t - 1
    <3>1. exclusive_prefix[t] = Run(p + 1, t)
      BY <1>4, <2>2
    <3>2. scan_op(Run(b, p + 1), Run(p + 1, t)) = Run(b, t)
      BY <1>4 DEF scan_op, Run, Garbage
    <3> QED
      BY <1>7, <2>2, <3>1, <3>2 DEF FoldWindow
  <2> QED
    BY <2>1, <2>2
<1>8. CASE TailFlags(t) # {}
  <2>1. FoldWindow(t) = Run(0, t)
    BY <1>6, <1>7, <1>8
  <2>2. Run(0, t) \in Value
    BY <1>4, DescriptorType
  <2> QED
    BY <1>2, <1>8, <2>1, <2>2
<1>9. CASE TailFlags(t) = {}
  <2>1. p - WarpThreads \in 0 .. t - 1 /\ p - WarpThreads + 1 \in Nat
    BY <1>4, <1>6, <1>9
  <2>2. FoldWindow(t) = Run(p - WarpThreads + 1, t)
    BY <1>6, <1>7, <1>9, <2>1
  <2>3. Run(p - WarpThreads + 1, t) \in Value
    BY <1>4, <2>1, DescriptorType
  <2> QED
    BY <1>2, <1>9, <2>1, <2>2, <2>3
<1> QED
  BY <1>8, <1>9

\* Only a tile's own block writes its descriptor, in step with its location.
LEMMA NextOwnerStatus ==
    ASSUME IInv, [Next]_vars
    PROVE  \A t \in Tiles : OwnerStatus(t)'
<1> USE NumTilesAssumption
<1> SUFFICES ASSUME NEW u \in Tiles PROVE OwnerStatus(u)'
  OBVIOUS
<1>0. OwnerStatus(u) /\ 0 \in Tiles
  BY DEF IInv, Tiles
<1> USE DEF IInv, TypeOK, OwnerStatus
<1>1. ASSUME NEW t \in Tiles, Schedule(t) PROVE OwnerStatus(u)'
  BY <1>0, <1>1 DEF Schedule
<1>2. ASSUME ScanFirstTile PROVE OwnerStatus(u)'
  BY <1>0, <1>2 DEF ScanFirstTile, SetInclusive
<1>3. ASSUME NEW t \in Tiles, PublishPartial(t) PROVE OwnerStatus(u)'
  BY <1>0, <1>3 DEF PublishPartial, SetPartial, Descriptor
<1>4. ASSUME NEW t \in Tiles, NEW l \in Lanes, LoadLane(t, l) PROVE OwnerStatus(u)'
  BY <1>0, <1>4 DEF LoadLane
<1>5. ASSUME NEW t \in Tiles, Retry(t) PROVE OwnerStatus(u)'
  BY <1>0, <1>5 DEF Retry
<1>6. ASSUME NEW t \in Tiles, ProcessWindow(t) PROVE OwnerStatus(u)'
  BY <1>0, <1>6 DEF ProcessWindow
<1>7. ASSUME NEW t \in Tiles, PublishInclusive(t) PROVE OwnerStatus(u)'
  BY <1>0, <1>7 DEF PublishInclusive, SetInclusive
<1>8. CASE UNCHANGED vars
  BY <1>0, <1>8 DEF vars
<1> QED
  BY <1>1, <1>2, <1>3, <1>4, <1>5, <1>6, <1>7, <1>8 DEF Next, Block, Terminated

\* Every step preserves the invariant.
LEMMA NextIInv == IInv /\ [Next]_vars => IInv'
<1> SUFFICES ASSUME IInv, [Next]_vars PROVE IInv'
  OBVIOUS
<1> USE NumTilesAssumption, WarpThreadsAssumption
<1>0. \A t \in Tiles : OwnerStatus(t)'
  BY NextOwnerStatus
<1>1. ASSUME NEW t \in Tiles, Schedule(t)
      PROVE  IInv'
  <2>1. TypeOK'
    BY <1>1 DEF IInv, TypeOK, Schedule, Locations
  <2>2. DescriptorsSound'
    BY <1>1 DEF IInv, DescriptorsSound, Schedule
  <2>3. PrefixCorrect'
    BY <1>1 DEF IInv, PrefixCorrect, Schedule, TypeOK
  <2>4. \A u \in Tiles \ {0} : LookBackSound(u)'
    <3> TAKE u \in Tiles \ {0}
    <3>1. CASE u = t
      BY <1>1, <3>1 DEF IInv, TypeOK, LookBackSound, Schedule, Tiles
    <3>2. CASE u # t
      BY <1>1, <3>2 DEF IInv, TypeOK, LookBackSound, Schedule
    <3> QED
      BY <3>1, <3>2
  <2> QED
    BY <1>0, <1>1, <2>1, <2>2, <2>3, <2>4 DEF IInv, TypeOK, Schedule
<1>2. ASSUME ScanFirstTile
      PROVE  IInv'
  <2>0. 0 \in Tiles
    BY DEF Tiles
  <2>1. d_tile_descriptors' \in [Tiles -> TileDescriptor] /\ DescriptorsSound'
    <3>1. CASE NumTiles > 1
      <4>1. Descriptor(SCAN_TILE_INCLUSIVE, Run(0, 1)) \in TileDescriptor
        BY DescriptorType
      <4>2. SoundDescriptor(0, Descriptor(SCAN_TILE_INCLUSIVE, Run(0, 1)))
        BY DEF SoundDescriptor, Descriptor
      <4> QED
        BY <1>2, <2>0, <3>1, <4>1, <4>2, PublishSound DEF IInv, ScanFirstTile, SetInclusive
    <3>2. CASE ~(NumTiles > 1)
      BY <1>2, <3>2 DEF IInv, TypeOK, DescriptorsSound, ScanFirstTile
    <3> QED
      BY <3>1, <3>2
  <2>2. TypeOK'
    BY <1>2, <2>0, <2>1 DEF IInv, TypeOK, ScanFirstTile, Locations
  <2>3. PrefixCorrect'
    BY <1>2, <2>0 DEF IInv, PrefixCorrect, ScanFirstTile, TypeOK
  <2>4. \A u \in Tiles \ {0} : LookBackSound(u)'
    BY <1>2, <2>0 DEF IInv, TypeOK, LookBackSound, ScanFirstTile
  <2> QED
    BY <1>0, <1>2, <2>0, <2>1, <2>2, <2>3, <2>4 DEF IInv, TypeOK, ScanFirstTile
<1>3. ASSUME NEW t \in Tiles, PublishPartial(t)
      PROVE  IInv'
  <2>1. d_tile_descriptors' \in [Tiles -> TileDescriptor] /\ DescriptorsSound'
    <3>1. Descriptor(SCAN_TILE_PARTIAL, Run(t, t + 1)) \in TileDescriptor
      BY DescriptorType DEF Tiles
    <3>2. SoundDescriptor(t, Descriptor(SCAN_TILE_PARTIAL, Run(t, t + 1)))
      BY <1>3 DEF SoundDescriptor, Descriptor, PublishPartial
    <3> QED
      BY <1>3, <3>1, <3>2, PublishSound DEF IInv, PublishPartial, SetPartial
  <2>2. TypeOK'
    BY <1>3, <2>1 DEF IInv, TypeOK, PublishPartial, Locations
  <2>3. PrefixCorrect'
    BY <1>3 DEF IInv, PrefixCorrect, PublishPartial, TypeOK
  <2>4. \A u \in Tiles \ {0} : LookBackSound(u)'
    BY <1>3 DEF IInv, TypeOK, LookBackSound, PublishPartial
  <2> QED
    BY <1>0, <1>3, <2>1, <2>2, <2>3, <2>4 DEF IInv, TypeOK, PublishPartial
<1>4. ASSUME NEW t \in Tiles, NEW l \in Lanes, LoadLane(t, l)
      PROVE  IInv'
  <2>1. t # 0 /\ LookBackSound(t) /\ pc[t] \in {"scan", "lookback"}
    BY <1>4 DEF IInv, LoadLane
  <2>2. predecessor_idx[t] - l \in Int /\ predecessor_idx[t] - l < NumTiles
    BY <2>1 DEF LookBackSound, Tiles, Lanes
  <2>3. /\ LoadStatus(predecessor_idx[t] - l) \in TileDescriptor
        /\ SoundLoad(predecessor_idx[t] - l, LoadStatus(predecessor_idx[t] - l))
    BY <2>2, LoadStatusSound DEF IInv
  <2>4. TypeOK'
    BY <1>4, <2>3 DEF IInv, TypeOK, LoadLane
  <2>5. DescriptorsSound' /\ PrefixCorrect'
    BY <1>4 DEF IInv, DescriptorsSound, PrefixCorrect, LoadLane
  <2>6. \A u \in Tiles \ {0} : LookBackSound(u)'
    <3> TAKE u \in Tiles \ {0}
    <3>1. CASE u = t
      <4>1. \A m \in loaded'[t] : SoundLoad(predecessor_idx[t] - m, seen'[t][m])
        <5> TAKE m \in loaded'[t]
        <5>1. CASE m = l
          BY <1>4, <2>3, <5>1 DEF IInv, TypeOK, LoadLane
        <5>2. CASE m # l
          <6>1. m \in loaded[t] /\ seen'[t][m] = seen[t][m]
            BY <1>4, <5>2 DEF IInv, TypeOK, LoadLane
          <6> QED
            BY <2>1, <6>1 DEF LookBackSound
        <5> QED
          BY <5>1, <5>2
      <4>2. SoundLoad(predecessor_idx[t] - l, seen'[t][l])
        BY <1>4, <2>3 DEF IInv, TypeOK, LoadLane
      <4>3. UNCHANGED <<pc, predecessor_idx, exclusive_prefix>>
        BY <1>4 DEF LoadLane
      <4>4. \A m \in loaded'[t] : SoundLoad(predecessor_idx[t] - m, seen[t][m])'
        BY <4>1, <4>3 DEF SoundLoad, SoundDescriptor
      <4> QED
        BY <2>1, <3>1, <4>3, <4>4 DEF LookBackSound
    <3>2. CASE u # t
      <4>1. loaded'[u] = loaded[u] /\ seen'[u] = seen[u]
        BY <1>4, <3>2 DEF IInv, TypeOK, LoadLane
      <4>2. UNCHANGED <<pc, predecessor_idx, exclusive_prefix>>
        BY <1>4 DEF LoadLane
      <4> QED
        BY <4>1, <4>2 DEF IInv, LookBackSound, SoundLoad, SoundDescriptor
    <3> QED
      BY <3>1, <3>2
  <2> QED
    BY <1>0, <1>4, <2>1, <2>4, <2>5, <2>6 DEF IInv, TypeOK, LoadLane
<1>5. ASSUME NEW t \in Tiles, Retry(t)
      PROVE  IInv'
  <2>1. TypeOK'
    BY <1>5 DEF IInv, TypeOK, Retry
  <2>2. DescriptorsSound' /\ PrefixCorrect'
    BY <1>5 DEF IInv, DescriptorsSound, PrefixCorrect, Retry
  <2>3. \A u \in Tiles \ {0} : LookBackSound(u)'
    BY <1>5 DEF IInv, TypeOK, LookBackSound, SoundLoad, SoundDescriptor, Retry
  <2> QED
    BY <1>0, <1>5, <2>1, <2>2, <2>3 DEF IInv, TypeOK, Retry
<1>6. ASSUME NEW t \in Tiles, ProcessWindow(t)
      PROVE  IInv'
  <2> USE <1>6
  <2>1. /\ t # 0
        /\ FoldWindow(t) \in Value
        /\ TailFlags(t) # {} => FoldWindow(t) = Run(0, t)
        /\ TailFlags(t) = {} => /\ predecessor_idx[t] - WarpThreads \in 0 .. t - 1
                                /\ FoldWindow(t) = Run(predecessor_idx[t] - WarpThreads + 1, t)
    BY ProcessWindowStep
  <2>2. TypeOK'
    <3>1. predecessor_idx' \in [Tiles -> Int]
      BY DEF IInv, TypeOK, ProcessWindow
    <3>2. pc' \in [Tiles -> Locations] /\ loaded' \in [Tiles -> SUBSET Lanes]
      BY DEF IInv, TypeOK, ProcessWindow, Locations
    <3>3. exclusive_prefix' \in [Tiles -> Value]
      BY <2>1 DEF IInv, TypeOK, ProcessWindow
    <3> QED
      BY <3>1, <3>2, <3>3 DEF IInv, TypeOK, ProcessWindow
  <2>3. DescriptorsSound'
    BY DEF IInv, DescriptorsSound, ProcessWindow
  <2>4. exclusive_prefix'[t] = FoldWindow(t) /\ pc[t] = "lookback"
    BY DEF IInv, TypeOK, ProcessWindow
  <2>5. \A u \in Tiles : u # t => /\ pc'[u] = pc[u] /\ loaded'[u] = loaded[u]
                                  /\ predecessor_idx'[u] = predecessor_idx[u]
                                  /\ exclusive_prefix'[u] = exclusive_prefix[u]
                                  /\ seen'[u] = seen[u]
    BY DEF IInv, TypeOK, ProcessWindow
  <2>6. CASE TailFlags(t) # {}
    <3>1. pc'[t] = "publish" /\ exclusive_prefix'[t] = Run(0, t)
      BY <2>1, <2>4, <2>6 DEF IInv, TypeOK, ProcessWindow
    <3>2. PrefixCorrect'
      BY <2>5, <3>1 DEF IInv, PrefixCorrect
    <3>3. \A u \in Tiles \ {0} : LookBackSound(u)'
      BY <2>5, <3>1 DEF IInv, LookBackSound, SoundLoad, SoundDescriptor
    <3> QED
      BY <1>0, <2>1, <2>2, <2>3, <2>5, <3>1, <3>2, <3>3 DEF IInv, Tiles
  <2>7. CASE TailFlags(t) = {}
    <3>1. /\ pc' = pc /\ loaded'[t] = {}
          /\ predecessor_idx'[t] = predecessor_idx[t] - WarpThreads
      BY <2>7 DEF IInv, TypeOK, ProcessWindow
    <3>2. PrefixCorrect'
      BY <2>4, <2>5, <3>1 DEF IInv, PrefixCorrect
    <3>3. LookBackSound(t)'
      BY <2>1, <2>4, <2>7, <3>1 DEF LookBackSound
    <3>4. \A u \in Tiles \ {0} : LookBackSound(u)'
      BY <2>5, <3>3 DEF IInv, LookBackSound, SoundLoad, SoundDescriptor
    <3> QED
      BY <1>0, <2>2, <2>3, <2>4, <2>5, <3>1, <3>2, <3>4 DEF IInv
  <2> QED
    BY <2>6, <2>7
<1>7. ASSUME NEW t \in Tiles, PublishInclusive(t)
      PROVE  IInv'
  <2>1. t # 0 /\ exclusive_prefix[t] = Run(0, t) /\ t \in Nat
    BY <1>7 DEF IInv, PrefixCorrect, PublishInclusive, Tiles
  <2>2. scan_op(exclusive_prefix[t], Run(t, t + 1)) = Run(0, t + 1)
    BY <2>1 DEF scan_op, Run, Garbage
  <2>3. d_tile_descriptors' \in [Tiles -> TileDescriptor] /\ DescriptorsSound'
    <3>1. Descriptor(SCAN_TILE_INCLUSIVE, Run(0, t + 1)) \in TileDescriptor
      BY <2>1, DescriptorType
    <3>2. SoundDescriptor(t, Descriptor(SCAN_TILE_INCLUSIVE, Run(0, t + 1)))
      BY DEF SoundDescriptor, Descriptor
    <3> QED
      BY <1>7, <2>2, <3>1, <3>2, PublishSound DEF IInv, PublishInclusive, SetInclusive
  <2>4. TypeOK'
    BY <1>7, <2>3 DEF IInv, TypeOK, PublishInclusive, Locations
  <2>5. PrefixCorrect'
    BY <1>7, <2>1 DEF IInv, PrefixCorrect, PublishInclusive, TypeOK
  <2>6. \A u \in Tiles \ {0} : LookBackSound(u)'
    BY <1>7 DEF IInv, TypeOK, LookBackSound, SoundLoad, SoundDescriptor, PublishInclusive
  <2>7. pc'[0] = pc[0] /\ \A u \in Tiles : pc'[u] = "waiting" => pc[u] = "waiting"
    BY <1>7, <2>1 DEF IInv, TypeOK, PublishInclusive, Tiles
  <2> QED
    BY <1>0, <1>7, <2>3, <2>4, <2>5, <2>6, <2>7 DEF IInv, PublishInclusive
<1>8. CASE UNCHANGED vars
  BY <1>0, <1>8 DEF IInv, TypeOK, DescriptorsSound, SoundDescriptor, LookBackSound, SoundLoad,
              PrefixCorrect, vars
<1>9. CASE Terminated
  BY <1>8, <1>9 DEF Terminated
<1> QED
  BY <1>1, <1>2, <1>3, <1>4, <1>5, <1>6, <1>7, <1>8, <1>9 DEF Next, Block

-----------------------------------------------------------------------------
(* The theorems.                                                           *)

\* The inductive invariant holds in every reachable state.
THEOREM LookBackInvariant == Spec => []IInv
BY InitIInv, NextIInv, PTL DEF Spec

\* The state of the look-back kernel is always well typed.
THEOREM TypeCorrect == Spec => []TypeOK
<1>1. IInv => TypeOK
  BY DEF IInv
<1> QED
  BY <1>1, LookBackInvariant, PTL

\* Whatever the interleaving of blocks and of the loads of a warp, a block
\* leaves lookback with the reduction of exactly its predecessors, and every
\* descriptor in memory is sound.
THEOREM LookBackCorrect == Spec => [](PrefixCorrect /\ DescriptorsSound)
<1>1. IInv => PrefixCorrect /\ DescriptorsSound
  BY DEF IInv
<1> QED
  BY <1>1, LookBackInvariant, PTL

\* No lane of a look-back loads in front of the padding of the tile state.
THEOREM LookBackInBounds == Spec => []LoadsInBounds
<1>1. IInv => LoadsInBounds
  BY WarpThreadsAssumption DEF IInv, LoadsInBounds, LookBackSound, Tiles
<1> QED
  BY <1>1, LookBackInvariant, PTL

\* Descriptors only gain information: a step changes a descriptor only from
\* INVALID to PARTIAL or INCLUSIVE, or from PARTIAL to INCLUSIVE.
THEOREM DescriptorsOnlyGain == Spec => DescriptorsMonotone
<1> DEFINE Gains == \A i \in Tiles :
        \/ d_tile_descriptors'[i] = d_tile_descriptors[i]
        \/ StatusRank(d_tile_descriptors'[i]) > StatusRank(d_tile_descriptors[i])
<1>1. ASSUME IInv, [Next]_vars
      PROVE  [Gains]_vars
  <2> USE NumTilesAssumption, <1>1
  <2>0. 0 \in Tiles
    BY DEF Tiles
  <2>1. \A v, w : /\ StatusRank(Descriptor(SCAN_TILE_PARTIAL, v)) = 1
                  /\ StatusRank(Descriptor(SCAN_TILE_INCLUSIVE, v)) = 2
                  /\ w.status = SCAN_TILE_INVALID => StatusRank(w) = 0
                  /\ w.status = SCAN_TILE_PARTIAL => StatusRank(w) = 1
    BY DEF StatusRank, Descriptor, SCAN_TILE_INVALID, SCAN_TILE_PARTIAL, SCAN_TILE_INCLUSIVE
  <2>2. CASE d_tile_descriptors' = d_tile_descriptors
    BY <2>2
  <2>3. ASSUME NEW t \in Tiles, PublishPartial(t) PROVE Gains
    BY <2>1, <2>3 DEF IInv, TypeOK, OwnerStatus, PublishPartial, SetPartial
  <2>4. ASSUME NEW t \in Tiles, PublishInclusive(t) PROVE Gains
    BY <2>1, <2>4 DEF IInv, TypeOK, OwnerStatus, PublishInclusive, SetInclusive
  <2>5. CASE ScanFirstTile
    BY <2>0, <2>1, <2>5 DEF IInv, TypeOK, OwnerStatus, ScanFirstTile, SetInclusive
  <2>6. \/ d_tile_descriptors' = d_tile_descriptors \/ ScanFirstTile
        \/ \E t \in Tiles : PublishPartial(t) \/ PublishInclusive(t)
    BY DEF Next, Block, Schedule, LoadLane, Retry, ProcessWindow, Terminated, vars
  <2> QED
    BY <2>2, <2>3, <2>4, <2>5, <2>6
<1> QED
  BY <1>1, LookBackInvariant, PTL DEF Spec, DescriptorsMonotone

-----------------------------------------------------------------------------
(* The stable reduction order.                                             *)

\* The lanes between a tile and its anchor are a segment of the warp, and what
\* they look at are real tiles, the anchor last.
LEMMA AnchorSegment ==
    ASSUME NEW t \in Tiles \ {0}
    PROVE  /\ AnchorLane(t) \in Lanes /\ AnchorLane(t) <= t - 1
           /\ \A l \in 0 .. AnchorLane(t) : (t - 1 - l) % WarpThreads = AnchorLane(t) - l
<1>1. t - 1 \in Nat
  BY NumTilesAssumption DEF Tiles
<1>2. \A w \in Nat \ {0}, n \in Nat : (n % w) \in 0 .. w - 1 /\ (n % w) <= n
  OBVIOUS
<1>3. ASSUME NEW w \in Nat \ {0}, NEW n \in Nat, NEW l \in 0 .. (n % w)
      PROVE  (n - l) % w = (n % w) - l
  OBVIOUS
<1> QED
  BY <1>1, <1>2, <1>3, WarpThreadsAssumption DEF AnchorLane, Lanes

\* The lane flagged for the reduction is where it ends.
LEMMA AnchorIsTail ==
    ASSUME NEW a \in Lanes
    PROVE  TailLane({a}) = a
<1>1. TailLane({a}) \in {a}
  BY TailLaneProperty
<1> QED
  BY <1>1

-----------------------------------------------------------------------------
(* The steps that only the stable order has.                               *)

\* The state in which a warp may reduce: every lane up to the anchor's holds
\* the aggregate of its tile, and the anchor's lane the prefix.
LEMMA WindowToAnchor ==
    ASSUME EitherIInv, stable, NEW t \in Tiles, pc[t] = "lookback", loaded[t] = Lanes,
           ~AnyInvalid(t), AnchorIsInclusive(t)
    PROVE  /\ t # 0
           /\ \A l \in 0 .. AnchorLane(t) :
                seen[t][l].status =
                    IF l = AnchorLane(t) THEN SCAN_TILE_INCLUSIVE ELSE SCAN_TILE_PARTIAL
           /\ TailSegmentedReduce([l \in Lanes |-> seen[t][l].value], {AnchorLane(t)}) = Run(0, t)
<1> USE NumTilesAssumption, WarpThreadsAssumption
<1> DEFINE a == AnchorLane(t)
           val == [l \in Lanes |-> seen[t][l].value]
<1>1. t # 0 /\ t - 1 \in Nat /\ t \in Nat
  BY DEF EitherIInv, IInv, Tiles
<1>2. a \in Lanes /\ a \in Nat /\ a <= t - 1
  BY <1>1, AnchorSegment DEF Lanes
<1>3. predecessor_idx[t] = t - 1 /\ \A l \in Lanes : SoundLoad(t - 1 - l, seen[t][l])
  BY <1>1 DEF EitherIInv, IInv, LookBackSound, AnchorsOnly
<1>4. ASSUME NEW l \in 0 .. a
      PROVE  /\ l \in Lanes /\ t - 1 - l \in Nat /\ SoundDescriptor(t - 1 - l, seen[t][l])
             /\ seen[t][l].status # SCAN_TILE_INVALID
  <2>1. l \in Lanes /\ t - 1 - l \in Nat
    BY <1>1, <1>2 DEF Lanes
  <2> QED
    BY <1>3, <2>1 DEF SoundLoad, AnyInvalid
<1>5. ASSUME NEW l \in 0 .. a - 1
      PROVE  seen[t][l].status = SCAN_TILE_PARTIAL /\ val[l] = Run(t - 1 - l, t - 1 - l + 1)
  <2>1. l \in 0 .. a /\ (t - 1 - l) % WarpThreads # 0
    BY <1>1, <1>2, AnchorSegment
  <2>2. seen[t][l].status # SCAN_TILE_INCLUSIVE
    BY <1>1, <1>4, <2>1 DEF EitherIInv, AnchorsOnly
  <2> QED
    BY <1>4, <2>1, <2>2 DEF SoundDescriptor
<1>6. seen[t][a].status = SCAN_TILE_INCLUSIVE /\ val[a] = Run(0, t - 1 - a + 1)
  <2>1. seen[t][a].status = SCAN_TILE_INCLUSIVE
    BY DEF AnchorIsInclusive
  <2>2. a \in 0 .. a
    BY <1>2
  <2>3. SoundDescriptor(t - 1 - a, seen[t][a])
    BY <1>4, <2>2
  <2> QED
    BY <1>2, <2>1, <2>3 DEF SoundDescriptor, SCAN_TILE_INVALID, SCAN_TILE_PARTIAL, SCAN_TILE_INCLUSIVE
<1>7. \A l \in 0 .. a :
        seen[t][l].status = IF l = a THEN SCAN_TILE_INCLUSIVE ELSE SCAN_TILE_PARTIAL
  <2> TAKE l \in 0 .. a
  <2>1. l = a \/ (l # a /\ l \in 0 .. a - 1)
    BY <1>2
  <2> QED
    BY <1>5, <1>6, <2>1
<1>8. TailSegmentedReduce(val, {a}) = Run(0, t - 1 + 1)
  <2>1. TailLane({a}) = a
    BY <1>2, AnchorIsTail
  <2>2. \A l \in 0 .. a - 1 : val[l] = Run(t - 1 - l, t - 1 - l + 1)
    BY <1>5
  <2> DEFINE p == t - 1
  <2>3. /\ p \in Nat /\ a \in Nat /\ a <= p /\ 0 \in Nat
        /\ val[a] = Run(0, p - a + 1)
        /\ \A l \in 0 .. a - 1 : val[l] = Run(p - l, p - l + 1)
    BY <1>1, <1>2, <1>6, <2>2
  <2> HIDE DEF a, val, p
  <2>4. TailSegmentedReduce(val, {a}) = Run(0, p + 1)
    BY <2>1, <2>3, ChainReduction
  <2> QED
    BY <2>4 DEF p
<1> QED
  BY <1>1, <1>7, <1>8

\* The warp loads again, whatever it was that it could not use.
LEMMA WaitAnchorStep ==
    ASSUME EitherIInv, stable, stable' = stable, NEW t \in Tiles, WaitAnchor(t)
    PROVE  EitherIInv'
<1> USE DEF EitherIInv
<1>1. TypeOK'
  BY DEF IInv, TypeOK, WaitAnchor
<1>2. DescriptorsSound' /\ PrefixCorrect' /\ \A u \in Tiles : OwnerStatus(u)'
  BY DEF IInv, DescriptorsSound, PrefixCorrect, OwnerStatus, WaitAnchor
<1>3. \A u \in Tiles \ {0} : LookBackSound(u)'
  BY DEF IInv, TypeOK, LookBackSound, SoundLoad, SoundDescriptor, WaitAnchor
<1>4. IInv'
  BY <1>1, <1>2, <1>3 DEF IInv, TypeOK, WaitAnchor
<1>5. AnchorsOnly'
  BY DEF IInv, TypeOK, AnchorsOnly, WaitAnchor
<1>6. StableOrder'
  BY DEF StableOrder, WaitAnchor
<1> QED
  BY <1>4, <1>5, <1>6

\* The warp reduces from its anchor on.
LEMMA ReduceToAnchorStep ==
    ASSUME EitherIInv, stable, stable' = stable, NEW t \in Tiles, ReduceToAnchor(t)
    PROVE  EitherIInv'
<1> USE DEF EitherIInv
<1>1. /\ t # 0
      /\ \A l \in 0 .. AnchorLane(t) :
           seen[t][l].status =
               IF l = AnchorLane(t) THEN SCAN_TILE_INCLUSIVE ELSE SCAN_TILE_PARTIAL
      /\ exclusive_prefix' = [exclusive_prefix EXCEPT ![t] = Run(0, t)]
  BY WindowToAnchor DEF ReduceToAnchor
<1>2. pc' = [pc EXCEPT ![t] = "publish"] /\ pc[t] = "lookback"
  BY DEF ReduceToAnchor
<1>3. Run(0, t) \in Value
  BY DescriptorType DEF Tiles
<1>4. TypeOK'
  BY <1>1, <1>2, <1>3 DEF IInv, TypeOK, ReduceToAnchor, Locations
<1>5. DescriptorsSound' /\ \A u \in Tiles : OwnerStatus(u)'
  BY <1>2 DEF IInv, TypeOK, DescriptorsSound, OwnerStatus, ReduceToAnchor
<1>6. PrefixCorrect'
  BY <1>1, <1>2 DEF IInv, TypeOK, PrefixCorrect
<1>7. \A u \in Tiles \ {0} : LookBackSound(u)'
  <2> TAKE u \in Tiles \ {0}
  <2>1. CASE u = t
    BY <1>2, <2>1 DEF IInv, TypeOK, LookBackSound
  <2>2. CASE u # t
    <3>1. pc'[u] = pc[u] /\ exclusive_prefix'[u] = exclusive_prefix[u]
      BY <1>1, <1>2, <2>2 DEF IInv, TypeOK
    <3>2. UNCHANGED <<predecessor_idx, loaded, seen>>
      BY DEF ReduceToAnchor
    <3> QED
      BY <3>1, <3>2 DEF IInv, LookBackSound, SoundLoad, SoundDescriptor
  <2> QED
    BY <2>1, <2>2
<1>8. IInv'
  BY <1>1, <1>2, <1>4, <1>5, <1>6, <1>7 DEF IInv, TypeOK, ReduceToAnchor
<1>9. AnchorsOnly'
  BY <1>2 DEF IInv, TypeOK, AnchorsOnly, ReduceToAnchor
<1>10. StableOrder'
  BY <1>1, <1>2 DEF IInv, TypeOK, StableOrder, AnchorLane, ReduceToAnchor
<1> QED
  BY <1>8, <1>9, <1>10

\* An anchor publishes its prefix; any other tile keeps its aggregate.
LEMMA PublishAnchorStep ==
    ASSUME EitherIInv, stable, stable' = stable, NEW t \in Tiles, PublishAnchor(t)
    PROVE  EitherIInv'
<1> USE NumTilesAssumption DEF EitherIInv
<1>0. pc' = [pc EXCEPT ![t] = "done"] /\ pc[t] = "publish"
  BY DEF PublishAnchor
<1>1. t # 0 /\ exclusive_prefix[t] = Run(0, t) /\ t \in Nat
  BY <1>0 DEF IInv, PrefixCorrect, Tiles
<1>2. d_tile_descriptors' \in [Tiles -> TileDescriptor] /\ DescriptorsSound'
  <2>1. CASE t % WarpThreads = 0
    <3>1. scan_op(exclusive_prefix[t], Run(t, t + 1)) = Run(0, t + 1)
      BY <1>1 DEF scan_op, Run, Garbage
    <3>2. Descriptor(SCAN_TILE_INCLUSIVE, Run(0, t + 1)) \in TileDescriptor
      BY <1>1, DescriptorType
    <3>3. SoundDescriptor(t, Descriptor(SCAN_TILE_INCLUSIVE, Run(0, t + 1)))
      BY DEF SoundDescriptor, Descriptor
    <3> QED
      BY <2>1, <3>1, <3>2, <3>3, PublishSound DEF IInv, PublishAnchor, SetInclusive
  <2>2. CASE t % WarpThreads # 0
    BY <2>2 DEF IInv, TypeOK, DescriptorsSound, PublishAnchor
  <2> QED
    BY <2>1, <2>2
<1>3. TypeOK'
  BY <1>0, <1>2 DEF IInv, TypeOK, PublishAnchor, Locations
<1>4. PrefixCorrect'
  BY <1>0, <1>1 DEF IInv, PrefixCorrect, PublishAnchor, TypeOK
<1>5. \A u \in Tiles \ {0} : LookBackSound(u)'
  BY <1>0 DEF IInv, TypeOK, LookBackSound, SoundLoad, SoundDescriptor, PublishAnchor
<1>6. \A u \in Tiles : OwnerStatus(u)'
  BY <1>0 DEF IInv, TypeOK, OwnerStatus, PublishAnchor, SetInclusive
<1>7. IInv'
  BY <1>0, <1>1, <1>2, <1>3, <1>4, <1>5, <1>6 DEF IInv, TypeOK, PublishAnchor, Tiles
<1>8. AnchorsOnly'
  <2>1. \A i \in Tiles :
          d_tile_descriptors'[i].status = SCAN_TILE_INCLUSIVE => i % WarpThreads = 0
    BY DEF IInv, TypeOK, AnchorsOnly, PublishAnchor, SetInclusive
  <2> QED
    BY <1>0, <2>1 DEF IInv, TypeOK, AnchorsOnly, PublishAnchor
<1>9. StableOrder'
  BY <1>0 DEF IInv, TypeOK, StableOrder, AnchorLane, PublishAnchor
<1> QED
  BY <1>7, <1>8, <1>9

-----------------------------------------------------------------------------
(* The steps that both orders have.                                        *)

\* Scheduling, the first tile, the aggregate and the loads of a stable block.
LEMMA CommonStep ==
    ASSUME EitherIInv, stable, stable' = stable, NEW t \in Tiles,
           \/ Schedule(t) \/ (t = 0 /\ ScanFirstTile) \/ PublishPartial(t)
           \/ \E l \in Lanes : LoadLane(t, l)
    PROVE  AnchorsOnly' /\ StableOrder'
<1> USE NumTilesAssumption, WarpThreadsAssumption DEF EitherIInv
<1>1. CASE Schedule(t)
  <2>1. AnchorsOnly'
    BY <1>1 DEF IInv, TypeOK, AnchorsOnly, Schedule
  <2>2. StableOrder'
    BY <1>1 DEF IInv, TypeOK, StableOrder, AnchorLane, Schedule
  <2> QED
    BY <2>1, <2>2
<1>2. CASE t = 0 /\ ScanFirstTile
  <2>1. 0 % WarpThreads = 0
    <3>1. \A w \in Nat \ {0} : 0 % w = 0
      OBVIOUS
    <3> QED
      BY <3>1
  <2>2. \A i \in Tiles :
          d_tile_descriptors'[i].status = SCAN_TILE_INCLUSIVE => i % WarpThreads = 0
    BY <1>2, <2>1 DEF IInv, TypeOK, AnchorsOnly, ScanFirstTile, SetInclusive
  <2>3. AnchorsOnly'
    BY <1>2, <2>2 DEF IInv, TypeOK, AnchorsOnly, ScanFirstTile
  <2>4. StableOrder'
    BY <1>2 DEF IInv, TypeOK, StableOrder, AnchorLane, ScanFirstTile
  <2> QED
    BY <2>3, <2>4
<1>3. CASE PublishPartial(t)
  <2>1. \A i \in Tiles :
          d_tile_descriptors'[i].status = SCAN_TILE_INCLUSIVE => i % WarpThreads = 0
    BY <1>3 DEF IInv, TypeOK, AnchorsOnly, PublishPartial, SetPartial, Descriptor,
                SCAN_TILE_PARTIAL, SCAN_TILE_INCLUSIVE
  <2>2. AnchorsOnly'
    BY <1>3, <2>1 DEF IInv, TypeOK, AnchorsOnly, PublishPartial
  <2>3. StableOrder'
    BY <1>3 DEF IInv, TypeOK, StableOrder, AnchorLane, PublishPartial
  <2> QED
    BY <2>2, <2>3
<1>4. ASSUME NEW l \in Lanes, LoadLane(t, l)
      PROVE  AnchorsOnly' /\ StableOrder'
  <2>1. /\ pc[t] \in {"scan", "lookback"} /\ t # 0 /\ predecessor_idx[t] = t - 1
        /\ t - 1 - l \in Int /\ t - 1 - l < NumTiles
    BY <1>4 DEF IInv, LoadLane, AnchorsOnly, Tiles, Lanes
  <2>2. LoadStatus(t - 1 - l).status = SCAN_TILE_INCLUSIVE => (t - 1 - l) % WarpThreads = 0
    <3>1. CASE t - 1 - l < 0
      BY <3>1 DEF LoadStatus, Descriptor, SCAN_TILE_OOB, SCAN_TILE_INCLUSIVE
    <3>2. CASE ~(t - 1 - l < 0)
      BY <2>1, <3>2 DEF LoadStatus, AnchorsOnly, Tiles
    <3> QED
      BY <3>1, <3>2
  <2>3. /\ seen' = [seen EXCEPT ![t][l] = LoadStatus(t - 1 - l)]
        /\ loaded' = [loaded EXCEPT ![t] = @ \union {l}]
        /\ UNCHANGED <<d_tile_descriptors, pc, predecessor_idx>>
    BY <1>4, <2>1 DEF LoadLane
  <2>4. \A u \in Tiles \ {0} : pc[u] \in {"scan", "lookback"} =>
          \A m \in loaded'[u] : seen'[u][m].status = SCAN_TILE_INCLUSIVE =>
                                (u - 1 - m) % WarpThreads = 0
    <3> TAKE u \in Tiles \ {0}
    <3> HAVE pc[u] \in {"scan", "lookback"}
    <3> TAKE m \in loaded'[u]
    <3>1. CASE u = t /\ m = l
      BY <2>2, <2>3, <3>1 DEF IInv, TypeOK
    <3>2. CASE ~(u = t /\ m = l)
      <4>1. m \in loaded[u] /\ m \in Lanes
        BY <2>3, <3>2 DEF IInv, TypeOK
      <4>2. seen'[u][m] = seen[u][m]
        BY <2>3, <3>2, <4>1 DEF IInv, TypeOK
      <4> QED
        BY <4>1, <4>2 DEF AnchorsOnly
    <3> QED
      BY <3>1, <3>2
  <2>5. AnchorsOnly'
    BY <2>3, <2>4 DEF AnchorsOnly
  <2>6. StableOrder'
    BY <2>1, <2>3 DEF IInv, TypeOK, StableOrder, AnchorLane
  <2> QED
    BY <2>5, <2>6
<1> QED
  BY <1>1, <1>2, <1>3, <1>4

\* Every step of either order preserves the invariant.
LEMMA EitherNextIInv == EitherIInv /\ [EitherNext]_allVars => EitherIInv'
<1> SUFFICES ASSUME EitherIInv, [EitherNext]_allVars PROVE EitherIInv'
  OBVIOUS
<1>0. stable' = stable
  BY DEF EitherNext, EitherBlock, Terminated, allVars
<1>1. ASSUME [Next]_vars
      PROVE  IInv'
  BY <1>1, NextIInv DEF EitherIInv
<1>2. CASE ~stable
  <2>1. [Next]_vars
    BY <1>2 DEF EitherNext, EitherBlock, Next, allVars
  <2> QED
    BY <1>0, <1>1, <1>2, <2>1 DEF EitherIInv, AnchorsOnly, StableOrder
<1>3. CASE stable
  <2>1. ASSUME NEW t \in Tiles,
               \/ Schedule(t) \/ (t = 0 /\ ScanFirstTile) \/ PublishPartial(t)
               \/ \E l \in Lanes : LoadLane(t, l)
        PROVE  EitherIInv'
    <3>1. [Next]_vars
      BY <2>1 DEF Next, Block
    <3>2. AnchorsOnly' /\ StableOrder'
      BY <1>0, <1>3, <2>1, CommonStep
    <3> QED
      BY <1>1, <3>1, <3>2 DEF EitherIInv
  <2>2. ASSUME NEW t \in Tiles, WaitAnchor(t) \/ ReduceToAnchor(t) \/ PublishAnchor(t)
        PROVE  EitherIInv'
    BY <1>0, <1>3, <2>2, WaitAnchorStep, ReduceToAnchorStep, PublishAnchorStep
  <2>3. CASE UNCHANGED vars
    <3>1. IInv'
      BY <1>1, <2>3
    <3>2. AnchorsOnly' /\ StableOrder'
      BY <1>0, <2>3 DEF EitherIInv, AnchorsOnly, StableOrder, vars
    <3> QED
      BY <3>1, <3>2 DEF EitherIInv
  <2> QED
    BY <1>3, <2>1, <2>2, <2>3 DEF EitherNext, EitherBlock, StableBlock, Terminated, allVars
<1> QED
  BY <1>2, <1>3

-----------------------------------------------------------------------------
(* The theorems.                                                           *)

\* The inductive invariant of both orders holds in every reachable state.
THEOREM EitherInvariant == EitherSpec => []EitherIInv
<1>1. EitherInit => EitherIInv
  <2> SUFFICES ASSUME EitherInit PROVE EitherIInv
    OBVIOUS
  <2>1. IInv
    BY InitIInv DEF EitherInit
  <2>2. AnchorsOnly /\ StableOrder
    BY DEF EitherInit, Init, InitializeStatus, Descriptor, AnchorsOnly, StableOrder,
           SCAN_TILE_INVALID, SCAN_TILE_INCLUSIVE
  <2> QED
    BY <2>1, <2>2 DEF EitherIInv
<1> QED
  BY <1>1, EitherNextIInv, PTL DEF EitherSpec

\* In either reduction order a block leaves its look-back with the reduction of
\* exactly its predecessors, and every load is within the padded array.
THEOREM EitherCorrect == EitherSpec => [](PrefixCorrect /\ DescriptorsSound /\ LoadsInBounds)
<1>1. EitherIInv => PrefixCorrect /\ DescriptorsSound /\ LoadsInBounds
  BY WarpThreadsAssumption DEF EitherIInv, IInv, LoadsInBounds, LookBackSound, Tiles
<1> QED
  BY <1>1, EitherInvariant, PTL

\* In the stable order what a tile reduces is settled by its index: the prefix
\* of its anchor and the aggregates after it, in every run of the kernel.
THEOREM StableOrderHolds == EitherSpec => []StableOrder
<1>1. EitherIInv => StableOrder
  BY DEF EitherIInv
<1> QED
  BY <1>1, EitherInvariant, PTL

\* In either order descriptors only gain information.
THEOREM EitherOnlyGain == EitherSpec => DescriptorsMonotone
<1> DEFINE Gains == \A i \in Tiles :
        \/ d_tile_descriptors'[i] = d_tile_descriptors[i]
        \/ StatusRank(d_tile_descriptors'[i]) > StatusRank(d_tile_descriptors[i])
<1>1. ASSUME EitherIInv, [EitherNext]_allVars
      PROVE  [Gains]_vars
  <2> USE NumTilesAssumption, <1>1 DEF EitherIInv
  <2>0. 0 \in Tiles
    BY DEF Tiles
  <2>1. \A v, w : /\ StatusRank(Descriptor(SCAN_TILE_PARTIAL, v)) = 1
                  /\ StatusRank(Descriptor(SCAN_TILE_INCLUSIVE, v)) = 2
                  /\ w.status = SCAN_TILE_INVALID => StatusRank(w) = 0
                  /\ w.status = SCAN_TILE_PARTIAL => StatusRank(w) = 1
    BY DEF StatusRank, Descriptor, SCAN_TILE_INVALID, SCAN_TILE_PARTIAL, SCAN_TILE_INCLUSIVE
  <2>2. CASE d_tile_descriptors' = d_tile_descriptors
    BY <2>2
  <2>3. ASSUME NEW t \in Tiles, PublishPartial(t) PROVE Gains
    BY <2>1, <2>3 DEF IInv, TypeOK, OwnerStatus, PublishPartial, SetPartial
  <2>4. ASSUME NEW t \in Tiles, PublishInclusive(t) \/ PublishAnchor(t) PROVE Gains
    BY <2>1, <2>4 DEF IInv, TypeOK, OwnerStatus, PublishInclusive, PublishAnchor, SetInclusive
  <2>5. CASE ScanFirstTile
    BY <2>0, <2>1, <2>5 DEF IInv, TypeOK, OwnerStatus, ScanFirstTile, SetInclusive
  <2>6. \/ d_tile_descriptors' = d_tile_descriptors \/ ScanFirstTile
        \/ \E t \in Tiles : PublishPartial(t) \/ PublishInclusive(t) \/ PublishAnchor(t)
    BY DEF EitherNext, EitherBlock, Block, StableBlock, Schedule, LoadLane, Retry, ProcessWindow,
           WaitAnchor, ReduceToAnchor, Terminated, vars, allVars
  <2> QED
    BY <2>2, <2>3, <2>4, <2>5, <2>6
<1> QED
  BY <1>1, EitherInvariant, PTL DEF EitherSpec, DescriptorsMonotone
=============================================================================
