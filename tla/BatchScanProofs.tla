--------------------------- MODULE BatchScanProofs --------------------------
(***************************************************************************)
(* The scan in batches is correct for every number of tiles, of tiles in a *)
(* batch and of thread blocks, and for every warp width: descriptors and   *)
(* sum pass from batch to batch without mixing their tiles.                *)
(***************************************************************************)
EXTENDS BatchScan, FiniteSetTheorems, TLAPS

\* The lemmas about the warp reduction, which do not depend on the state.
Reduction == INSTANCE LookBackProofs WITH NumTiles <- 1, MaxResident <- 1, stable <- FALSE

-----------------------------------------------------------------------------
(* Batches and slots.                                                      *)

\* The first tile of batch k.
Base(k) == k * TilesPerBatch

LEMMA BaseType ==
    ASSUME NEW k \in Nat
    PROVE  Base(k) \in Nat /\ Base(0) = 0 /\ Base(k + 1) = Base(k) + TilesPerBatch
BY TilesAssumption DEF Base

LEMMA BaseOrder ==
    ASSUME NEW j \in Nat, NEW k \in Nat, j < k
    PROVE  Base(j) + TilesPerBatch <= Base(k)
<1>1. PICK m \in Nat : k = j + 1 + m
  <2>1. k - j - 1 \in Nat /\ k = j + 1 + (k - j - 1)
    OBVIOUS
  <2> QED
    BY <2>1
<1>2. \A a, b, c \in Nat : (a + 1 + b) * c = a * c + c + b * c
  OBVIOUS
<1>3. Base(k) = Base(j) + TilesPerBatch + m * TilesPerBatch /\ m * TilesPerBatch \in Nat
  BY <1>1, <1>2, TilesAssumption DEF Base
<1> QED
  BY <1>3, BaseType, TilesAssumption

\* Every tile is a slot of a batch.
LEMMA TileSlot ==
    ASSUME NEW t \in Nat
    PROVE  /\ Batch(t) \in Nat /\ Slot(t) \in Slots
           /\ t = Base(Batch(t)) + Slot(t)
           /\ Slot(t) \in Nat /\ Slot(t) < TilesPerBatch
<1>1. \A n \in Nat, w \in Nat \ {0} : /\ n \div w \in Nat /\ n % w \in 0 .. w - 1
                                      /\ n = (n \div w) * w + (n % w)
  <2>1. \A n \in Nat, w \in Nat \ {0} : n % w \in 0 .. w - 1
    OBVIOUS
  <2>2. \A n \in Nat, w \in Nat \ {0} : n \div w \in Nat
    <3>1. \A n \in Nat, w \in Nat \ {0} : n \div w \in Int
      OBVIOUS
    <3>2. \A n \in Nat, w \in Nat \ {0} : n \div w >= 0
      OBVIOUS
    <3> QED
      BY <3>1, <3>2
  <2>3. \A n \in Nat, w \in Nat \ {0} : n = (n \div w) * w + (n % w)
    OBVIOUS
  <2> QED
    BY <2>1, <2>2, <2>3
<1>2. Slot(t) \in 0 .. TilesPerBatch - 1
  BY <1>1, TilesAssumption DEF Slot
<1>3. Batch(t) \in Nat
  BY <1>1, TilesAssumption DEF Batch
<1>4. t = Base(Batch(t)) + Slot(t)
  <2>1. t = (t \div TilesPerBatch) * TilesPerBatch + (t % TilesPerBatch)
    BY <1>1, TilesAssumption
  <2> QED
    BY <2>1 DEF Batch, Slot, Base
<1> HIDE DEF Batch, Slot
<1> QED
  BY <1>2, <1>3, <1>4, TilesAssumption DEF Slots

\* A tile is in batch k, or later, if it is not before its first tile.
LEMMA BatchOrder ==
    ASSUME NEW t \in Nat, NEW k \in Nat
    PROVE  /\ Batch(t) >= k <=> t >= Base(k)
           /\ Batch(t) > k <=> t >= Base(k) + TilesPerBatch
           /\ Batch(t) = k <=> t \in Base(k) .. Base(k) + TilesPerBatch - 1
           /\ Batch(t) = k => Slot(t) = t - Base(k)
<1>1. /\ Batch(t) \in Nat /\ t = Base(Batch(t)) + Slot(t)
      /\ Slot(t) \in Nat /\ Slot(t) < TilesPerBatch /\ TilesPerBatch \in Nat
  BY TileSlot, TilesAssumption
<1>2. Base(k) \in Nat /\ Base(Batch(t)) \in Nat
  BY <1>1, BaseType
<1>3. CASE Batch(t) < k
  <2>1. Base(Batch(t)) + TilesPerBatch <= Base(k)
    BY <1>1, <1>3, BaseOrder
  <2> QED
    BY <1>1, <1>2, <1>3, <2>1
<1>4. CASE Batch(t) > k
  <2>1. Base(k) + TilesPerBatch <= Base(Batch(t))
    BY <1>1, <1>4, BaseOrder
  <2> QED
    BY <1>1, <1>2, <1>4, <2>1
<1>5. CASE Batch(t) = k
  BY <1>1, <1>2, <1>5
<1> QED
  BY <1>1, <1>3, <1>4, <1>5

\* A batch that is not the final one is full.
LEMMA FullBatch ==
    ASSUME NEW t \in Nat
    PROVE  /\ FinalBatch(t) <=> Base(Batch(t)) + TilesPerBatch >= NumTiles
           /\ ~FinalBatch(t) => BatchTiles(t) = TilesPerBatch
<1>1. Batch(t) \in Nat /\ Base(Batch(t)) \in Nat /\ Base(Batch(t) + 1) = Base(Batch(t)) + TilesPerBatch
  BY TileSlot, BaseType
<1>2. FinalBatch(t) <=> Base(Batch(t)) + TilesPerBatch >= NumTiles
  BY <1>1 DEF FinalBatch, Base
<1>3. BatchTiles(t) = LET left == NumTiles - Base(Batch(t)) IN IF left < TilesPerBatch THEN left ELSE TilesPerBatch
  BY DEF BatchTiles, Base
<1> QED
  BY <1>1, <1>2, <1>3, TilesAssumption

-----------------------------------------------------------------------------
(* The warp reduction.                                                     *)

LEMMA ReductionIs ==
    /\ Reduction!Lanes = Lanes
    /\ \A lo, hi : Reduction!Run(lo, hi) = Run(lo, hi)
    /\ \A tails : Reduction!TailLane(tails) = TailLane(tails)
    /\ \A val, tails : Reduction!TailSegmentedReduce(val, tails) = TailSegmentedReduce(val, tails)
<1>1. Reduction!Lanes = Lanes /\ \A lo, hi : Reduction!Run(lo, hi) = Run(lo, hi)
  BY DEF Lanes, Reduction!Lanes, Run, Reduction!Run
<1>2. \A tails : Reduction!TailLane(tails) = TailLane(tails)
  BY DEF TailLane, Reduction!TailLane
<1>3. Reduction!Garbage = Garbage
  BY <1>1 DEF Garbage, Reduction!Garbage
<1>4. \A val, tails : Reduction!TailSegmentedReduce(val, tails) = TailSegmentedReduce(val, tails)
  BY <1>1, <1>2, <1>3 DEF TailSegmentedReduce, Reduction!TailSegmentedReduce
<1> QED
  BY <1>1, <1>2, <1>4

\* A window of sound, valid descriptors of batch k that ends at slot p.  If a
\* lane saw an inclusive prefix the window reduces to the prefix of its last
\* tile; otherwise it lies behind slot 0 and reduces to its own tiles.
LEMMA WindowReduction ==
    ASSUME NEW k \in Nat, NEW p \in Nat, NEW s \in [Lanes -> TileDescriptor],
           \A l \in Lanes : SoundLoad(k, p - l, s[l]) /\ s[l].status # SCAN_TILE_INVALID
    PROVE  LET tails == {l \in Lanes : s[l].status = SCAN_TILE_INCLUSIVE}
               val == [l \in Lanes |-> s[l].value]
           IN  /\ tails # {} => TailSegmentedReduce(val, tails) = Run(0, Base(k) + p + 1)
               /\ tails = {} =>
                    /\ p - WarpThreads >= 0
                    /\ TailSegmentedReduce(val, tails) = Run(Base(k) + (p - WarpThreads) + 1, Base(k) + p + 1)
<1> DEFINE tails == {l \in Lanes : s[l].status = SCAN_TILE_INCLUSIVE}
           val == [l \in Lanes |-> s[l].value]
           m == TailLane(tails)
           q == Base(k) + p
<1>0. Base(k) \in Nat /\ q \in Nat /\ WarpThreads \in Nat \ {0}
  BY BaseType, WarpThreadsAssumption
<1>1. /\ m \in Lanes
      /\ tails # {} => m \in tails /\ \A j \in 0 .. m - 1 : j \notin tails
      /\ tails = {} => m = WarpThreads - 1
  <2> HIDE DEF tails
  <2>0. tails \in SUBSET Reduction!Lanes
    BY ReductionIs DEF tails
  <2>1. /\ Reduction!TailLane(tails) \in Reduction!Lanes
        /\ tails # {} => /\ Reduction!TailLane(tails) \in tails
                         /\ \A j \in 0 .. Reduction!TailLane(tails) - 1 : j \notin tails
        /\ tails = {} => Reduction!TailLane(tails) = WarpThreads - 1
    BY <2>0, WarpThreadsAssumption, Reduction!TailLaneProperty
  <2> QED
    BY <2>1, ReductionIs
<1>2. ASSUME NEW l \in Lanes, l \in tails
      PROVE  p - l >= 0 /\ val[l] = Run(0, q - l + 1)
  <2>1. p - l >= 0 /\ s[l].value = Run(0, k * TilesPerBatch + (p - l) + 1)
    BY <1>2 DEF SoundLoad, SoundSlot, Lanes, SCAN_TILE_OOB, SCAN_TILE_INVALID,
                SCAN_TILE_PARTIAL, SCAN_TILE_INCLUSIVE
  <2>2. Base(k) + (p - l) + 1 = q - l + 1
    BY <1>0 DEF Lanes
  <2> QED
    BY <2>1, <2>2 DEF Base
<1>3. ASSUME NEW l \in Lanes, l \notin tails, p - l >= 0
      PROVE  p - l > 0 /\ val[l] = Run(q - l, q - l + 1)
  <2>1. p - l > 0 /\ s[l].value = Run(k * TilesPerBatch + (p - l), k * TilesPerBatch + (p - l) + 1)
    BY <1>3 DEF SoundLoad, SoundSlot, Lanes, SCAN_TILE_OOB, SCAN_TILE_INVALID,
                SCAN_TILE_PARTIAL, SCAN_TILE_INCLUSIVE
  <2>2. Base(k) + (p - l) + 1 = q - l + 1 /\ Base(k) + (p - l) = q - l
    BY <1>0 DEF Lanes
  <2> QED
    BY <2>1, <2>2 DEF Base
<1>4. ASSUME NEW b \in Nat, m <= q, val[m] = Run(b, q - m + 1),
             \A l \in 0 .. m - 1 : val[l] = Run(q - l, q - l + 1)
      PROVE  TailSegmentedReduce(val, tails) = Run(b, q + 1)
  <2> HIDE DEF tails, val, q, m
  <2>0. m \in Nat
    BY <1>0, <1>1 DEF Lanes
  <2>1. /\ Reduction!TailLane(tails) = m
        /\ val[m] = Reduction!Run(b, q - m + 1)
        /\ \A l \in 0 .. m - 1 : val[l] = Reduction!Run(q - l, q - l + 1)
    BY <1>4, ReductionIs DEF m
  <2>2. Reduction!TailSegmentedReduce(val, tails) = Reduction!Run(b, q + 1)
    BY <1>0, <1>4, <2>0, <2>1, Reduction!ChainReduction
  <2> QED
    BY <2>2, ReductionIs
<1> HIDE DEF m, tails, val
<1>5. m \in Nat /\ m < WarpThreads
  BY <1>0, <1>1 DEF Lanes
<1>6. CASE tails # {}
  <2>1. p - m >= 0 /\ val[m] = Run(0, q - m + 1)
    BY <1>1, <1>2, <1>6
  <2>2. ASSUME NEW l \in 0 .. m - 1
        PROVE  val[l] = Run(q - l, q - l + 1)
    <3>1. l \in Lanes /\ p - l >= 0
      BY <1>0, <1>5, <2>1 DEF Lanes
    <3> QED
      BY <1>1, <1>3, <1>6, <3>1
  <2>3. m <= q
    BY <1>0, <1>5, <2>1
  <2> QED
    BY <1>4, <1>6, <2>1, <2>2, <2>3 DEF tails, val
<1>7. CASE tails = {}
  <2>1. m = WarpThreads - 1
    BY <1>1, <1>7
  <2>2. p > WarpThreads - 1
    <3> SUFFICES ASSUME p <= WarpThreads - 1 PROVE FALSE
      BY <1>0
    <3>1. p \in Lanes /\ p \notin tails /\ p - p >= 0 /\ ~(p - p > 0)
      BY <1>0, <1>7 DEF Lanes
    <3> QED
      BY <1>3, <3>1
  <2>3. ASSUME NEW l \in 0 .. m
        PROVE  val[l] = Run(q - l, q - l + 1)
    <3>1. l \in Lanes /\ p - l >= 0
      BY <1>0, <1>5, <2>1, <2>2 DEF Lanes
    <3> QED
      BY <1>3, <1>7, <3>1
  <2>4. m <= q /\ q - m \in Nat /\ q - m = Base(k) + (p - WarpThreads) + 1
    BY <1>0, <1>5, <2>1, <2>2
  <2>5. val[m] = Run(q - m, q - m + 1) /\ \A l \in 0 .. m - 1 : val[l] = Run(q - l, q - l + 1)
    BY <1>5, <2>3
  <2>6. TailSegmentedReduce(val, tails) = Run(q - m, q + 1)
    BY <1>4, <2>4, <2>5
  <2> QED
    BY <1>0, <1>7, <2>2, <2>4, <2>6 DEF tails, val
<1> QED
  BY <1>6, <1>7

-----------------------------------------------------------------------------
(* Types.                                                                  *)

LEMMA ValueTypes ==
    /\ Garbage \in Value /\ \A x, y \in Int : Run(x, y) \in Value
    /\ \A v, w \in Value : scan_op(v, w) \in Value
BY DEF Garbage, Run, Value, scan_op

LEMMA DescriptorType ==
    \A v \in Value : /\ Descriptor(SCAN_TILE_PARTIAL, v) \in TileDescriptor
                     /\ Descriptor(SCAN_TILE_INCLUSIVE, v) \in TileDescriptor
                     /\ Descriptor(SCAN_TILE_INVALID, v) \in TileDescriptor
                     /\ Descriptor(SCAN_TILE_OOB, v) \in TileDescriptor
BY DEF Descriptor, TileDescriptor, ScanTileStatus, SCAN_TILE_OOB, SCAN_TILE_INVALID,
       SCAN_TILE_PARTIAL, SCAN_TILE_INCLUSIVE

LEMMA NoLoadsType == NoLoads \in [Lanes -> TileDescriptor]
BY DescriptorType, ValueTypes DEF NoLoads

\* The reduction of a window is a value.
LEMMA WindowAggregateType ==
    ASSUME TypeOK, NEW b \in Blocks
    PROVE  WindowAggregate(b) \in Value
<1>1. TailFlags(b) \in SUBSET Reduction!Lanes
  BY ReductionIs DEF TailFlags
<1>2. Reduction!TailLane(TailFlags(b)) \in Reduction!Lanes
  BY <1>1, WarpThreadsAssumption, Reduction!TailLaneProperty
<1>3. TailLane(TailFlags(b)) \in Lanes /\ 0 \in Lanes
  BY <1>2, ReductionIs, WarpThreadsAssumption DEF Lanes
<1>4. ASSUME NEW l \in Lanes PROVE [j \in Lanes |-> seen[b][j].value][l] \in Value
  BY DEF TypeOK, TileDescriptor
<1>5. \A v, w \in Value : Run(v.lo, w.hi) \in Value
  BY DEF Run, Value
<1> DEFINE val == [j \in Lanes |-> seen[b][j].value]
<1>6. val[TailLane(TailFlags(b))] \in Value /\ val[0] \in Value
  BY <1>3, <1>4
<1> HIDE DEF val
<1>7. TailSegmentedReduce(val, TailFlags(b)) \in Value
  BY <1>5, <1>6, ValueTypes DEF TailSegmentedReduce
<1> QED
  BY <1>7 DEF WindowAggregate, val

LEMMA TileInclusiveType ==
    ASSUME TypeOK, NEW b \in Blocks
    PROVE  /\ Run(tile_idx[b], tile_idx[b] + 1) \in Value
           /\ TileInclusive(b) \in Value
           /\ tile_idx[b] \in Nat /\ Slot(tile_idx[b]) \in Slots /\ Batch(tile_idx[b]) \in Nat
<1>1. tile_idx[b] \in Nat /\ exclusive_prefix[b] \in Value
  BY DEF TypeOK
<1>2. Run(tile_idx[b], tile_idx[b] + 1) \in Value
  BY <1>1, ValueTypes
<1> QED
  BY <1>1, <1>2, ValueTypes, TileSlot DEF TileInclusive

LEMMA ClaimTypes ==
    ASSUME TypeOK, NEW b \in Blocks, Claim(b)
    PROVE  TypeOK'
<1>1. Slot(next_tile_idx) - 1 \in Int
  BY TileSlot DEF TypeOK
<1> QED
  BY <1>1, ValueTypes DEF TypeOK, Claim, Goto

LEMMA EnterBatchTypes ==
    ASSUME TypeOK, NEW b \in Blocks, EnterBatch(b)
    PROVE  TypeOK'
BY TileInclusiveType DEF TypeOK, EnterBatch, Goto, batch_state, warp

LEMMA ScanFirstTypes ==
    ASSUME TypeOK, NEW b \in Blocks, ScanFirst(b)
    PROVE  TypeOK'
<1>1. exclusive_prefix' \in [Blocks -> Value]
  <2>1. Run(0, 0) \in Value
    BY ValueTypes
  <2> QED
    BY <2>1 DEF TypeOK, ScanFirst
<1> QED
  BY <1>1 DEF TypeOK, ScanFirst, Goto, batch_state, claim, warp

LEMMA PublishPartialTypes ==
    ASSUME TypeOK, NEW b \in Blocks, PublishPartial(b)
    PROVE  TypeOK'
<1>1. d_tile_descriptors' \in [Slots -> TileDescriptor]
  BY TileInclusiveType, DescriptorType DEF TypeOK, PublishPartial, SetPartial
<1> QED
  BY <1>1 DEF TypeOK, PublishPartial, Goto, batch_state, claim, warp

\* A load by lane l of block b, which looks back from within the batch.
LEMMA LoadLaneTypes ==
    ASSUME TypeOK, NEW b \in Blocks, NEW l \in Lanes, LoadLane(b, l),
           predecessor_idx[b] < TilesPerBatch
    PROVE  TypeOK'
<1>1. LoadStatus(predecessor_idx[b] - l) \in TileDescriptor
  <2>1. predecessor_idx[b] - l \in Int /\ predecessor_idx[b] - l < TilesPerBatch
    BY WarpThreadsAssumption, TilesAssumption DEF TypeOK, Lanes
  <2>2. ~(predecessor_idx[b] - l < 0) => predecessor_idx[b] - l \in Slots
    BY <2>1, TilesAssumption DEF Slots
  <2> QED
    BY <2>1, <2>2, DescriptorType, ValueTypes DEF LoadStatus, TypeOK
<1>2. seen' \in [Blocks -> [Lanes -> TileDescriptor]]
  <2>1. seen' = [seen EXCEPT ![b] = [seen[b] EXCEPT ![l] = LoadStatus(predecessor_idx[b] - l)]]
    BY DEF LoadLane
  <2>2. [seen[b] EXCEPT ![l] = LoadStatus(predecessor_idx[b] - l)] \in [Lanes -> TileDescriptor]
    BY <1>1 DEF TypeOK
  <2> QED
    BY <2>1, <2>2 DEF TypeOK
<1>3. loaded' \in [Blocks -> SUBSET Lanes]
  BY DEF TypeOK, LoadLane
<1> QED
  BY <1>2, <1>3 DEF TypeOK, LoadLane, batch_state, claim

LEMMA WindowTypes ==
    ASSUME TypeOK, NEW b \in Blocks, Retry(b) \/ ProcessWindow(b)
    PROVE  TypeOK'
<1>1. loaded' \in [Blocks -> SUBSET Lanes] /\ seen' \in [Blocks -> [Lanes -> TileDescriptor]]
  <2>1. loaded' = [loaded EXCEPT ![b] = {}] /\ seen' = [seen EXCEPT ![b] = NoLoads]
    BY DEF Retry, ProcessWindow
  <2> QED
    BY <2>1, NoLoadsType DEF TypeOK
<1>2. CASE Retry(b)
  BY <1>1, <1>2 DEF TypeOK, Retry, batch_state, claim
<1>3. CASE ProcessWindow(b)
  <2>1. exclusive_prefix' \in [Blocks -> Value]
    BY <1>3, WindowAggregateType, ValueTypes DEF TypeOK, ProcessWindow
  <2>2. predecessor_idx' \in [Blocks -> Int]
    BY <1>3, WarpThreadsAssumption DEF TypeOK, ProcessWindow
  <2>3. pc' = pc \/ pc' = [pc EXCEPT ![b] = "publish"]
    BY <1>3 DEF ProcessWindow, Goto
  <2> QED
    BY <1>1, <1>3, <2>1, <2>2, <2>3 DEF TypeOK, ProcessWindow, batch_state, claim
<1> QED
  BY <1>2, <1>3

LEMMA PublishInclusiveTypes ==
    ASSUME TypeOK, NEW b \in Blocks, PublishInclusive(b)
    PROVE  TypeOK'
<1>1. d_tile_descriptors' \in [Slots -> TileDescriptor]
  BY TileInclusiveType, DescriptorType DEF TypeOK, PublishInclusive, SetInclusive
<1> QED
  BY <1>1 DEF TypeOK, PublishInclusive, Goto, batch_state, claim, warp

LEMMA SaveSumTypes ==
    ASSUME TypeOK, NEW b \in Blocks, SaveSum(b)
    PROVE  TypeOK'
BY TileInclusiveType DEF TypeOK, SaveSum, Goto, claim, warp

LEMMA CompletionTypes ==
    ASSUME TypeOK, NEW b \in Blocks,
           \/ CountLookBack(b) \/ ClearCount(b) \/ AdvanceBatch(b)
           \/ \E i \in Slots : Reset(b, i)
    PROVE  TypeOK'
<1>1. CASE CountLookBack(b)
  <2>1. \/ pc' = [pc EXCEPT ![b] = "reset"] /\ unreset' = [unreset EXCEPT ![b] = Slots]
        \/ pc' = [pc EXCEPT ![b] = "store"] /\ unreset' = unreset
    BY <1>1 DEF CountLookBack, Goto
  <2>2. unreset' \in [Blocks -> SUBSET Slots]
    <3>1. Slots \in SUBSET Slots
      OBVIOUS
    <3> QED
      BY <2>1, <3>1 DEF TypeOK
  <2>3. pc' \in [Blocks -> {"claim", "wait_batch", "scan", "lookback", "first", "publish", "save", "count",
                            "reset", "advance", "store", "exit"}]
    BY <2>1 DEF TypeOK
  <2> QED
    BY <1>1, <2>2, <2>3 DEF TypeOK, CountLookBack, claim, warp
<1>2. CASE ClearCount(b)
  BY <1>2 DEF TypeOK, ClearCount, Goto, claim, warp
<1>3. CASE AdvanceBatch(b)
  BY <1>3, TileInclusiveType DEF TypeOK, AdvanceBatch, Goto, claim, warp
<1>4. ASSUME NEW i \in Slots, Reset(b, i) PROVE TypeOK'
  <2>1. d_tile_descriptors' \in [Slots -> TileDescriptor]
    BY <1>4, DescriptorType, ValueTypes DEF TypeOK, Reset
  <2> QED
    BY <1>4, <2>1 DEF TypeOK, Reset, batch_state, claim, warp
<1> QED
  BY <1>1, <1>2, <1>3, <1>4

LEMMA StoreTypes ==
    ASSUME TypeOK, NEW b \in Blocks, Store(b)
    PROVE  TypeOK'
BY DEF TypeOK, Store, Goto, batch_state, claim, warp

-----------------------------------------------------------------------------
(* Steps within a batch.                                                   *)

LEMMA Moved ==
    ASSUME TypeOK, NEW b \in Blocks, NEW m, Goto(b, m)
    PROVE  pc'[b] = m /\ \A c \in Blocks : c # b => pc'[c] = pc[c]
BY DEF TypeOK, Goto

\* The current batch waits for the tile of a block that has yet to count it.
LEMMA CountingPending ==
    ASSUME IInv, NEW b \in Blocks, Counting(b)
    PROVE  /\ tile_idx[b] \in Uncounted /\ tile_idx[b] \in Nat
           /\ Batch(tile_idx[b]) = batch_idx =>
                tile_idx[b] \in Pending /\ \A c \in Blocks : ~Resetting(c)
<1>1. tile_idx[b] \in Nat /\ tile_idx[b] < NumTiles
  BY DEF IInv, TypeOK, ClaimsDistinct, Counting, Claimed, Active
<1>2. tile_idx[b] \in Tiles
  BY <1>1, TilesAssumption DEF Tiles
<1>3. tile_idx[b] \in Uncounted
  BY <1>2 DEF Uncounted
<1>4. Batch(tile_idx[b]) = batch_idx => tile_idx[b] \in Pending
  BY <1>3 DEF Pending
<1>5. \A c \in Blocks : Resetting(c) => Pending = {}
  BY DEF IInv, CountsMatch
<1> QED
  BY <1>1, <1>3, <1>4, <1>5

\* A block of the current batch that goes on with its tile, before it counts
\* it, changes nothing for the others.
LEMMA SameTiles ==
    ASSUME IInv, NEW b \in Blocks, Counting(b), Batch(tile_idx[b]) = batch_idx,
           NEW m \in {"scan", "lookback", "first", "publish", "save", "count"}, Goto(b, m),
           m \in {"save", "count"} => ~FinalBatch(tile_idx[b]),
           \A c \in Blocks : current_batch_idx'[c] <= batch_idx,
           UNCHANGED <<batch_idx, next_tile_idx, lookbacks_completed, tile_idx>>
    PROVE  /\ ClaimsDistinct' /\ InBatch' /\ CountsMatch' /\ ResetAlone' /\ ResetClean'
           /\ Uncounted' = Uncounted
           /\ m # "scan" \/ Waiting(b) \/ pc[b] = "scan" => (FirstUnread' => FirstUnread)
           /\ m # "count" => (LastSaved' => LastSaved)
<1>0. TypeOK /\ ClaimsDistinct /\ InBatch /\ CountsMatch
  BY DEF IInv
<1>1. pc'[b] = m /\ \A c \in Blocks : c # b => pc'[c] = pc[c]
  BY <1>0, Moved
<1>2. \A c \in Blocks : ~Resetting(c)
  BY CountingPending
<1>3. \A c \in Blocks : ~Resetting(c)'
  BY <1>1, <1>2 DEF Resetting
<1>4. Counting(b)' /\ Active(b)' /\ Claimed(b)' /\ Claimed(b)
  BY <1>1 DEF Counting, Waiting, Looking, Prefixed, Active, Claimed
<1>5. \A c \in Blocks : c # b =>
        (Counting(c)' = Counting(c)) /\ (Active(c)' = Active(c)) /\ (Claimed(c)' = Claimed(c))
  BY <1>1 DEF Counting, Waiting, Looking, Prefixed, Resetting, Storing, Active, Claimed
<1>6. Uncounted' = Uncounted
  <2>1. \A c \in Blocks : Counting(c)' <=> Counting(c)
    BY <1>4, <1>5
  <2> QED
    BY <2>1 DEF Uncounted
<1>7. Pending' = Pending
  BY <1>6 DEF Pending
<1>8. ClaimsDistinct'
  BY <1>0, <1>4, <1>5 DEF ClaimsDistinct
<1>9. InBatch'
  <2>1. ASSUME NEW c \in Blocks
        PROVE  /\ Active(c)' => Batch(tile_idx'[c]) = batch_idx'
               /\ pc'[c] \in {"save", "count"} \/ Resetting(c)' => ~FinalBatch(tile_idx'[c])
    BY <1>0, <1>1, <1>3, <1>5 DEF InBatch
  <2> QED
    BY <1>0, <1>6, <2>1 DEF InBatch
<1>10. CountsMatch'
  <2>1. \A c \in Blocks : pc'[c] # "advance"
    BY <1>3 DEF Resetting
  <2> QED
    BY <1>0, <1>2, <1>3, <1>7, <2>1 DEF CountsMatch
<1>11. ResetAlone' /\ ResetClean'
  BY <1>3 DEF ResetAlone, ResetClean, Resetting
<1>12. m # "scan" \/ Waiting(b) \/ pc[b] = "scan" => (FirstUnread' => FirstUnread)
  BY <1>1 DEF FirstUnread, Waiting
<1>13. m # "count" => (LastSaved' => LastSaved)
  <2> SUFFICES ASSUME m # "count", LastSaved' PROVE LastSaved
    OBVIOUS
  <2>1. tile_idx[b] # (batch_idx + 1) * TilesPerBatch - 1
    BY <1>1 DEF LastSaved, Looking
  <2> QED
    BY <1>1, <2>1 DEF LastSaved, Waiting, Looking
<1> QED
  BY <1>6, <1>8, <1>9, <1>10, <1>11, <1>12, <1>13

\* A look-back does not depend on what other blocks do.
LEMMA OthersLookBack ==
    ASSUME IInv, NEW c \in Blocks, UNCHANGED <<batch_idx>>,
           pc'[c] = pc[c], tile_idx'[c] = tile_idx[c], predecessor_idx'[c] = predecessor_idx[c],
           loaded'[c] = loaded[c], seen'[c] = seen[c], exclusive_prefix'[c] = exclusive_prefix[c]
    PROVE  LookBackSound(c)'
<1>1. LookBackSound(c)
  BY DEF IInv
<1> QED
  BY <1>1 DEF LookBackSound, Looking, Waiting, SoundLoad

\* What is left to show for a step within a batch.
LEMMA WithinBatch ==
    ASSUME IInv, TypeOK', NEW b \in Blocks, Counting(b), Batch(tile_idx[b]) = batch_idx,
           NEW m \in {"scan", "lookback", "first", "publish", "save", "count"}, Goto(b, m),
           m \in {"save", "count"} => ~FinalBatch(tile_idx[b]),
           \A c \in Blocks : current_batch_idx'[c] <= batch_idx,
           UNCHANGED <<batch_idx, next_tile_idx, lookbacks_completed, tile_idx, d_out>>,
           \A c \in Blocks : c # b =>
               UNCHANGED <<predecessor_idx[c], loaded[c], seen[c], exclusive_prefix[c]>>,
           NoStaleDescriptor', LookBackSound(b)',
           Prefixed(b)' => exclusive_prefix'[b] = Run(0, tile_idx[b]), SumCarried'
    PROVE  IInv'
<1>1. ClaimsDistinct' /\ InBatch' /\ CountsMatch' /\ ResetAlone' /\ ResetClean'
  BY SameTiles
<1>2. pc'[b] = m /\ \A c \in Blocks : c # b => pc'[c] = pc[c]
  BY Moved DEF IInv
<1>3. ASSUME NEW c \in Blocks PROVE LookBackSound(c)'
  <2>1. CASE c # b
    BY <1>2, <2>1, OthersLookBack
  <2> QED
    BY <2>1
<1>4. PrefixCorrect'
  <2> SUFFICES ASSUME NEW c \in Blocks, (Prefixed(c) \/ Resetting(c) \/ Storing(c))'
               PROVE  exclusive_prefix'[c] = Run(0, tile_idx'[c])
    BY DEF PrefixCorrect
  <2>1. CASE c = b
    BY <1>2, <2>1 DEF Prefixed, Resetting, Storing
  <2>2. CASE c # b
    <3>1. Prefixed(c) \/ Resetting(c) \/ Storing(c)
      BY <1>2, <2>2 DEF Prefixed, Resetting, Storing
    <3> QED
      BY <2>2, <3>1 DEF IInv, PrefixCorrect
  <2> QED
    BY <2>1, <2>2
<1>5. OutputCorrect'
  BY DEF IInv, OutputCorrect
<1> QED
  BY <1>1, <1>3, <1>4, <1>5 DEF IInv

\* Where a block is says which batch its tile is in.
LEMMA ActiveBatch ==
    ASSUME IInv, NEW b \in Blocks, Looking(b) \/ Prefixed(b)
    PROVE  /\ Counting(b) /\ Batch(tile_idx[b]) = batch_idx /\ tile_idx[b] \in Nat
           /\ batch_idx \in Nat /\ Base(batch_idx) \in Nat
           /\ tile_idx[b] = Base(batch_idx) + Slot(tile_idx[b])
           /\ Slot(tile_idx[b]) \in Slots /\ Slot(tile_idx[b]) \in Nat
           /\ Slot(tile_idx[b]) < TilesPerBatch
           /\ tile_idx[b] < next_tile_idx /\ tile_idx[b] < NumTiles
           /\ LookBackSound(b)
           /\ \A c \in Blocks : current_batch_idx[c] <= batch_idx
<1>1. Counting(b) /\ Batch(tile_idx[b]) = batch_idx /\ tile_idx[b] \in Nat /\ batch_idx \in Nat
  BY DEF IInv, TypeOK, InBatch, Active, Counting
<1>2. Claimed(b)
  BY DEF Claimed, Active
<1> QED
  BY <1>1, <1>2, TileSlot, BaseType DEF IInv, InBatch, ClaimsDistinct

\* The current batch's sum, when neither its descriptors nor what was read of
\* them have gained an inclusive prefix.
LEMMA SumUntouched ==
    ASSUME IInv, NEW b \in Blocks, Counting(b), Batch(tile_idx[b]) = batch_idx,
           NEW m \in {"scan", "lookback", "first", "publish", "save"}, Goto(b, m),
           m \in {"save"} => ~FinalBatch(tile_idx[b]),
           \A c \in Blocks : current_batch_idx'[c] <= batch_idx,
           m = "scan" => Waiting(b) \/ pc[b] = "scan",
           UNCHANGED <<batch_idx, next_tile_idx, lookbacks_completed, tile_idx, batched_sum>>,
           FirstUnread =>
               /\ FirstUnread' => m \in {"scan", "lookback"}
               /\ FirstUnread' => \A i \in Slots : d_tile_descriptors'[i].status # SCAN_TILE_INCLUSIVE
               /\ \A c \in Blocks : \A l \in loaded'[c] : seen'[c][l].status # SCAN_TILE_INCLUSIVE
    PROVE  SumCarried'
<1>1. (FirstUnread' => FirstUnread) /\ (LastSaved' => LastSaved)
  BY SameTiles
<1>2. pc'[b] = m /\ \A c \in Blocks : c # b => pc'[c] = pc[c]
  BY Moved DEF IInv
<1>3. ASSUME FirstUnread'
      PROVE  /\ batch_idx' = 0 \/ batched_sum' = Run(0, batch_idx' * TilesPerBatch)
             /\ \A i \in Slots : d_tile_descriptors'[i].status # SCAN_TILE_INCLUSIVE
             /\ \A c \in Blocks : /\ ~Prefixed(c)' /\ ~Resetting(c)'
                                  /\ \A l \in loaded'[c] : seen'[c][l].status # SCAN_TILE_INCLUSIVE
  <2>1. /\ batch_idx = 0 \/ batched_sum = Run(0, batch_idx * TilesPerBatch)
        /\ \A c \in Blocks : ~Prefixed(c) /\ ~Resetting(c)
    BY <1>1, <1>3 DEF IInv, SumCarried
  <2>2. \A c \in Blocks : ~Prefixed(c)' /\ ~Resetting(c)'
    BY <1>1, <1>2, <1>3, <2>1 DEF Prefixed, Resetting
  <2> QED
    BY <1>1, <1>3, <2>1, <2>2
<1>4. (batch_idx' + 1) * TilesPerBatch < NumTiles /\ LastSaved' =>
        batched_sum' = Run(0, (batch_idx' + 1) * TilesPerBatch)
  BY <1>1 DEF IInv, SumCarried
<1> QED
  BY <1>3, <1>4 DEF SumCarried

LEMMA SumSeen ==
    ASSUME IInv, FirstUnread
    PROVE  /\ \A i \in Slots : d_tile_descriptors[i].status # SCAN_TILE_INCLUSIVE
           /\ \A c \in Blocks : \A l \in loaded[c] : seen[c][l].status # SCAN_TILE_INCLUSIVE
           /\ \A c \in Blocks : ~Prefixed(c) /\ ~Resetting(c)
BY DEF IInv, SumCarried

LEMMA EnterBatchStep ==
    ASSUME IInv, NEW b \in Blocks, EnterBatch(b)
    PROVE  IInv'
<1> DEFINE t == tile_idx[b]
<1>0. TypeOK /\ InBatch /\ LookBackSound(b) /\ TypeOK'
  BY EnterBatchTypes DEF IInv
<1>1. Counting(b) /\ Waiting(b)
  BY DEF EnterBatch, Counting, Waiting
<1>2. t \in Uncounted /\ t \in Nat /\ batch_idx \in Nat
  BY <1>0, <1>1, CountingPending DEF TypeOK
<1>3. Batch(t) = batch_idx
  <2>1. Batch(t) >= batch_idx
    BY <1>0, <1>2 DEF InBatch, Uncounted
  <2>2. batch_idx >= Batch(t) /\ Batch(t) \in Nat
    BY <1>2, TileSlot DEF EnterBatch
  <2> QED
    BY <1>2, <2>1, <2>2
<1>4. \A c \in Blocks : current_batch_idx'[c] <= batch_idx
  BY <1>0, <1>2, <1>3 DEF InBatch, EnterBatch, TypeOK
<1>5. /\ Goto(b, "scan")
      /\ UNCHANGED <<batch_idx, next_tile_idx, lookbacks_completed, batched_sum, tile_idx, d_out,
                     d_tile_descriptors, predecessor_idx, loaded, seen, exclusive_prefix>>
  BY DEF EnterBatch, batch_state, warp
<1>6. pc'[b] = "scan"
  BY <1>0, <1>5, Moved
<1>7. SumCarried'
  BY <1>1, <1>3, <1>4, <1>5, SumUntouched, SumSeen
<1>8. LookBackSound(b)'
  <2>1. loaded[b] = {} /\ predecessor_idx[b] = Slot(t) - 1
    BY <1>0, <1>1 DEF LookBackSound, Looking, Waiting
  <2>2. Slot(t) \in Nat
    BY <1>2, TileSlot
  <2> QED
    BY <1>5, <1>6, <2>1, <2>2 DEF LookBackSound, Looking, Waiting
<1>9. ~Prefixed(b)'
  BY <1>6 DEF Prefixed
<1>10. NoStaleDescriptor'
  BY <1>5 DEF IInv, NoStaleDescriptor
<1> QED
  BY <1>0, <1>1, <1>3, <1>4, <1>5, <1>7, <1>8, <1>9, <1>10, WithinBatch

LEMMA ScanFirstStep ==
    ASSUME IInv, NEW b \in Blocks, ScanFirst(b)
    PROVE  IInv'
<1> DEFINE t == tile_idx[b]
<1>0. TypeOK /\ TypeOK'
  BY ScanFirstTypes DEF IInv
<1>1. Looking(b) /\ pc[b] = "scan" /\ Slot(t) = 0
  BY DEF ScanFirst, Looking
<1>2. /\ Counting(b) /\ Batch(t) = batch_idx /\ t \in Nat /\ t = Base(batch_idx) + Slot(t)
      /\ batch_idx \in Nat /\ Base(batch_idx) \in Nat /\ LookBackSound(b)
      /\ \A c \in Blocks : current_batch_idx[c] <= batch_idx
  BY <1>1, ActiveBatch
<1>3. t = Base(batch_idx) /\ FirstUnread
  BY <1>1, <1>2 DEF FirstUnread, Base
<1>4. /\ Goto(b, "first")
      /\ UNCHANGED <<batch_idx, next_tile_idx, lookbacks_completed, batched_sum, tile_idx, d_out,
                     current_batch_idx, d_tile_descriptors, predecessor_idx, loaded, seen>>
      /\ exclusive_prefix' = [exclusive_prefix EXCEPT ![b] = IF t = 0 THEN Run(0, 0) ELSE batched_sum]
  BY DEF ScanFirst, batch_state, warp, claim
<1>5. pc'[b] = "first" /\ \A c \in Blocks : c # b => pc'[c] = pc[c]
  BY <1>0, <1>4, Moved
<1>6. ~FirstUnread'
  <2>1. t < next_tile_idx /\ next_tile_idx \in Nat
    BY <1>0, <1>1, ActiveBatch DEF TypeOK
  <2>2. ASSUME NEW c \in Blocks, tile_idx[c] = t, (Waiting(c) \/ pc[c] = "scan")'
        PROVE  FALSE
    <3>1. c # b
      BY <1>5, <2>2 DEF Waiting
    <3>2. Claimed(c) /\ Claimed(b)
      BY <1>1, <1>5, <2>2, <3>1 DEF Waiting, Claimed, Active, Looking
    <3> QED
      BY <2>2, <3>1, <3>2 DEF IInv, ClaimsDistinct
  <2>3. ~(batch_idx' * TilesPerBatch >= next_tile_idx')
    BY <1>2, <1>3, <1>4, <2>1 DEF Base
  <2> QED
    BY <1>3, <1>4, <2>2, <2>3 DEF FirstUnread, Base, Waiting
<1>7. SumCarried'
  BY <1>2, <1>4, <1>6, SumUntouched, SumSeen
<1>8. LookBackSound(b)'
  <2>1. loaded[b] = {}
    BY <1>1, <1>2 DEF LookBackSound
  <2> QED
    BY <1>4, <1>5, <2>1 DEF LookBackSound, Looking, Waiting
<1>9. exclusive_prefix'[b] = Run(0, t)
  <2>1. exclusive_prefix'[b] = IF t = 0 THEN Run(0, 0) ELSE batched_sum
    BY <1>0, <1>4 DEF TypeOK
  <2>2. t # 0 => batched_sum = Run(0, t)
    <3>1. batch_idx = 0 \/ batched_sum = Run(0, batch_idx * TilesPerBatch)
      BY <1>3 DEF IInv, SumCarried
    <3>2. batch_idx = 0 => t = 0
      BY <1>2, <1>3, BaseType
    <3> QED
      BY <1>3, <3>1, <3>2 DEF Base
  <2> QED
    BY <2>1, <2>2
<1>10. NoStaleDescriptor'
  BY <1>4 DEF IInv, NoStaleDescriptor
<1>11. \A c \in Blocks : c # b => UNCHANGED <<predecessor_idx[c], loaded[c], seen[c], exclusive_prefix[c]>>
  BY <1>0, <1>4 DEF TypeOK
<1> QED
  BY <1>0, <1>2, <1>4, <1>7, <1>8, <1>9, <1>10, <1>11, WithinBatch

LEMMA PublishPartialStep ==
    ASSUME IInv, NEW b \in Blocks, PublishPartial(b)
    PROVE  IInv'
<1> DEFINE t == tile_idx[b]
<1>0. TypeOK /\ TypeOK'
  BY PublishPartialTypes DEF IInv
<1>1. Looking(b) /\ pc[b] = "scan" /\ Slot(t) > 0
  BY DEF PublishPartial, Looking
<1>2. /\ Counting(b) /\ Batch(t) = batch_idx /\ t \in Nat /\ t = Base(batch_idx) + Slot(t)
      /\ batch_idx \in Nat /\ Slot(t) \in Slots /\ LookBackSound(b)
      /\ \A c \in Blocks : current_batch_idx[c] <= batch_idx
  BY <1>1, ActiveBatch
<1>3. /\ Goto(b, "lookback")
      /\ UNCHANGED <<batch_idx, next_tile_idx, lookbacks_completed, batched_sum, tile_idx, d_out,
                     current_batch_idx, predecessor_idx, loaded, seen, exclusive_prefix>>
      /\ d_tile_descriptors' =
           [d_tile_descriptors EXCEPT ![Slot(t)] = Descriptor(SCAN_TILE_PARTIAL, Run(t, t + 1))]
  BY DEF PublishPartial, batch_state, warp, claim, SetPartial
<1>4. pc'[b] = "lookback"
  BY <1>0, <1>3, Moved
<1>5. /\ d_tile_descriptors'[Slot(t)].status = SCAN_TILE_PARTIAL
      /\ d_tile_descriptors'[Slot(t)].value = Run(t, t + 1)
      /\ \A i \in Slots : i # Slot(t) => d_tile_descriptors'[i] = d_tile_descriptors[i]
  BY <1>0, <1>2, <1>3 DEF TypeOK, Descriptor
<1>6. NoStaleDescriptor'
  <2> SUFFICES ASSUME NEW i \in Slots PROVE SoundSlot(batch_idx, i, d_tile_descriptors'[i])
    BY <1>3 DEF NoStaleDescriptor
  <2>1. CASE i = Slot(t)
    BY <1>1, <1>2, <1>5, <2>1 DEF SoundSlot, Base
  <2>2. CASE i # Slot(t)
    BY <1>5, <2>2 DEF IInv, NoStaleDescriptor
  <2> QED
    BY <2>1, <2>2
<1>7. SumCarried'
  <2>1. FirstUnread => \A i \in Slots : d_tile_descriptors'[i].status # SCAN_TILE_INCLUSIVE
    BY <1>5, SumSeen DEF SCAN_TILE_PARTIAL, SCAN_TILE_INCLUSIVE
  <2> QED
    BY <1>2, <1>3, <2>1, SumUntouched, SumSeen
<1>8. LookBackSound(b)'
  BY <1>1, <1>2, <1>3, <1>4 DEF LookBackSound, Looking, Waiting
<1>9. ~Prefixed(b)'
  BY <1>4 DEF Prefixed
<1> QED
  BY <1>0, <1>2, <1>3, <1>6, <1>7, <1>8, <1>9, WithinBatch

\* A block that stays where it is.
LEMMA Stays ==
    ASSUME TypeOK, NEW b \in Blocks, UNCHANGED pc
    PROVE  Goto(b, pc[b])
BY DEF TypeOK, Goto

\* A load finds what the current batch has published.
LEMMA LoadStep ==
    ASSUME IInv, NEW b \in Blocks, NEW l \in Lanes, LoadLane(b, l)
    PROVE  IInv'
<1> DEFINE t == tile_idx[b]
           i == predecessor_idx[b] - l
<1>1. Looking(b) /\ Slot(t) > 0
  BY DEF LoadLane, Looking, IInv, LookBackSound
<1>2. /\ Counting(b) /\ Batch(t) = batch_idx /\ LookBackSound(b)
      /\ Slot(t) \in Nat /\ Slot(t) < TilesPerBatch
      /\ \A c \in Blocks : current_batch_idx[c] <= batch_idx
  BY <1>1, ActiveBatch
<1>3. predecessor_idx[b] \in 0 .. Slot(t) - 1
  BY <1>1, <1>2 DEF LookBackSound
<1>4. TypeOK /\ TypeOK'
  <2>1. predecessor_idx[b] < TilesPerBatch
    BY <1>2, <1>3, TilesAssumption
  <2> QED
    BY <2>1, LoadLaneTypes DEF IInv
<1>5. i \in Int /\ (~(i < 0) => i \in Slots)
  BY <1>2, <1>3, WarpThreadsAssumption, TilesAssumption DEF Lanes, Slots
<1>6. /\ UNCHANGED <<batch_idx, next_tile_idx, lookbacks_completed, batched_sum, tile_idx, d_out, pc,
                     d_tile_descriptors, current_batch_idx, predecessor_idx, exclusive_prefix>>
      /\ seen' = [seen EXCEPT ![b] = [seen[b] EXCEPT ![l] = LoadStatus(i)]]
      /\ loaded' = [loaded EXCEPT ![b] = @ \union {l}]
  BY DEF LoadLane, batch_state, claim
<1> HIDE DEF i
<1>7. Goto(b, pc[b]) /\ pc'[b] = pc[b] /\ pc[b] \in {"scan", "lookback"}
  BY <1>1, <1>4, <1>6, Stays DEF Looking
<1>8. /\ loaded'[b] = loaded[b] \union {l} /\ seen'[b][l] = LoadStatus(i)
      /\ \A j \in Lanes : j # l => seen'[b][j] = seen[b][j]
      /\ \A c \in Blocks : c # b => seen'[c] = seen[c] /\ loaded'[c] = loaded[c]
      /\ loaded[b] \subseteq Lanes
  BY <1>4, <1>6 DEF TypeOK
<1>9. SoundLoad(batch_idx, i, LoadStatus(i))
  <2>1. CASE i < 0
    BY <2>1 DEF SoundLoad, LoadStatus, Descriptor
  <2>2. CASE ~(i < 0)
    BY <1>5, <2>2 DEF IInv, NoStaleDescriptor, SoundLoad, LoadStatus
  <2> QED
    BY <2>1, <2>2
<1>10. LookBackSound(b)'
  <2>1. ASSUME NEW j \in loaded'[b]
        PROVE  SoundLoad(batch_idx, predecessor_idx[b] - j, seen'[b][j])
    <3>1. CASE j = l
      BY <1>8, <1>9, <3>1 DEF i
    <3>2. CASE j # l
      BY <1>1, <1>2, <1>8, <2>1, <3>2 DEF LookBackSound
    <3> QED
      BY <3>1, <3>2
  <2>2. \A j \in loaded'[b] : SoundLoad(batch_idx', predecessor_idx'[b] - j, seen'[b][j])
    BY <1>6, <2>1
  <2> QED
    BY <1>1, <1>2, <1>6, <1>7, <2>2 DEF LookBackSound, Looking, Waiting
<1>11. SumCarried'
  <2>1. ASSUME FirstUnread
        PROVE  \A c \in Blocks : \A j \in loaded'[c] : seen'[c][j].status # SCAN_TILE_INCLUSIVE
    <3>1. LoadStatus(i).status # SCAN_TILE_INCLUSIVE
      <4>1. CASE i < 0
        BY <4>1 DEF LoadStatus, Descriptor, SCAN_TILE_OOB, SCAN_TILE_INCLUSIVE
      <4>2. CASE ~(i < 0)
        BY <1>5, <2>1, <4>2, SumSeen DEF LoadStatus
      <4> QED
        BY <4>1, <4>2
    <3>2. \A c \in Blocks : \A j \in loaded[c] : seen[c][j].status # SCAN_TILE_INCLUSIVE
      BY <2>1, SumSeen
    <3> QED
      BY <1>8, <3>1, <3>2
  <2>2. FirstUnread => \A j \in Slots : d_tile_descriptors'[j].status # SCAN_TILE_INCLUSIVE
    BY <1>6, SumSeen
  <2> QED
    BY <1>2, <1>6, <1>7, <2>1, <2>2, SumUntouched
<1>12. NoStaleDescriptor' /\ ~Prefixed(b)'
  BY <1>6, <1>7 DEF IInv, NoStaleDescriptor, Prefixed
<1>13. \A c \in Blocks : c # b => UNCHANGED <<predecessor_idx[c], loaded[c], seen[c], exclusive_prefix[c]>>
  BY <1>6, <1>8
<1> QED
  BY <1>2, <1>4, <1>6, <1>7, <1>10, <1>11, <1>12, <1>13, WithinBatch

LEMMA RetryStep ==
    ASSUME IInv, NEW b \in Blocks, Retry(b)
    PROVE  IInv'
<1> DEFINE t == tile_idx[b]
<1>0. TypeOK /\ TypeOK'
  BY WindowTypes DEF IInv
<1>1. Looking(b) /\ pc[b] = "lookback"
  BY DEF Retry, Looking
<1>2. /\ Counting(b) /\ Batch(t) = batch_idx /\ LookBackSound(b)
      /\ \A c \in Blocks : current_batch_idx[c] <= batch_idx
  BY <1>1, ActiveBatch
<1>3. /\ UNCHANGED <<batch_idx, next_tile_idx, lookbacks_completed, batched_sum, tile_idx, d_out, pc,
                     d_tile_descriptors, current_batch_idx, predecessor_idx, exclusive_prefix>>
      /\ seen' = [seen EXCEPT ![b] = NoLoads] /\ loaded' = [loaded EXCEPT ![b] = {}]
  BY DEF Retry, batch_state, claim
<1>4. Goto(b, "lookback") /\ pc'[b] = "lookback"
  BY <1>0, <1>1, <1>3, Stays
<1>5. loaded'[b] = {} /\ \A c \in Blocks : c # b => seen'[c] = seen[c] /\ loaded'[c] = loaded[c]
  BY <1>0, <1>3 DEF TypeOK
<1>6. LookBackSound(b)'
  BY <1>1, <1>2, <1>3, <1>4, <1>5 DEF LookBackSound, Looking, Waiting
<1>7. SumCarried'
  <2>1. FirstUnread => \A c \in Blocks : \A j \in loaded'[c] : seen'[c][j].status # SCAN_TILE_INCLUSIVE
    BY <1>5, SumSeen
  <2>2. FirstUnread => \A j \in Slots : d_tile_descriptors'[j].status # SCAN_TILE_INCLUSIVE
    BY <1>3, SumSeen
  <2> QED
    BY <1>2, <1>3, <1>4, <2>1, <2>2, SumUntouched
<1>8. NoStaleDescriptor' /\ ~Prefixed(b)'
  BY <1>3, <1>4 DEF IInv, NoStaleDescriptor, Prefixed
<1>9. \A c \in Blocks : c # b => UNCHANGED <<predecessor_idx[c], loaded[c], seen[c], exclusive_prefix[c]>>
  BY <1>3, <1>5
<1> QED
  BY <1>0, <1>2, <1>3, <1>4, <1>6, <1>7, <1>8, <1>9, WithinBatch

\* A window is folded into the prefix: the look-back ends with the reduction of
\* all tiles before the block's, or goes on one warp further back.
LEMMA WindowStep ==
    ASSUME IInv, NEW b \in Blocks, ProcessWindow(b)
    PROVE  IInv'
<1> DEFINE t == tile_idx[b]
           p == predecessor_idx[b]
<1>0. TypeOK /\ TypeOK'
  BY WindowTypes DEF IInv
<1>1. Looking(b) /\ pc[b] = "lookback"
  BY DEF ProcessWindow, Looking
<1>2. /\ Counting(b) /\ Batch(t) = batch_idx /\ LookBackSound(b) /\ t \in Nat
      /\ batch_idx \in Nat /\ Base(batch_idx) \in Nat /\ t = Base(batch_idx) + Slot(t) /\ Slot(t) \in Nat
      /\ \A c \in Blocks : current_batch_idx[c] <= batch_idx
  BY <1>1, ActiveBatch
<1>3. /\ Slot(t) > 0 /\ p \in 0 .. Slot(t) - 1 /\ p \in Nat
      /\ p = Slot(t) - 1 \/ exclusive_prefix[b] = Run(Base(batch_idx) + p + 1, t)
      /\ \A l \in Lanes : SoundLoad(batch_idx, p - l, seen[b][l]) /\ seen[b][l].status # SCAN_TILE_INVALID
  <2>1. loaded[b] = Lanes /\ ~AnyInvalid(b) /\ Slot(t) > 0
    BY <1>1, <1>2 DEF ProcessWindow, LookBackSound
  <2>2. /\ p \in 0 .. Slot(t) - 1
        /\ p = Slot(t) - 1 \/ exclusive_prefix[b] = Run(Base(batch_idx) + p + 1, t)
        /\ \A l \in Lanes : SoundLoad(batch_idx, p - l, seen[b][l])
    BY <1>1, <1>2, <2>1 DEF LookBackSound, Base
  <2> QED
    BY <1>2, <2>1, <2>2 DEF AnyInvalid
<1>4. /\ TailFlags(b) # {} => WindowAggregate(b) = Run(0, Base(batch_idx) + p + 1)
      /\ TailFlags(b) = {} =>
           /\ p - WarpThreads >= 0
           /\ WindowAggregate(b) = Run(Base(batch_idx) + (p - WarpThreads) + 1, Base(batch_idx) + p + 1)
  <2>1. seen[b] \in [Lanes -> TileDescriptor]
    BY <1>0 DEF TypeOK
  <2> DEFINE s == seen[b]
  <2> HIDE DEF s
  <2>2. s \in [Lanes -> TileDescriptor]
        /\ \A l \in Lanes : SoundLoad(batch_idx, p - l, s[l]) /\ s[l].status # SCAN_TILE_INVALID
    BY <1>3, <2>1 DEF s
  <2>3. LET tails == {l \in Lanes : s[l].status = SCAN_TILE_INCLUSIVE}
            val == [l \in Lanes |-> s[l].value]
        IN  /\ tails # {} => TailSegmentedReduce(val, tails) = Run(0, Base(batch_idx) + p + 1)
            /\ tails = {} =>
                 /\ p - WarpThreads >= 0
                 /\ TailSegmentedReduce(val, tails) =
                      Run(Base(batch_idx) + (p - WarpThreads) + 1, Base(batch_idx) + p + 1)
    BY <1>2, <1>3, <2>2, WindowReduction
  <2> QED
    BY <2>3 DEF s, TailFlags, WindowAggregate
<1> DEFINE fold == IF p = Slot(t) - 1 THEN WindowAggregate(b) ELSE scan_op(WindowAggregate(b), exclusive_prefix[b])
<1>5. ASSUME NEW lo \in Nat, WindowAggregate(b) = Run(lo, Base(batch_idx) + p + 1)
      PROVE  fold = Run(lo, t)
  <2>1. CASE p = Slot(t) - 1
    <3>1. Base(batch_idx) + p + 1 = t
      BY <1>2, <1>3, <2>1
    <3> QED
      BY <1>5, <2>1, <3>1
  <2>2. CASE p # Slot(t) - 1
    <3>1. exclusive_prefix[b] = Run(Base(batch_idx) + p + 1, t)
      BY <1>3, <2>2
    <3>2. Base(batch_idx) + p + 1 \in Nat
      BY <1>2, <1>3
    <3>3. \A x, y, z \in Nat : scan_op(Run(x, y), Run(y, z)) = Run(x, z)
      BY DEF scan_op, Run, Garbage
    <3> QED
      BY <1>2, <1>5, <2>2, <3>1, <3>2, <3>3
  <2> QED
    BY <2>1, <2>2
<1>6. /\ UNCHANGED <<batch_idx, next_tile_idx, lookbacks_completed, batched_sum, tile_idx, d_out,
                     d_tile_descriptors, current_batch_idx>>
      /\ seen' = [seen EXCEPT ![b] = NoLoads] /\ loaded' = [loaded EXCEPT ![b] = {}]
      /\ exclusive_prefix' = [exclusive_prefix EXCEPT ![b] = fold]
  BY DEF ProcessWindow, batch_state, claim
<1> HIDE DEF fold
<1>7. /\ loaded'[b] = {} /\ exclusive_prefix'[b] = fold
      /\ \A c \in Blocks : c # b => seen'[c] = seen[c] /\ loaded'[c] = loaded[c]
                                    /\ exclusive_prefix'[c] = exclusive_prefix[c]
  BY <1>0, <1>6 DEF TypeOK
<1>8. NoStaleDescriptor'
  BY <1>6 DEF IInv, NoStaleDescriptor
<1>9. FirstUnread => /\ \A c \in Blocks : \A j \in loaded'[c] : seen'[c][j].status # SCAN_TILE_INCLUSIVE
                     /\ \A j \in Slots : d_tile_descriptors'[j].status # SCAN_TILE_INCLUSIVE
  BY <1>6, <1>7, SumSeen
<1>10. CASE TailFlags(b) # {}
  <2>1. Goto(b, "publish") /\ UNCHANGED predecessor_idx
    BY <1>10 DEF ProcessWindow
  <2>2. pc'[b] = "publish"
    BY <1>0, <2>1, Moved
  <2>3. ~FirstUnread
    <3> SUFFICES ASSUME FirstUnread PROVE FALSE
      OBVIOUS
    <3>1. loaded[b] = Lanes
      BY DEF ProcessWindow
    <3> QED
      BY <1>10, <3>1, SumSeen DEF TailFlags
  <2>4. SumCarried'
    BY <1>2, <1>6, <2>1, <2>3, SumUntouched
  <2>5. LookBackSound(b)'
    BY <1>7, <2>2 DEF LookBackSound, Looking, Waiting
  <2>6. exclusive_prefix'[b] = Run(0, t)
    BY <1>4, <1>5, <1>7, <1>10
  <2>7. \A c \in Blocks : c # b => UNCHANGED <<predecessor_idx[c], loaded[c], seen[c], exclusive_prefix[c]>>
    BY <1>7, <2>1
  <2> QED
    BY <1>0, <1>2, <1>6, <1>8, <2>1, <2>4, <2>5, <2>6, <2>7, WithinBatch
<1>11. CASE TailFlags(b) = {}
  <2>1. UNCHANGED pc /\ predecessor_idx' = [predecessor_idx EXCEPT ![b] = p - WarpThreads]
    BY <1>11 DEF ProcessWindow
  <2>2. Goto(b, "lookback") /\ pc'[b] = "lookback"
    BY <1>0, <1>1, <2>1, Stays
  <2>3. predecessor_idx'[b] = p - WarpThreads /\ \A c \in Blocks : c # b => predecessor_idx'[c] = predecessor_idx[c]
    BY <1>0, <2>1 DEF TypeOK
  <2>4. p - WarpThreads \in 0 .. Slot(t) - 1
    BY <1>2, <1>3, <1>4, <1>11, WarpThreadsAssumption
  <2>5. exclusive_prefix'[b] = Run(Base(batch_idx) + (p - WarpThreads) + 1, t)
    <3>1. Base(batch_idx) + (p - WarpThreads) + 1 \in Nat
      BY <1>2, <2>4
    <3> QED
      BY <1>4, <1>5, <1>7, <1>11, <3>1
  <2>6. LookBackSound(b)'
    BY <1>3, <1>6, <1>7, <2>2, <2>3, <2>4, <2>5 DEF LookBackSound, Looking, Waiting, Base
  <2>7. SumCarried'
    BY <1>2, <1>6, <1>9, <2>2, SumUntouched
  <2>8. \A c \in Blocks : c # b => UNCHANGED <<predecessor_idx[c], loaded[c], seen[c], exclusive_prefix[c]>>
    BY <1>7, <2>3
  <2>9. ~Prefixed(b)'
    BY <2>2 DEF Prefixed
  <2> QED
    BY <1>0, <1>2, <1>6, <1>8, <2>2, <2>6, <2>7, <2>8, <2>9, WithinBatch
<1> QED
  BY <1>10, <1>11

-----------------------------------------------------------------------------
(* The end of a tile and of a batch.                                       *)

\* A block that is done with its tile.
LEMMA TileDone ==
    ASSUME IInv, NEW b \in Blocks, Prefixed(b), NEW m \in {"store", "reset"}, Goto(b, m),
           m = "reset" => ~FinalBatch(tile_idx[b]),
           UNCHANGED <<batch_idx, next_tile_idx, tile_idx, current_batch_idx>>
    PROVE  /\ ClaimsDistinct' /\ InBatch'
           /\ tile_idx[b] \in Pending /\ Pending' = Pending \ {tile_idx[b]}
           /\ \A c \in Blocks : ~Resetting(c)
           /\ ~FirstUnread /\ ~FirstUnread'
           /\ pc[b] = "count" => (LastSaved' => LastSaved)
<1> DEFINE t == tile_idx[b]
<1>0. TypeOK /\ ClaimsDistinct /\ InBatch
  BY DEF IInv
<1>1. pc'[b] = m /\ \A c \in Blocks : c # b => pc'[c] = pc[c]
  BY <1>0, Moved
<1>2. Counting(b) /\ Batch(t) = batch_idx /\ batch_idx \in Nat
  BY ActiveBatch
<1>3. t \in Uncounted /\ t \in Pending /\ \A c \in Blocks : ~Resetting(c)
  BY <1>2, CountingPending
<1>4. ~Counting(b)' /\ Claimed(b)' /\ Claimed(b)
  BY <1>1 DEF Counting, Waiting, Looking, Prefixed, Resetting, Storing, Active, Claimed
<1>5. \A c \in Blocks : c # b =>
        (Counting(c)' = Counting(c)) /\ (Active(c)' = Active(c)) /\ (Claimed(c)' = Claimed(c))
  BY <1>1 DEF Counting, Waiting, Looking, Prefixed, Resetting, Storing, Active, Claimed
<1>6. Uncounted' = Uncounted \ {t}
  <2>1. t < next_tile_idx /\ next_tile_idx \in Nat /\ t \in Nat
    BY <1>0, <1>4 DEF ClaimsDistinct, TypeOK
  <2>2. \A c \in Blocks : c # b /\ Counting(c) => tile_idx[c] # t
    BY <1>0, <1>4 DEF ClaimsDistinct, Counting, Claimed, Active
  <2>3. ASSUME NEW u \in Uncounted' PROVE u \in Uncounted \ {t}
    <3>1. u \in Tiles /\ (u >= next_tile_idx \/ \E c \in Blocks : tile_idx[c] = u /\ Counting(c)')
      BY <2>3 DEF Uncounted
    <3>2. u >= next_tile_idx => u # t
      BY <2>1
    <3> QED
      BY <1>4, <1>5, <2>2, <3>1, <3>2 DEF Uncounted
  <2>4. ASSUME NEW u \in Uncounted, u # t PROVE u \in Uncounted'
    <3>1. u \in Tiles /\ (u >= next_tile_idx \/ \E c \in Blocks : tile_idx[c] = u /\ Counting(c))
      BY DEF Uncounted
    <3> QED
      BY <1>5, <2>4, <3>1 DEF Uncounted
  <2> QED
    BY <2>3, <2>4
<1>7. Pending' = Pending \ {t}
  BY <1>6 DEF Pending
<1>8. ClaimsDistinct'
  BY <1>0, <1>4, <1>5 DEF ClaimsDistinct
<1>9. InBatch'
  <2>1. ASSUME NEW c \in Blocks
        PROVE  /\ current_batch_idx'[c] <= batch_idx'
               /\ Active(c)' => Batch(tile_idx'[c]) = batch_idx'
               /\ pc'[c] \in {"save", "count"} \/ Resetting(c)' => ~FinalBatch(tile_idx'[c])
    BY <1>0, <1>1, <1>2, <1>3, <1>5 DEF InBatch, Resetting
  <2>2. ASSUME NEW u \in Tiles
        PROVE  /\ u \in Uncounted' => Batch(u) >= batch_idx'
               /\ Batch(u) > batch_idx' => u \in Uncounted'
    <3>1. Batch(u) > batch_idx => u # t
      BY <1>2
    <3> QED
      BY <1>0, <1>6, <3>1 DEF InBatch
  <2> QED
    BY <2>1, <2>2 DEF InBatch
<1>10. ~FirstUnread
  BY SumSeen
<1>11. ~FirstUnread'
  BY <1>1, <1>10 DEF FirstUnread, Waiting
<1>12. pc[b] = "count" => (LastSaved' => LastSaved)
  BY <1>1 DEF LastSaved, Waiting, Looking
<1> QED
  BY <1>3, <1>7, <1>8, <1>9, <1>10, <1>11, <1>12

\* The parts that only look at the blocks themselves, when block b leaves for
\* a place where it has the prefix it had.
LEMMA KeepsPrefix ==
    ASSUME IInv, NEW b \in Blocks, Prefixed(b) \/ Resetting(b),
           NEW m \in {"store", "reset", "advance"}, Goto(b, m),
           UNCHANGED <<batch_idx, tile_idx, predecessor_idx, loaded, seen, exclusive_prefix>>
    PROVE  PrefixCorrect' /\ \A c \in Blocks : LookBackSound(c)'
<1>1. pc'[b] = m /\ \A c \in Blocks : c # b => pc'[c] = pc[c]
  BY Moved DEF IInv
<1>2. PrefixCorrect'
  BY <1>1 DEF IInv, PrefixCorrect, Prefixed, Resetting, Storing
<1>3. ASSUME NEW c \in Blocks PROVE LookBackSound(c)'
  <2>1. CASE c # b
    BY <1>1, <2>1, OthersLookBack
  <2>2. CASE c = b
    <3>1. loaded[b] = {}
      BY DEF IInv, LookBackSound, Looking, Prefixed, Resetting
    <3> QED
      BY <1>1, <2>2, <3>1 DEF LookBackSound, Looking, Waiting
  <2> QED
    BY <2>1, <2>2
<1> QED
  BY <1>2, <1>3

LEMMA PublishInclusiveStep ==
    ASSUME IInv, NEW b \in Blocks, PublishInclusive(b)
    PROVE  IInv'
<1> DEFINE t == tile_idx[b]
<1>0. TypeOK /\ TypeOK'
  BY PublishInclusiveTypes DEF IInv
<1>1. Prefixed(b) /\ pc[b] \in {"first", "publish"}
  BY DEF PublishInclusive, Prefixed
<1>2. /\ Counting(b) /\ Batch(t) = batch_idx /\ t \in Nat /\ t = Base(batch_idx) + Slot(t)
      /\ batch_idx \in Nat /\ Slot(t) \in Slots /\ LookBackSound(b)
      /\ \A c \in Blocks : current_batch_idx[c] <= batch_idx
  BY <1>1, ActiveBatch
<1>3. exclusive_prefix[b] = Run(0, t) /\ TileInclusive(b) = Run(0, t + 1)
  <2>1. exclusive_prefix[b] = Run(0, t)
    BY <1>1 DEF IInv, PrefixCorrect
  <2>2. \A n \in Nat : scan_op(Run(0, n), Run(n, n + 1)) = Run(0, n + 1)
    BY DEF scan_op, Run, Garbage
  <2> QED
    BY <1>2, <2>1, <2>2 DEF TileInclusive
<1>4. /\ UNCHANGED <<batch_idx, next_tile_idx, lookbacks_completed, batched_sum, tile_idx, d_out,
                     current_batch_idx, predecessor_idx, loaded, seen, exclusive_prefix, unreset>>
      /\ d_tile_descriptors' =
           [d_tile_descriptors EXCEPT ![Slot(t)] = Descriptor(SCAN_TILE_INCLUSIVE, Run(0, t + 1))]
  BY <1>3 DEF PublishInclusive, batch_state, warp, claim, SetInclusive
<1>5. NoStaleDescriptor'
  <2> SUFFICES ASSUME NEW i \in Slots PROVE SoundSlot(batch_idx, i, d_tile_descriptors'[i])
    BY <1>4 DEF NoStaleDescriptor
  <2>1. CASE i = Slot(t)
    <3>1. d_tile_descriptors'[i] = Descriptor(SCAN_TILE_INCLUSIVE, Run(0, t + 1))
      BY <1>0, <1>2, <1>4, <2>1 DEF TypeOK
    <3> QED
      BY <1>2, <2>1, <3>1 DEF SoundSlot, Base, Descriptor
  <2>2. CASE i # Slot(t)
    <3>1. d_tile_descriptors'[i] = d_tile_descriptors[i]
      BY <1>0, <1>4, <2>2 DEF TypeOK
    <3> QED
      BY <3>1 DEF IInv, NoStaleDescriptor
  <2> QED
    BY <2>1, <2>2
<1>6. ~FirstUnread
  BY <1>1, SumSeen
<1>7. CASE ~FinalBatch(t)
  <2>1. Goto(b, "save")
    BY <1>7 DEF PublishInclusive
  <2>2. pc'[b] = "save"
    BY <1>0, <2>1, Moved
  <2>3. SumCarried'
    BY <1>2, <1>4, <1>6, <1>7, <2>1, SumUntouched
  <2>4. LookBackSound(b)'
    <3>1. loaded[b] = {}
      BY <1>1, <1>2 DEF LookBackSound, Looking
    <3> QED
      BY <1>4, <2>2, <3>1 DEF LookBackSound, Looking, Waiting
  <2> QED
    BY <1>0, <1>2, <1>3, <1>4, <1>5, <1>7, <2>1, <2>3, <2>4, WithinBatch
<1>8. CASE FinalBatch(t)
  <2>1. Goto(b, "store")
    BY <1>8 DEF PublishInclusive
  <2>2. pc'[b] = "store" /\ \A c \in Blocks : c # b => pc'[c] = pc[c]
    BY <1>0, <2>1, Moved
  <2>3. /\ ClaimsDistinct' /\ InBatch' /\ ~FirstUnread'
        /\ \A c \in Blocks : ~Resetting(c)
    BY <1>1, <1>4, <2>1, TileDone
  <2>4. \A c \in Blocks : ~Resetting(c)'
    BY <2>2, <2>3 DEF Resetting
  <2>5. ~((batch_idx' + 1) * TilesPerBatch < NumTiles)
    <3>1. (batch_idx + 1) * TilesPerBatch \in Int
      BY <1>2, TilesAssumption
    <3> QED
      BY <1>2, <1>4, <1>8, <3>1, TilesAssumption DEF FinalBatch
  <2>6. CountsMatch' /\ ResetAlone' /\ ResetClean'
    BY <2>4, <2>5 DEF CountsMatch, ResetAlone, ResetClean, Resetting
  <2>7. SumCarried'
    BY <2>3, <2>5 DEF SumCarried
  <2>8. PrefixCorrect' /\ \A c \in Blocks : LookBackSound(c)'
    BY <1>1, <1>4, <2>1, KeepsPrefix
  <2>9. OutputCorrect'
    BY <1>4 DEF IInv, OutputCorrect
  <2> QED
    BY <1>0, <1>5, <2>3, <2>6, <2>7, <2>8, <2>9 DEF IInv
<1> QED
  BY <1>7, <1>8

LEMMA SaveSumStep ==
    ASSUME IInv, NEW b \in Blocks, SaveSum(b)
    PROVE  IInv'
<1> DEFINE t == tile_idx[b]
<1>0. TypeOK /\ TypeOK'
  BY SaveSumTypes DEF IInv
<1>1. Prefixed(b) /\ pc[b] = "save"
  BY DEF SaveSum, Prefixed
<1>2. /\ Counting(b) /\ Batch(t) = batch_idx /\ t \in Nat /\ t = Base(batch_idx) + Slot(t)
      /\ batch_idx \in Nat /\ Base(batch_idx) \in Nat /\ Slot(t) \in Nat /\ LookBackSound(b)
      /\ \A c \in Blocks : current_batch_idx[c] <= batch_idx
  BY <1>1, ActiveBatch
<1>3. ~FinalBatch(t) /\ BatchTiles(t) = TilesPerBatch
  BY <1>1, <1>2, FullBatch DEF IInv, InBatch
<1>4. exclusive_prefix[b] = Run(0, t) /\ TileInclusive(b) = Run(0, t + 1)
  <2>1. exclusive_prefix[b] = Run(0, t)
    BY <1>1 DEF IInv, PrefixCorrect
  <2>2. \A n \in Nat : scan_op(Run(0, n), Run(n, n + 1)) = Run(0, n + 1)
    BY DEF scan_op, Run, Garbage
  <2> QED
    BY <1>2, <2>1, <2>2 DEF TileInclusive
<1>5. /\ Goto(b, "count")
      /\ UNCHANGED <<batch_idx, next_tile_idx, lookbacks_completed, tile_idx, d_out, d_tile_descriptors,
                     current_batch_idx, predecessor_idx, loaded, seen, exclusive_prefix>>
      /\ batched_sum' = IF Slot(t) + 1 = TilesPerBatch THEN Run(0, t + 1) ELSE batched_sum
  BY <1>3, <1>4 DEF SaveSum, warp, claim
<1>6. pc'[b] = "count" /\ \A c \in Blocks : c # b => pc'[c] = pc[c]
  BY <1>0, <1>5, Moved
<1>7. ~FirstUnread' /\ ~FirstUnread
  <2>1. ~FirstUnread
    BY <1>1, SumSeen
  <2>2. FirstUnread' => FirstUnread
    BY <1>2, <1>3, <1>5, SameTiles
  <2> QED
    BY <2>1, <2>2
<1>8. (batch_idx + 1) * TilesPerBatch = Base(batch_idx) + TilesPerBatch
  BY <1>2, BaseType DEF Base
<1>9. SumCarried'
  <2>1. ASSUME (batch_idx + 1) * TilesPerBatch < NumTiles, LastSaved'
        PROVE  batched_sum' = Run(0, (batch_idx + 1) * TilesPerBatch)
    <3>1. CASE Slot(t) + 1 = TilesPerBatch
      <4>1. t + 1 = Base(batch_idx) + TilesPerBatch
        BY <1>2, <3>1
      <4> QED
        BY <1>5, <1>8, <3>1, <4>1
    <3>2. CASE Slot(t) + 1 # TilesPerBatch
      <4>1. t # (batch_idx + 1) * TilesPerBatch - 1
        BY <1>2, <1>8, <3>2, TilesAssumption
      <4>2. LastSaved
        BY <1>5, <1>6, <2>1, <4>1 DEF LastSaved, Waiting, Looking
      <4> QED
        BY <1>5, <2>1, <3>2, <4>2 DEF IInv, SumCarried
    <3> QED
      BY <3>1, <3>2
  <2> QED
    BY <1>5, <1>7, <2>1 DEF SumCarried
<1>10. LookBackSound(b)'
  <2>1. loaded[b] = {}
    BY <1>1, <1>2 DEF LookBackSound, Looking
  <2> QED
    BY <1>5, <1>6, <2>1 DEF LookBackSound, Looking, Waiting
<1>11. NoStaleDescriptor'
  BY <1>5 DEF IInv, NoStaleDescriptor
<1> QED
  BY <1>0, <1>2, <1>3, <1>4, <1>5, <1>9, <1>10, <1>11, WithinBatch

LEMMA PendingFinite ==
    /\ IsFiniteSet(Pending) /\ Cardinality(Pending) \in Nat
    /\ IsFiniteSet(Pending') /\ Cardinality(Pending') \in Nat
<1>1. IsFiniteSet(Tiles)
  <2>1. 0 \in Int /\ NumTiles - 1 \in Int
    BY TilesAssumption
  <2> QED
    BY <2>1, FS_Interval DEF Tiles
<1>2. Pending \subseteq Tiles /\ Pending' \subseteq Tiles
  BY DEF Pending, Uncounted
<1> QED
  BY <1>1, <1>2, FS_Subset, FS_CardinalityType

LEMMA CountLookBackStep ==
    ASSUME IInv, NEW b \in Blocks, CountLookBack(b)
    PROVE  IInv'
<1> DEFINE t == tile_idx[b]
<1>0. TypeOK /\ TypeOK'
  BY CompletionTypes DEF IInv
<1>1. Prefixed(b) /\ pc[b] = "count"
  BY DEF CountLookBack, Prefixed
<1>2. Batch(t) = batch_idx /\ t \in Nat /\ batch_idx \in Nat
  BY <1>1, ActiveBatch
<1>3. ~FinalBatch(t) /\ BatchTiles(t) = TilesPerBatch
  BY <1>1, <1>2, FullBatch DEF IInv, InBatch
<1>4. (batch_idx + 1) * TilesPerBatch < NumTiles
  <2>1. (batch_idx + 1) * TilesPerBatch \in Int
    BY <1>2, TilesAssumption
  <2> QED
    BY <1>2, <1>3, <2>1, TilesAssumption DEF FinalBatch
<1>5. /\ UNCHANGED <<d_tile_descriptors, batch_idx, next_tile_idx, batched_sum, tile_idx, current_batch_idx,
                     predecessor_idx, loaded, seen, exclusive_prefix, d_out>>
      /\ lookbacks_completed' = lookbacks_completed + 1
      /\ IF lookbacks_completed + 1 = TilesPerBatch
         THEN Goto(b, "reset") /\ unreset' = [unreset EXCEPT ![b] = Slots]
         ELSE Goto(b, "store") /\ UNCHANGED unreset
  BY <1>3 DEF CountLookBack, claim, warp
<1>6. PICK m \in {"store", "reset"} : Goto(b, m) /\ (m = "reset" <=> lookbacks_completed + 1 = TilesPerBatch)
  BY <1>5
<1>7. pc'[b] = m /\ \A c \in Blocks : c # b => pc'[c] = pc[c]
  BY <1>0, <1>6, Moved
<1>8. /\ ClaimsDistinct' /\ InBatch'
      /\ t \in Pending /\ Pending' = Pending \ {t}
      /\ \A c \in Blocks : ~Resetting(c)
      /\ ~FirstUnread'
      /\ LastSaved' => LastSaved
  BY <1>1, <1>3, <1>5, <1>6, TileDone
<1>9. /\ Cardinality(Pending') = Cardinality(Pending) - 1
      /\ lookbacks_completed + Cardinality(Pending) = TilesPerBatch
      /\ lookbacks_completed \in Nat /\ Cardinality(Pending) \in Nat
      /\ Cardinality(Pending') \in Nat
      /\ Cardinality(Pending') = 0 => Pending' = {}
  <2>1. Cardinality(Pending') = Cardinality(Pending) - 1
    BY <1>8, PendingFinite, FS_RemoveElement
  <2>2. lookbacks_completed + Cardinality(Pending) = TilesPerBatch
    BY <1>4, <1>8 DEF IInv, CountsMatch
  <2>3. Cardinality(Pending') = 0 => Pending' = {}
    BY PendingFinite, FS_EmptySet
  <2> QED
    BY <1>0, <2>1, <2>2, <2>3, PendingFinite DEF TypeOK
<1>10. m = "reset" => Pending' = {}
  <2>1. m = "reset" => Cardinality(Pending') = 0
    BY <1>6, <1>9, TilesAssumption
  <2> QED
    BY <1>9, <2>1
<1>11. \A c \in Blocks : Resetting(c)' => c = b /\ m = "reset"
  BY <1>7, <1>8 DEF Resetting
<1>12. CountsMatch'
  <2>1. \A c \in Blocks : (Resetting(c)' => Pending' = {}) /\ pc'[c] # "advance"
    BY <1>7, <1>8, <1>10, <1>11 DEF Resetting
  <2>2. lookbacks_completed' + Cardinality(Pending') = TilesPerBatch
    BY <1>5, <1>9, TilesAssumption
  <2> QED
    BY <2>1, <2>2 DEF CountsMatch
<1>13. ResetAlone'
  <2> SUFFICES ASSUME NEW c \in Blocks, c # b, m = "reset"
               PROVE  pc'[c] \in {"claim", "wait_batch", "store", "exit"}
    BY <1>7, <1>11 DEF ResetAlone, Resetting
  <2>1. ~(Looking(c) \/ Prefixed(c))
    <3> SUFFICES ASSUME Looking(c) \/ Prefixed(c) PROVE FALSE
      OBVIOUS
    <3>1. Counting(c) /\ Batch(tile_idx[c]) = batch_idx
      BY ActiveBatch
    <3>2. tile_idx[c] \in Pending
      BY <3>1, CountingPending
    <3>3. tile_idx[c] # t
      BY <1>1 DEF IInv, ClaimsDistinct, Claimed, Active
    <3> QED
      BY <1>8, <1>10, <3>2, <3>3
  <2>2. pc[c] \in {"claim", "wait_batch", "scan", "lookback", "first", "publish", "save", "count",
                   "reset", "advance", "store", "exit"}
    BY <1>0 DEF TypeOK
  <2> QED
    BY <1>7, <1>8, <2>1, <2>2 DEF Looking, Prefixed, Resetting
<1>14. ResetClean'
  <2> SUFFICES ASSUME m = "reset"
               PROVE  pc'[b] # "advance" /\ unreset'[b] = Slots
    BY <1>11 DEF ResetClean
  <2> QED
    BY <1>0, <1>5, <1>6, <1>7 DEF TypeOK
<1>15. SumCarried'
  BY <1>5, <1>8 DEF IInv, SumCarried
<1>16. PrefixCorrect' /\ \A c \in Blocks : LookBackSound(c)'
  BY <1>1, <1>5, <1>6, KeepsPrefix
<1>17. NoStaleDescriptor' /\ OutputCorrect'
  BY <1>5 DEF IInv, NoStaleDescriptor, OutputCorrect
<1> QED
  BY <1>0, <1>8, <1>12, <1>13, <1>14, <1>15, <1>16, <1>17 DEF IInv

\* Blocks go on without touching which tiles have been counted.
LEMMA SameUncounted ==
    ASSUME NEW b \in Blocks, ~Counting(b), ~Counting(b)',
           \A c \in Blocks : c # b => pc'[c] = pc[c],
           UNCHANGED <<next_tile_idx, tile_idx>>
    PROVE  Uncounted' = Uncounted
<1>1. \A c \in Blocks : Counting(c)' <=> Counting(c)
  BY DEF Counting, Waiting, Looking, Prefixed
<1> QED
  BY <1>1 DEF Uncounted

\* A block that resets the descriptors does it alone.
LEMMA OnlyOneResets ==
    ASSUME IInv, NEW b \in Blocks, Resetting(b)
    PROVE  /\ Pending = {} /\ ~FirstUnread /\ ~Counting(b) /\ Claimed(b)
           /\ \A c \in Blocks : c # b => pc[c] \in {"claim", "wait_batch", "store", "exit"}
           /\ \A c \in Blocks : c # b => ~Resetting(c) /\ ~Looking(c) /\ ~Prefixed(c)
           /\ Batch(tile_idx[b]) = batch_idx /\ ~FinalBatch(tile_idx[b])
           /\ batch_idx \in Nat /\ tile_idx[b] \in Nat
           /\ (batch_idx + 1) * TilesPerBatch < NumTiles
<1>1. Pending = {} /\ ~FirstUnread /\ ~Counting(b) /\ Claimed(b) /\ Active(b)
  BY SumSeen DEF IInv, CountsMatch, Counting, Waiting, Looking, Prefixed, Resetting, Claimed, Active
<1>2. \A c \in Blocks : c # b => pc[c] \in {"claim", "wait_batch", "store", "exit"}
  BY DEF IInv, ResetAlone, Resetting
<1>3. Batch(tile_idx[b]) = batch_idx /\ ~FinalBatch(tile_idx[b]) /\ batch_idx \in Nat /\ tile_idx[b] \in Nat
  BY <1>1 DEF IInv, InBatch, TypeOK
<1>4. (batch_idx + 1) * TilesPerBatch < NumTiles
  <2>1. (batch_idx + 1) * TilesPerBatch \in Int
    BY <1>3, TilesAssumption
  <2> QED
    BY <1>3, <2>1, TilesAssumption DEF FinalBatch
<1> QED
  BY <1>1, <1>2, <1>3, <1>4 DEF Resetting, Looking, Prefixed

LEMMA ResetStep ==
    ASSUME IInv, NEW b \in Blocks, NEW i \in Slots, Reset(b, i)
    PROVE  IInv'
<1>0. TypeOK /\ TypeOK'
  BY CompletionTypes DEF IInv
<1>1. Resetting(b) /\ pc[b] = "reset"
  BY DEF Reset, Resetting
<1>2. ~FirstUnread /\ \A c \in Blocks : c # b => ~Resetting(c)
  BY <1>1, OnlyOneResets
<1>3. /\ UNCHANGED <<batch_idx, next_tile_idx, lookbacks_completed, batched_sum, pc, tile_idx,
                     current_batch_idx, predecessor_idx, loaded, seen, exclusive_prefix, d_out>>
      /\ d_tile_descriptors' = [d_tile_descriptors EXCEPT ![i] = Descriptor(SCAN_TILE_INVALID, Garbage)]
      /\ unreset' = [unreset EXCEPT ![b] = @ \ {i}]
  BY DEF Reset, batch_state, claim, warp
<1>4. /\ d_tile_descriptors'[i].status = SCAN_TILE_INVALID
      /\ \A j \in Slots : j # i => d_tile_descriptors'[j] = d_tile_descriptors[j]
      /\ unreset'[b] = unreset[b] \ {i}
  BY <1>0, <1>3 DEF TypeOK, Descriptor
<1>5. NoStaleDescriptor'
  BY <1>3, <1>4 DEF IInv, NoStaleDescriptor, SoundSlot
<1>6. ResetClean'
  <2>1. \A j \in Slots \ unreset'[b] : d_tile_descriptors'[j].status = SCAN_TILE_INVALID
    BY <1>1, <1>4 DEF IInv, ResetClean
  <2> QED
    BY <1>1, <1>2, <1>3, <2>1 DEF ResetClean, Resetting
<1>7. ClaimsDistinct' /\ InBatch' /\ CountsMatch' /\ ResetAlone'
  <2>1. /\ \A c \in Blocks : Claimed(c)' = Claimed(c) /\ Active(c)' = Active(c) /\ Resetting(c)' = Resetting(c)
                             /\ Counting(c)' = Counting(c)
    BY <1>3 DEF Claimed, Active, Waiting, Looking, Prefixed, Resetting, Storing, Counting
  <2>2. Uncounted' = Uncounted
    BY <1>3, <2>1 DEF Uncounted
  <2>3. Pending' = Pending
    BY <1>3, <2>2 DEF Pending
  <2>4. ClaimsDistinct'
    BY <1>3, <2>1 DEF IInv, ClaimsDistinct
  <2>5. InBatch'
    BY <1>3, <2>1, <2>2 DEF IInv, InBatch
  <2>6. CountsMatch'
    BY <1>3, <2>1, <2>3 DEF IInv, CountsMatch
  <2>7. ResetAlone'
    BY <1>3 DEF IInv, ResetAlone
  <2> QED
    BY <2>4, <2>5, <2>6, <2>7
<1>8. SumCarried'
  <2>1. ~FirstUnread' /\ (LastSaved' => LastSaved)
    BY <1>2, <1>3 DEF FirstUnread, LastSaved, Waiting, Looking
  <2> QED
    BY <1>3, <2>1 DEF IInv, SumCarried
<1>9. ASSUME NEW c \in Blocks PROVE LookBackSound(c)'
  BY <1>3, OthersLookBack
<1>10. PrefixCorrect' /\ OutputCorrect'
  BY <1>3 DEF IInv, PrefixCorrect, OutputCorrect, Prefixed, Resetting, Storing
<1> QED
  BY <1>0, <1>5, <1>6, <1>7, <1>8, <1>9, <1>10 DEF IInv

LEMMA ClearCountStep ==
    ASSUME IInv, NEW b \in Blocks, ClearCount(b)
    PROVE  IInv'
<1>0. TypeOK /\ TypeOK'
  BY CompletionTypes DEF IInv
<1>1. Resetting(b) /\ unreset[b] = {}
  BY DEF ClearCount, Resetting
<1>2. /\ Pending = {} /\ ~FirstUnread /\ ~Counting(b) /\ Claimed(b)
      /\ \A c \in Blocks : c # b => pc[c] \in {"claim", "wait_batch", "store", "exit"}
      /\ Batch(tile_idx[b]) = batch_idx /\ ~FinalBatch(tile_idx[b])
  BY <1>1, OnlyOneResets
<1>3. /\ UNCHANGED <<d_tile_descriptors, batch_idx, next_tile_idx, batched_sum, tile_idx, current_batch_idx,
                     predecessor_idx, loaded, seen, exclusive_prefix, unreset, d_out>>
      /\ lookbacks_completed' = 0 /\ Goto(b, "advance")
  BY DEF ClearCount, claim, warp
<1>4. pc'[b] = "advance" /\ \A c \in Blocks : c # b => pc'[c] = pc[c]
  BY <1>0, <1>3, Moved
<1>5. ~Counting(b)' /\ Claimed(b)' /\ Resetting(b)'
  BY <1>4 DEF Counting, Waiting, Looking, Prefixed, Claimed, Active, Resetting
<1>6. \A c \in Blocks : c # b => (Claimed(c)' = Claimed(c)) /\ (Active(c)' = Active(c)) /\ (Resetting(c)' = Resetting(c))
  BY <1>4 DEF Claimed, Active, Waiting, Looking, Prefixed, Resetting, Storing
<1>7. Uncounted' = Uncounted /\ Pending' = Pending
  <2>1. Uncounted' = Uncounted
    BY <1>2, <1>3, <1>4, <1>5, SameUncounted
  <2> QED
    BY <1>3, <2>1 DEF Pending
<1>8. ClaimsDistinct'
  BY <1>2, <1>3, <1>5, <1>6 DEF IInv, ClaimsDistinct
<1>9. InBatch'
  <2>1. ASSUME NEW c \in Blocks
        PROVE  /\ current_batch_idx'[c] <= batch_idx'
               /\ Active(c)' => Batch(tile_idx'[c]) = batch_idx'
               /\ pc'[c] \in {"save", "count"} \/ Resetting(c)' => ~FinalBatch(tile_idx'[c])
    BY <1>2, <1>3, <1>4, <1>6 DEF IInv, InBatch
  <2> QED
    BY <1>3, <1>7, <2>1 DEF IInv, InBatch
<1>10. CountsMatch'
  BY <1>2, <1>3, <1>5, <1>7 DEF CountsMatch
<1>11. ResetAlone'
  BY <1>2, <1>4 DEF ResetAlone
<1>12. ResetClean'
  <2>1. \A i \in Slots : d_tile_descriptors[i].status = SCAN_TILE_INVALID
    BY <1>1 DEF IInv, ResetClean
  <2>2. \A c \in Blocks : Resetting(c)' => c = b
    BY <1>2, <1>4 DEF Resetting
  <2> QED
    BY <1>1, <1>3, <2>1, <2>2 DEF ResetClean
<1>13. SumCarried'
  <2>1. ~FirstUnread' /\ (LastSaved' => LastSaved)
    <3>1. LastSaved' => LastSaved
      BY <1>1, <1>3, <1>4 DEF LastSaved, Waiting, Looking, Resetting
    <3> QED
      BY <1>2, <1>3, <1>4, <3>1 DEF FirstUnread, Waiting
  <2> QED
    BY <1>3, <2>1 DEF IInv, SumCarried
<1>14. PrefixCorrect' /\ \A c \in Blocks : LookBackSound(c)'
  BY <1>1, <1>3, KeepsPrefix
<1>15. NoStaleDescriptor' /\ OutputCorrect'
  BY <1>3 DEF IInv, NoStaleDescriptor, OutputCorrect
<1> QED
  BY <1>0, <1>8, <1>9, <1>10, <1>11, <1>12, <1>13, <1>14, <1>15 DEF IInv

\* The tiles of a batch that is not the last one.
LEMMA WholeBatch ==
    ASSUME NEW k \in Nat, (k + 1) * TilesPerBatch < NumTiles
    PROVE  /\ {t \in Tiles : Batch(t) = k} = Base(k) .. Base(k) + TilesPerBatch - 1
           /\ Cardinality({t \in Tiles : Batch(t) = k}) = TilesPerBatch
           /\ (k + 1) * TilesPerBatch - 1 \in {t \in Tiles : Batch(t) = k}
           /\ (k + 1) * TilesPerBatch = Base(k) + TilesPerBatch
<1>1. Base(k) \in Nat /\ (k + 1) * TilesPerBatch = Base(k) + TilesPerBatch /\ TilesPerBatch \in Nat \ {0}
  BY BaseType, TilesAssumption DEF Base
<1>2. Base(k) + TilesPerBatch < NumTiles
  BY <1>1
<1> DEFINE last == Base(k) + TilesPerBatch - 1
<1>3. last \in Nat /\ last < NumTiles - 1 /\ last = (k + 1) * TilesPerBatch - 1
  BY <1>1, <1>2, TilesAssumption
<1>4. ASSUME NEW t PROVE t \in {u \in Tiles : Batch(u) = k} <=> t \in Base(k) .. last
  <2>1. t \in Base(k) .. last => t \in Tiles
    BY <1>1, <1>3, TilesAssumption DEF Tiles
  <2>2. t \in Tiles => (Batch(t) = k <=> t \in Base(k) .. last)
    <3>1. t \in Tiles => t \in Nat
      BY DEF Tiles
    <3> QED
      BY <3>1, BatchOrder
  <2> QED
    BY <2>1, <2>2
<1>5. {t \in Tiles : Batch(t) = k} = Base(k) .. last
  BY <1>4
<1>6. Cardinality(Base(k) .. last) = TilesPerBatch
  <2> HIDE DEF last
  <2>1. Base(k) \in Int /\ last \in Int /\ ~(Base(k) > last) /\ last - Base(k) + 1 = TilesPerBatch
    BY <1>1, <1>3 DEF last
  <2> QED
    BY <2>1, FS_Interval
<1>7. last \in Base(k) .. last
  BY <1>1, <1>3
<1> QED
  BY <1>1, <1>3, <1>5, <1>6, <1>7

\* The last tile of a batch none of whose tiles are left has saved the sum.
LEMMA SumLeft ==
    ASSUME IInv, Pending = {}, (batch_idx + 1) * TilesPerBatch < NumTiles
    PROVE  batched_sum = Run(0, (batch_idx + 1) * TilesPerBatch)
<1> DEFINE last == (batch_idx + 1) * TilesPerBatch - 1
<1>1. batch_idx \in Nat /\ next_tile_idx \in Nat
  BY DEF IInv, TypeOK
<1>2. last \in Tiles /\ Batch(last) = batch_idx
  BY <1>1, WholeBatch
<1> HIDE DEF last
<1>3. last \notin Uncounted
  BY <1>2 DEF Pending
<1>4. last \in Nat
  BY <1>2 DEF Tiles
<1>5. last < next_tile_idx /\ \A c \in Blocks : tile_idx[c] = last => ~Counting(c)
  BY <1>1, <1>2, <1>3, <1>4 DEF Uncounted
<1>6. LastSaved
  BY <1>5 DEF LastSaved, last, Counting, Prefixed
<1> QED
  BY <1>6 DEF IInv, SumCarried

LEMMA AdvanceBatchStep ==
    ASSUME IInv, NEW b \in Blocks, AdvanceBatch(b)
    PROVE  IInv'
<1> DEFINE k == batch_idx
<1>0. TypeOK /\ TypeOK' /\ InBatch
  BY CompletionTypes DEF IInv
<1>1. Resetting(b) /\ pc[b] = "advance"
  BY DEF AdvanceBatch, Resetting
<1>2. /\ Pending = {} /\ ~Counting(b) /\ Claimed(b) /\ k \in Nat
      /\ \A c \in Blocks : c # b => pc[c] \in {"claim", "wait_batch", "store", "exit"}
      /\ \A c \in Blocks : c # b => ~Resetting(c) /\ ~Looking(c) /\ ~Prefixed(c)
      /\ Batch(tile_idx[b]) = k /\ (k + 1) * TilesPerBatch < NumTiles
  BY <1>1, OnlyOneResets
<1>3. /\ UNCHANGED <<d_tile_descriptors, next_tile_idx, lookbacks_completed, batched_sum, tile_idx,
                     current_batch_idx, predecessor_idx, loaded, seen, exclusive_prefix, unreset, d_out>>
      /\ batch_idx' = k + 1 /\ Goto(b, "store")
  BY <1>2 DEF AdvanceBatch, claim, warp
<1>4. pc'[b] = "store" /\ \A c \in Blocks : c # b => pc'[c] = pc[c]
  BY <1>0, <1>3, Moved
<1>5. \A c \in Blocks : ~Looking(c)' /\ ~Prefixed(c)' /\ ~Resetting(c)' /\ ~Active(c)'
  BY <1>2, <1>4 DEF Looking, Prefixed, Resetting, Active
<1>6. ~Counting(b)' /\ Claimed(b)' /\ \A c \in Blocks : c # b => Claimed(c)' = Claimed(c)
  BY <1>4 DEF Counting, Waiting, Looking, Prefixed, Resetting, Storing, Active, Claimed
<1>7. Uncounted' = Uncounted
  BY <1>2, <1>3, <1>4, <1>6, SameUncounted
<1>8. ClaimsDistinct'
  BY <1>2, <1>3, <1>6 DEF IInv, ClaimsDistinct
<1>9. ASSUME NEW t \in Tiles
      PROVE  /\ t \in Uncounted => Batch(t) >= k + 1
             /\ Batch(t) >= k + 1 => t \in Uncounted
             /\ Batch(t) \in Nat
  <2>1. Batch(t) \in Nat
    BY TileSlot DEF Tiles
  <2>2. t \in Uncounted => Batch(t) >= k /\ Batch(t) # k
    BY <1>0, <1>2 DEF InBatch, Pending
  <2>3. Batch(t) > k => t \in Uncounted
    BY <1>0 DEF InBatch
  <2> QED
    BY <1>2, <2>1, <2>2, <2>3
<1>10. InBatch'
  <2>1. ASSUME NEW c \in Blocks PROVE current_batch_idx'[c] <= k + 1
    BY <1>0, <1>2, <1>3 DEF InBatch, TypeOK
  <2>2. \A c \in Blocks : pc'[c] \notin {"save", "count"}
    BY <1>5 DEF Prefixed
  <2>3. ASSUME NEW t \in Tiles
        PROVE  /\ t \in Uncounted' => Batch(t) >= k + 1
               /\ Batch(t) > k + 1 => t \in Uncounted'
    BY <1>2, <1>7, <1>9
  <2> QED
    BY <1>3, <1>5, <2>1, <2>2, <2>3 DEF InBatch
<1>11. CountsMatch'
  <2> SUFFICES ASSUME (batch_idx' + 1) * TilesPerBatch < NumTiles
               PROVE  lookbacks_completed' + Cardinality(Pending') = TilesPerBatch
    BY <1>5 DEF CountsMatch, Resetting
  <2>1. Pending' = {t \in Tiles : Batch(t) = batch_idx'}
    <3>1. \A t \in Tiles : Batch(t) = k + 1 => t \in Uncounted
      BY <1>2, <1>9
    <3>2. Uncounted \subseteq Tiles
      BY DEF Uncounted
    <3> QED
      BY <1>3, <1>7, <3>1, <3>2 DEF Pending
  <2>2. batch_idx' \in Nat
    BY <1>2, <1>3
  <2>3. PICK j \in Nat : j = batch_idx'
    BY <2>2
  <2>4. Cardinality(Pending') = TilesPerBatch
    BY <2>1, <2>3, WholeBatch
  <2>5. lookbacks_completed' = 0
    BY <1>1, <1>3 DEF IInv, CountsMatch
  <2> QED
    BY <2>4, <2>5, TilesAssumption
<1>12. ResetAlone' /\ ResetClean'
  BY <1>5 DEF ResetAlone, ResetClean, Resetting
<1>13. \A i \in Slots : d_tile_descriptors'[i].status = SCAN_TILE_INVALID
  BY <1>1, <1>3 DEF IInv, ResetClean
<1>14. NoStaleDescriptor'
  BY <1>13 DEF NoStaleDescriptor, SoundSlot
<1>15. \A c \in Blocks : loaded'[c] = {}
  <2>1. \A c \in Blocks : ~Looking(c)
    BY <1>1, <1>2 DEF Looking
  <2> QED
    BY <1>3, <2>1 DEF IInv, LookBackSound
<1>16. ASSUME NEW c \in Blocks PROVE LookBackSound(c)'
  <2>1. Waiting(c)' => Waiting(c)
    BY <1>4 DEF Waiting
  <2>2. pc'[c] # "scan" /\ pc'[c] # "lookback"
    BY <1>5 DEF Looking
  <2>3. Waiting(c) => predecessor_idx[c] = Slot(tile_idx[c]) - 1
    BY DEF IInv, LookBackSound
  <2> QED
    BY <1>3, <1>5, <1>15, <2>1, <2>2, <2>3 DEF LookBackSound
<1>17. PrefixCorrect'
  <2>1. \A c \in Blocks : Storing(c)' => Resetting(c) \/ Storing(c)
    BY <1>1, <1>4 DEF Storing
  <2> QED
    BY <1>3, <1>5, <2>1 DEF IInv, PrefixCorrect
<1>18. SumCarried'
  <2>1. batched_sum' = Run(0, batch_idx' * TilesPerBatch)
    BY <1>2, <1>3, SumLeft
  <2>2. ASSUME (batch_idx' + 1) * TilesPerBatch < NumTiles, LastSaved'
        PROVE  FALSE
    <3>1. PICK j \in Nat : j = k + 1
      BY <1>2
    <3> DEFINE last == (j + 1) * TilesPerBatch - 1
    <3>2. last \in Tiles /\ Batch(last) = j
      BY <1>3, <2>2, <3>1, WholeBatch
    <3>3. /\ last < next_tile_idx
          /\ \A c \in Blocks : tile_idx[c] = last => ~Waiting(c)'
      BY <1>3, <2>2, <3>1 DEF LastSaved
    <3> HIDE DEF last
    <3>4. last \in Uncounted
      BY <1>2, <1>9, <3>1, <3>2
    <3>5. ~(last >= next_tile_idx)
      BY <1>0, <3>2, <3>3 DEF TypeOK, Tiles
    <3>6. PICK c \in Blocks : tile_idx[c] = last /\ Counting(c)
      BY <3>4, <3>5 DEF Uncounted
    <3>7. Waiting(c) /\ c # b
      BY <1>2, <3>6 DEF Counting
    <3> QED
      BY <1>4, <3>3, <3>6, <3>7 DEF Waiting
  <2> QED
    BY <1>5, <1>13, <1>15, <2>1, <2>2 DEF SumCarried, SCAN_TILE_INVALID, SCAN_TILE_INCLUSIVE
<1>19. OutputCorrect'
  BY <1>3 DEF IInv, OutputCorrect
<1> QED
  BY <1>0, <1>8, <1>10, <1>11, <1>12, <1>14, <1>16, <1>17, <1>18, <1>19 DEF IInv

LEMMA StoreStep ==
    ASSUME IInv, NEW b \in Blocks, Store(b)
    PROVE  IInv'
<1>0. TypeOK /\ TypeOK'
  BY StoreTypes DEF IInv
<1>1. Storing(b) /\ ~Counting(b) /\ Claimed(b)
  BY DEF Store, Storing, Counting, Waiting, Looking, Prefixed, Claimed
<1>2. /\ UNCHANGED <<d_tile_descriptors, batch_idx, next_tile_idx, lookbacks_completed, batched_sum, tile_idx,
                     current_batch_idx, predecessor_idx, loaded, seen, exclusive_prefix, unreset>>
      /\ d_out' = [d_out EXCEPT ![tile_idx[b]] = exclusive_prefix[b]] /\ Goto(b, "claim")
  BY DEF Store, batch_state, claim, warp
<1>3. pc'[b] = "claim" /\ \A c \in Blocks : c # b => pc'[c] = pc[c]
  BY <1>0, <1>2, Moved
<1>4. ~Counting(b)' /\ ~Claimed(b)' /\ ~Active(b)' /\ ~Resetting(b)'
  BY <1>3 DEF Counting, Claimed, Active, Waiting, Looking, Prefixed, Resetting, Storing
<1>5. \A c \in Blocks : c # b => (Claimed(c)' = Claimed(c)) /\ (Active(c)' = Active(c))
  BY <1>3 DEF Claimed, Active, Waiting, Looking, Prefixed, Resetting, Storing
<1>6. \A c \in Blocks : /\ Resetting(c)' = Resetting(c) /\ Prefixed(c)' = Prefixed(c)
                        /\ Looking(c)' = Looking(c) /\ Waiting(c)' = Waiting(c)
  BY <1>1, <1>3 DEF Resetting, Prefixed, Looking, Waiting, Storing
<1>7. Uncounted' = Uncounted /\ Pending' = Pending
  <2>1. Uncounted' = Uncounted
    BY <1>1, <1>2, <1>3, <1>4, SameUncounted
  <2> QED
    BY <1>2, <2>1 DEF Pending
<1>8. ClaimsDistinct'
  BY <1>2, <1>4, <1>5 DEF IInv, ClaimsDistinct
<1>9. InBatch'
  <2>1. ASSUME NEW c \in Blocks
        PROVE  /\ current_batch_idx'[c] <= batch_idx'
               /\ Active(c)' => Batch(tile_idx'[c]) = batch_idx'
               /\ pc'[c] \in {"save", "count"} \/ Resetting(c)' => ~FinalBatch(tile_idx'[c])
    BY <1>2, <1>3, <1>4, <1>5, <1>6 DEF IInv, InBatch
  <2> QED
    BY <1>2, <1>7, <2>1 DEF IInv, InBatch
<1>10. CountsMatch'
  <2>1. \A c \in Blocks : pc'[c] = "advance" => pc[c] = "advance"
    BY <1>3
  <2> QED
    BY <1>2, <1>6, <1>7, <2>1 DEF IInv, CountsMatch
<1>11. ResetAlone' /\ ResetClean'
  <2>1. ResetAlone'
    BY <1>3 DEF IInv, ResetAlone
  <2>2. \A c \in Blocks : pc'[c] = "advance" => pc[c] = "advance"
    BY <1>3
  <2> QED
    BY <1>2, <1>6, <2>1, <2>2 DEF IInv, ResetClean
<1>12. NoStaleDescriptor'
  BY <1>2 DEF IInv, NoStaleDescriptor
<1>13. ASSUME NEW c \in Blocks PROVE LookBackSound(c)'
  <2>1. LookBackSound(c) /\ (pc'[c] = "scan" <=> pc[c] = "scan") /\ (pc'[c] = "lookback" <=> pc[c] = "lookback")
    BY <1>1, <1>3 DEF IInv, Storing
  <2> QED
    BY <1>2, <1>6, <2>1 DEF LookBackSound, SoundLoad
<1>14. PrefixCorrect'
  BY <1>2, <1>3 DEF IInv, PrefixCorrect, Prefixed, Resetting, Storing
<1>15. SumCarried'
  <2>1. (FirstUnread' => FirstUnread) /\ (LastSaved' => LastSaved)
    BY <1>1, <1>2, <1>3 DEF FirstUnread, LastSaved, Waiting, Looking, Storing
  <2> QED
    BY <1>2, <1>6, <2>1 DEF IInv, SumCarried
<1>16. OutputCorrect'
  <2>1. exclusive_prefix[b] = Run(0, tile_idx[b])
    BY <1>1 DEF IInv, PrefixCorrect
  <2>2. \A t \in Tiles : d_out'[t] = d_out[t] \/ d_out'[t] = Run(0, t)
    BY <1>0, <1>2, <2>1 DEF TypeOK
  <2> QED
    BY <2>2 DEF IInv, OutputCorrect
<1> QED
  BY <1>0, <1>8, <1>9, <1>10, <1>11, <1>12, <1>13, <1>14, <1>15, <1>16 DEF IInv

LEMMA ClaimStep ==
    ASSUME IInv, NEW b \in Blocks, Claim(b)
    PROVE  IInv'
<1> DEFINE t == next_tile_idx
<1>0. TypeOK /\ TypeOK' /\ t \in Nat /\ batch_idx \in Nat
  BY ClaimTypes DEF IInv, TypeOK
<1>1. ~Counting(b) /\ ~Claimed(b) /\ ~Active(b) /\ ~Looking(b) /\ ~Waiting(b) /\ ~Resetting(b) /\ pc[b] = "claim"
  BY DEF Claim, Storing, Counting, Waiting, Looking, Prefixed, Resetting, Active, Claimed
<1>2. PICK m \in {"exit", "wait_batch", "scan"} :
        /\ Goto(b, m)
        /\ m = "exit" <=> t >= NumTiles
        /\ m = "scan" => t < NumTiles /\ Batch(t) = current_batch_idx[b]
  BY <1>0, TilesAssumption DEF Claim
<1>3. /\ UNCHANGED <<d_tile_descriptors, batch_idx, lookbacks_completed, batched_sum, current_batch_idx,
                     loaded, seen, unreset, d_out>>
      /\ next_tile_idx' = t + 1
      /\ tile_idx'[b] = t /\ predecessor_idx'[b] = Slot(t) - 1
      /\ \A c \in Blocks : c # b => /\ tile_idx'[c] = tile_idx[c] /\ predecessor_idx'[c] = predecessor_idx[c]
                                    /\ exclusive_prefix'[c] = exclusive_prefix[c]
  BY <1>0 DEF Claim, TypeOK
<1>4. pc'[b] = m /\ \A c \in Blocks : c # b => pc'[c] = pc[c]
  BY <1>0, <1>2, Moved
<1>5. /\ \A c \in Blocks : c # b => /\ Claimed(c)' = Claimed(c) /\ Active(c)' = Active(c)
                                    /\ Counting(c)' = Counting(c)
      /\ \A c \in Blocks : Resetting(c)' = Resetting(c) /\ Prefixed(c)' = Prefixed(c)
  BY <1>1, <1>4 DEF Claimed, Active, Counting, Waiting, Looking, Prefixed, Resetting, Storing
<1>6. /\ Counting(b)' <=> t < NumTiles
      /\ Claimed(b)' <=> t < NumTiles
      /\ Active(b)' <=> m = "scan"
  <2>1. m # "exit" <=> t < NumTiles
    BY <1>0, <1>2, TilesAssumption
  <2> QED
    BY <1>4, <2>1 DEF Claimed, Active, Counting, Waiting, Looking, Prefixed, Resetting, Storing
<1>7. Uncounted' = Uncounted /\ Pending' = Pending
  <2>1. ASSUME NEW u \in Tiles
        PROVE  /\ u >= t <=> u >= t + 1 \/ u = t
               /\ u = t => t < NumTiles
    BY <1>0, TilesAssumption DEF Tiles
  <2>2. ASSUME NEW u \in Tiles
        PROVE  (\E c \in Blocks : tile_idx'[c] = u /\ Counting(c)') <=>
                 u = t \/ (\E c \in Blocks : tile_idx[c] = u /\ Counting(c))
    BY <1>1, <1>3, <1>5, <1>6, <2>1
  <2>3. Uncounted' = Uncounted
    BY <1>3, <2>1, <2>2 DEF Uncounted
  <2> QED
    BY <1>3, <2>3 DEF Pending
<1>8. m = "scan" => Batch(t) = batch_idx /\ \A c \in Blocks : ~Resetting(c)
  <2> SUFFICES ASSUME m = "scan" PROVE Batch(t) = batch_idx /\ \A c \in Blocks : ~Resetting(c)
    OBVIOUS
  <2>1. t \in Tiles
    BY <1>0, <1>2, TilesAssumption DEF Tiles
  <2>2. t \in Uncounted
    BY <1>0, <2>1 DEF Uncounted
  <2>3. Batch(t) >= batch_idx /\ Batch(t) <= batch_idx
    BY <1>2, <2>1, <2>2 DEF IInv, InBatch
  <2>4. Batch(t) = batch_idx
    BY <1>0, <2>3, TileSlot
  <2>5. t \in Pending
    BY <2>2, <2>4 DEF Pending
  <2> QED
    BY <2>4, <2>5 DEF IInv, CountsMatch
<1>9. ClaimsDistinct'
  <2>1. ASSUME NEW c \in Blocks, c # b, Claimed(c)'
        PROVE  /\ tile_idx'[c] < next_tile_idx' /\ tile_idx'[c] < NumTiles /\ tile_idx'[c] # t
               /\ \A d \in Blocks : d # b /\ Claimed(d)' /\ tile_idx'[d] = tile_idx'[c] => d = c
    <3>1. Claimed(c) /\ tile_idx[c] < t /\ tile_idx[c] < NumTiles /\ tile_idx[c] \in Nat
      BY <1>0, <1>5, <2>1 DEF IInv, ClaimsDistinct, TypeOK
    <3>2. \A d \in Blocks : Claimed(d) /\ tile_idx[d] = tile_idx[c] => d = c
      BY <3>1 DEF IInv, ClaimsDistinct
    <3> QED
      BY <1>0, <1>3, <1>5, <2>1, <3>1, <3>2
  <2>2. Claimed(b)' => tile_idx'[b] < next_tile_idx' /\ tile_idx'[b] < NumTiles
    BY <1>0, <1>3, <1>6
  <2> QED
    BY <1>3, <2>1, <2>2 DEF ClaimsDistinct
<1>10. InBatch'
  <2>1. ASSUME NEW c \in Blocks
        PROVE  /\ current_batch_idx'[c] <= batch_idx'
               /\ Active(c)' => Batch(tile_idx'[c]) = batch_idx'
               /\ pc'[c] \in {"save", "count"} \/ Resetting(c)' => ~FinalBatch(tile_idx'[c])
    <3>1. CASE c = b
      <4>1. pc'[c] \notin {"save", "count"} /\ ~Resetting(c)'
        BY <1>1, <1>4, <1>5, <3>1
      <4> QED
        BY <1>3, <1>6, <1>8, <3>1, <4>1 DEF IInv, InBatch
    <3>2. CASE c # b
      BY <1>3, <1>4, <1>5, <3>2 DEF IInv, InBatch
    <3> QED
      BY <3>1, <3>2
  <2> QED
    BY <1>3, <1>7, <2>1 DEF IInv, InBatch
<1>11. \A c \in Blocks : pc'[c] = "advance" <=> pc[c] = "advance"
  BY <1>1, <1>4
<1>12. CountsMatch' /\ ResetClean'
  <2>1. CountsMatch'
    BY <1>3, <1>5, <1>7, <1>11 DEF IInv, CountsMatch
  <2> QED
    BY <1>3, <1>5, <1>11, <2>1 DEF IInv, ResetClean
<1>13. ResetAlone'
  <2> SUFFICES ASSUME NEW c \in Blocks, NEW d \in Blocks, Resetting(c)', d # c
               PROVE  pc'[d] \in {"claim", "wait_batch", "store", "exit"}
    BY DEF ResetAlone, Resetting
  <2>1. Resetting(c)
    BY <1>5
  <2>2. d = b => m # "scan"
    BY <1>8, <2>1
  <2>3. d # b => pc[d] \in {"claim", "wait_batch", "store", "exit"}
    BY <2>1 DEF IInv, ResetAlone, Resetting
  <2> QED
    BY <1>4, <2>2, <2>3
<1>14. NoStaleDescriptor' /\ OutputCorrect'
  BY <1>3 DEF IInv, NoStaleDescriptor, OutputCorrect
<1>15. ASSUME NEW c \in Blocks PROVE LookBackSound(c)'
  <2>1. CASE c # b
    BY <1>3, <1>4, <2>1, OthersLookBack
  <2>2. CASE c = b
    <3>1. loaded'[b] = {}
      BY <1>1, <1>3 DEF IInv, LookBackSound
    <3>2. Slot(t) \in Nat
      BY <1>0, TileSlot
    <3>3. Slot(t) > 0 => Slot(t) - 1 \in 0 .. Slot(t) - 1
      BY <3>2
    <3> QED
      BY <1>3, <1>4, <2>2, <3>1, <3>3 DEF LookBackSound
  <2> QED
    BY <2>1, <2>2
<1>16. PrefixCorrect'
  <2> SUFFICES ASSUME NEW c \in Blocks, Prefixed(c)' \/ Resetting(c)' \/ Storing(c)'
               PROVE  exclusive_prefix'[c] = Run(0, tile_idx'[c])
    BY DEF PrefixCorrect
  <2>1. c # b /\ (Prefixed(c) \/ Resetting(c) \/ Storing(c))
    BY <1>4 DEF Prefixed, Resetting, Storing
  <2> QED
    BY <1>3, <2>1 DEF IInv, PrefixCorrect
<1>17. SumCarried'
  <2>1. FirstUnread' => FirstUnread
    <3>1. batch_idx * TilesPerBatch \in Nat
      BY <1>0, TilesAssumption
    <3>2. batch_idx' * TilesPerBatch >= next_tile_idx' => batch_idx * TilesPerBatch >= t
      BY <1>0, <1>3, <3>1
    <3>3. ASSUME NEW c \in Blocks, tile_idx'[c] = batch_idx' * TilesPerBatch, Waiting(c)' \/ pc'[c] = "scan"
          PROVE  FirstUnread
      <4>1. CASE c = b
        BY <1>0, <1>3, <3>1, <3>3, <4>1 DEF FirstUnread
      <4>2. CASE c # b
        BY <1>3, <1>4, <3>3, <4>2 DEF FirstUnread, Waiting
      <4> QED
        BY <4>1, <4>2
    <3> QED
      BY <3>2, <3>3 DEF FirstUnread
  <2>2. ASSUME (batch_idx' + 1) * TilesPerBatch < NumTiles, LastSaved'
        PROVE  LastSaved
    <3> DEFINE last == (batch_idx + 1) * TilesPerBatch - 1
    <3>1. last \in Int /\ last < NumTiles
      <4>1. (batch_idx + 1) * TilesPerBatch \in Int
        BY <1>0, TilesAssumption
      <4> QED
        BY <1>3, <2>2, <4>1, TilesAssumption
    <3>2. last < t + 1 /\ (t = last => ~(m = "wait_batch" \/ m = "scan"))
      BY <1>3, <1>4, <2>2 DEF LastSaved, Waiting, Looking
    <3> HIDE DEF last
    <3>3. last # t
      BY <1>0, <1>2, <3>1, <3>2, TilesAssumption
    <3>4. last < t
      BY <1>0, <3>1, <3>2, <3>3
    <3>5. ASSUME NEW c \in Blocks, tile_idx[c] = last
          PROVE  ~(Waiting(c) \/ Looking(c) \/ pc[c] \in {"first", "publish", "save"})
      <4>1. CASE c = b
        BY <1>1, <4>1
      <4>2. CASE c # b
        BY <1>3, <1>4, <2>2, <3>5, <4>2 DEF LastSaved, last, Waiting, Looking
      <4> QED
        BY <4>1, <4>2
    <3> QED
      BY <3>4, <3>5 DEF LastSaved, last
  <2> QED
    BY <1>3, <1>5, <2>1, <2>2 DEF IInv, SumCarried
<1> QED
  BY <1>0, <1>9, <1>10, <1>12, <1>13, <1>14, <1>15, <1>16, <1>17 DEF IInv

-----------------------------------------------------------------------------
(* The invariant, and what it is for.                                      *)

LEMMA InitTypes == Init => TypeOK
<1> SUFFICES ASSUME Init PROVE TypeOK
  OBVIOUS
<1>1. Garbage \in Value /\ Unwritten \in Value
  BY ValueTypes DEF Unwritten
<1>2. d_tile_descriptors \in [Slots -> TileDescriptor]
  BY <1>1, DescriptorType DEF Init, InitializeStatus
<1>3. seen \in [Blocks -> [Lanes -> TileDescriptor]]
  BY NoLoadsType DEF Init
<1>4. d_out \in [Tiles -> Value] /\ exclusive_prefix \in [Blocks -> Value] /\ batched_sum \in Value
  BY <1>1 DEF Init
<1>5. predecessor_idx \in [Blocks -> Int] /\ loaded \in [Blocks -> SUBSET Lanes]
      /\ unreset \in [Blocks -> SUBSET Slots]
  BY DEF Init
<1> QED
  BY <1>2, <1>3, <1>4, <1>5 DEF Init, TypeOK

LEMMA InitIInv == Init => IInv
<1> SUFFICES ASSUME Init PROVE IInv
  OBVIOUS
<1>1. TypeOK
  BY InitTypes
<1>2. /\ batch_idx = 0 /\ next_tile_idx = 0 /\ lookbacks_completed = 0
      /\ \A b \in Blocks : pc[b] = "claim" /\ loaded[b] = {} /\ current_batch_idx[b] = 0
      /\ \A i \in Slots : d_tile_descriptors[i].status = SCAN_TILE_INVALID
      /\ \A t \in Tiles : d_out[t] = Unwritten
  BY DEF Init, InitializeStatus, Descriptor
<1>3. \A b \in Blocks : /\ ~Claimed(b) /\ ~Active(b) /\ ~Counting(b) /\ ~Looking(b) /\ ~Waiting(b)
                        /\ ~Prefixed(b) /\ ~Resetting(b) /\ ~Storing(b)
  BY <1>2 DEF Claimed, Active, Counting, Looking, Waiting, Prefixed, Resetting, Storing
<1>4. Uncounted = Tiles
  <2>1. \A t \in Tiles : t >= 0
    BY DEF Tiles
  <2> QED
    BY <1>2, <2>1 DEF Uncounted
<1>5. ClaimsDistinct /\ ResetAlone /\ ResetClean /\ PrefixCorrect
  BY <1>3 DEF ClaimsDistinct, ResetAlone, ResetClean, PrefixCorrect, Resetting
<1>6. InBatch
  <2>1. \A t \in Tiles : Batch(t) >= 0
    BY TileSlot DEF Tiles
  <2>2. \A b \in Blocks : pc[b] \notin {"save", "count"} /\ current_batch_idx[b] <= batch_idx
    BY <1>2
  <2> QED
    BY <1>2, <1>3, <1>4, <2>1, <2>2 DEF InBatch
<1>7. CountsMatch
  <2> SUFFICES ASSUME (batch_idx + 1) * TilesPerBatch < NumTiles
               PROVE  lookbacks_completed + Cardinality(Pending) = TilesPerBatch
    BY <1>2, <1>3 DEF CountsMatch
  <2>1. Pending = {t \in Tiles : Batch(t) = batch_idx} /\ batch_idx \in Nat
    BY <1>2, <1>4 DEF Pending
  <2>2. Cardinality(Pending) = TilesPerBatch
    BY <2>1, WholeBatch
  <2> QED
    BY <1>2, <2>2, TilesAssumption
<1>8. NoStaleDescriptor
  BY <1>2 DEF NoStaleDescriptor, SoundSlot
<1>9. \A b \in Blocks : LookBackSound(b)
  BY <1>2, <1>3 DEF LookBackSound
<1>10. SumCarried
  <2>1. ~LastSaved
    <3>1. (0 + 1) * TilesPerBatch - 1 >= 0 /\ (0 + 1) * TilesPerBatch - 1 \in Int
      BY TilesAssumption
    <3> QED
      BY <1>2, <3>1 DEF LastSaved
  <2> QED
    BY <1>2, <1>3, <2>1 DEF SumCarried, SCAN_TILE_INVALID, SCAN_TILE_INCLUSIVE
<1>11. OutputCorrect
  BY <1>2 DEF OutputCorrect
<1> QED
  BY <1>1, <1>5, <1>6, <1>7, <1>8, <1>9, <1>10, <1>11 DEF IInv

LEMMA StutterIInv == IInv /\ UNCHANGED vars => IInv'
<1> SUFFICES ASSUME IInv, UNCHANGED vars PROVE IInv'
  OBVIOUS
<1>0. UNCHANGED <<d_tile_descriptors, batch_idx, next_tile_idx, lookbacks_completed, batched_sum, pc, tile_idx,
                  current_batch_idx, predecessor_idx, loaded, seen, exclusive_prefix, unreset, d_out>>
  BY DEF vars
<1>1. /\ \A b \in Blocks : /\ Waiting(b)' = Waiting(b) /\ Looking(b)' = Looking(b) /\ Prefixed(b)' = Prefixed(b)
                           /\ Resetting(b)' = Resetting(b) /\ Storing(b)' = Storing(b)
                           /\ Active(b)' = Active(b) /\ Claimed(b)' = Claimed(b) /\ Counting(b)' = Counting(b)
  BY <1>0 DEF Waiting, Looking, Prefixed, Resetting, Storing, Active, Claimed, Counting
<1>2. Uncounted' = Uncounted /\ Pending' = Pending
  BY <1>0, <1>1 DEF Uncounted, Pending
<1>3. TypeOK'
  BY <1>0 DEF IInv, TypeOK
<1>4. ClaimsDistinct' /\ InBatch'
  BY <1>0, <1>1, <1>2 DEF IInv, ClaimsDistinct, InBatch
<1>5. CountsMatch'
  BY <1>0, <1>1, <1>2 DEF IInv, CountsMatch
<1>6. ResetAlone' /\ ResetClean'
  BY <1>0, <1>1 DEF IInv, ResetAlone, ResetClean
<1>7. NoStaleDescriptor' /\ PrefixCorrect' /\ OutputCorrect'
  BY <1>0, <1>1 DEF IInv, NoStaleDescriptor, PrefixCorrect, OutputCorrect
<1>8. \A c \in Blocks : LookBackSound(c)'
  BY <1>0, OthersLookBack
<1>9. SumCarried'
  <2>1. (FirstUnread' <=> FirstUnread) /\ (LastSaved' <=> LastSaved)
    BY <1>0, <1>1 DEF FirstUnread, LastSaved
  <2> QED
    BY <1>0, <1>1, <2>1 DEF IInv, SumCarried
<1> QED
  BY <1>3, <1>4, <1>5, <1>6, <1>7, <1>8, <1>9 DEF IInv

LEMMA NextIInv == IInv /\ [Next]_vars => IInv'
<1> SUFFICES ASSUME IInv, [Next]_vars PROVE IInv'
  OBVIOUS
<1>1. CASE UNCHANGED vars
  BY <1>1, StutterIInv
<1>2. CASE Terminated
  BY <1>2, StutterIInv DEF Terminated
<1>3. ASSUME NEW b \in Blocks, Block(b) PROVE IInv'
  <2>1. CASE Claim(b)
    BY <2>1, ClaimStep
  <2>2. CASE EnterBatch(b)
    BY <2>2, EnterBatchStep
  <2>3. CASE Spin(b)
    BY <2>3, StutterIInv DEF Spin
  <2>4. CASE ScanFirst(b)
    BY <2>4, ScanFirstStep
  <2>5. CASE PublishPartial(b)
    BY <2>5, PublishPartialStep
  <2>6. ASSUME NEW l \in Lanes, LoadLane(b, l) PROVE IInv'
    BY <2>6, LoadStep
  <2>7. CASE Retry(b)
    BY <2>7, RetryStep
  <2>8. CASE ProcessWindow(b)
    BY <2>8, WindowStep
  <2>9. CASE PublishInclusive(b)
    BY <2>9, PublishInclusiveStep
  <2>10. CASE SaveSum(b)
    BY <2>10, SaveSumStep
  <2>11. CASE CountLookBack(b)
    BY <2>11, CountLookBackStep
  <2>12. ASSUME NEW i \in Slots, Reset(b, i) PROVE IInv'
    BY <2>12, ResetStep
  <2>13. CASE ClearCount(b)
    BY <2>13, ClearCountStep
  <2>14. CASE AdvanceBatch(b)
    BY <2>14, AdvanceBatchStep
  <2>15. CASE Store(b)
    BY <2>15, StoreStep
  <2> QED
    BY <1>3, <2>1, <2>2, <2>3, <2>4, <2>5, <2>6, <2>7, <2>8, <2>9, <2>10, <2>11, <2>12, <2>13, <2>14, <2>15
       DEF Block
<1> QED
  BY <1>1, <1>2, <1>3 DEF Next

\* The parts of IInv hold in every reachable state of DeviceScanBatchKernel,
\* for any number of tiles, descriptors and thread blocks and any warp width.
THEOREM BatchScanInvariant == Spec => []IInv
<1>1. Init => IInv
  BY InitIInv
<1>2. IInv /\ [Next]_vars => IInv'
  BY NextIInv
<1> QED
  BY <1>1, <1>2, PTL DEF Spec

\* Every tile that is stored was scanned from the reduction of exactly the
\* tiles before it, across any number of batches.
THEOREM BatchScanOutput == Spec => []OutputCorrect
<1>1. IInv => OutputCorrect
  BY DEF IInv
<1> QED
  BY <1>1, BatchScanInvariant, PTL

\* What a descriptor says is about the batch that batch_idx announces: nothing
\* survives a reset, and nobody publishes into another batch.
THEOREM BatchScanNoStale == Spec => []NoStaleDescriptor
<1>1. IInv => NoStaleDescriptor
  BY DEF IInv
<1> QED
  BY <1>1, BatchScanInvariant, PTL

\* A block that resets the descriptors is alone with them, whichever block
\* completed the last look-back of the batch.
THEOREM BatchScanResetAlone == Spec => []ResetAlone
<1>1. IInv => ResetAlone
  BY DEF IInv
<1> QED
  BY <1>1, BatchScanInvariant, PTL
=============================================================================
