----------------------------- MODULE BatchScan ------------------------------
(***************************************************************************)
(* DeviceScanBatchKernel: a scan of more tiles than there are descriptors. *)
(* Persistent thread blocks claim the tiles one after the other; the tiles *)
(* of a batch look back at each other only, through TilesPerBatch          *)
(* descriptors that the batches use in turn.  The block that completes the *)
(* last look-back of a batch resets the descriptors and publishes the next *)
(* batch, and the blocks that have claimed its tiles wait for that.        *)
(*                                                                         *)
(* The look-back is the one of LookBack, over batch-local indices.         *)
(***************************************************************************)
EXTENDS ScanTileState, FiniteSets

CONSTANTS
    Blocks,         \* thread blocks of the grid
    NumTiles,       \* tiles of the problem
    TilesPerBatch   \* descriptors, and tiles of a batch

ASSUME BlocksAssumption == IsFiniteSet(Blocks) /\ Blocks # {}
ASSUME TilesAssumption == NumTiles \in Nat /\ TilesPerBatch \in Nat \ {0}

VARIABLES
    batch_idx, next_tile_idx, lookbacks_completed, batched_sum, \* scan_batch_state
    pc,                                     \* where each block is
    tile_idx, current_batch_idx,            \* the tile it has claimed
    predecessor_idx, loaded, seen,          \* its look-back, as in LookBack
    exclusive_prefix,
    unreset,                                \* descriptors it has yet to reset
    d_out                                   \* the prefix each tile was stored with

batch_state == <<batch_idx, next_tile_idx, lookbacks_completed, batched_sum>>
claim == <<tile_idx, current_batch_idx>>
warp == <<predecessor_idx, loaded, seen>>
vars == <<d_tile_descriptors, batch_idx, next_tile_idx, lookbacks_completed, batched_sum, pc, tile_idx,
          current_batch_idx, predecessor_idx, loaded, seen, exclusive_prefix, unreset, d_out>>

Tiles == 0 .. NumTiles - 1
Slots == 0 .. TilesPerBatch - 1

\* The output of a tile before it is stored.
Unwritten == Run(-2, -2)

Batch(t) == t \div TilesPerBatch
Slot(t) == t % TilesPerBatch

\* The tiles of the batch of tile t; the last batch may be short.
BatchTiles(t) ==
    LET left == NumTiles - Batch(t) * TilesPerBatch
    IN  IF left < TilesPerBatch THEN left ELSE TilesPerBatch

FinalBatch(t) == (Batch(t) + 1) * TilesPerBatch >= NumTiles

\* A warp that has loaded nothing yet.  What it loads is local to a window, as
\* the prefix is to a tile.
NoLoads == [l \in Lanes |-> Descriptor(SCAN_TILE_OOB, Garbage)]

\* DeviceScanBatchInitKernel.  batched_sum is not initialized.
Init ==
    /\ InitializeStatus(Slots)
    /\ batch_idx = 0 /\ next_tile_idx = 0 /\ lookbacks_completed = 0 /\ batched_sum = Garbage
    /\ pc = [b \in Blocks |-> "claim"]
    /\ tile_idx = [b \in Blocks |-> 0]
    /\ current_batch_idx = [b \in Blocks |-> 0]
    /\ predecessor_idx = [b \in Blocks |-> -1]
    /\ loaded = [b \in Blocks |-> {}]
    /\ seen = [b \in Blocks |-> NoLoads]
    /\ exclusive_prefix = [b \in Blocks |-> Garbage]
    /\ unreset = [b \in Blocks |-> {}]
    /\ d_out = [t \in Tiles |-> Unwritten]

Goto(b, l) == pc' = [pc EXCEPT ![b] = l]

-----------------------------------------------------------------------------
(* claim_batch_tile.                                                       *)

Claim(b) ==
    LET t == next_tile_idx IN
    /\ pc[b] = "claim"
    /\ next_tile_idx' = t + 1
    /\ tile_idx' = [tile_idx EXCEPT ![b] = t]
    /\ predecessor_idx' = [predecessor_idx EXCEPT ![b] = Slot(t) - 1]
    /\ exclusive_prefix' = [exclusive_prefix EXCEPT ![b] = Garbage]
    /\ Goto(b, IF t >= NumTiles THEN "exit"
               ELSE IF Batch(t) # current_batch_idx[b] THEN "wait_batch"
               ELSE "scan")
    /\ UNCHANGED <<d_tile_descriptors, batch_idx, lookbacks_completed, batched_sum,
                   current_batch_idx, loaded, seen, unreset, d_out>>

EnterBatch_unchecked(b) ==
    /\ pc[b] = "wait_batch"
    /\ current_batch_idx' = [current_batch_idx EXCEPT ![b] = Batch(tile_idx[b])]
    /\ Goto(b, "scan")
    /\ UNCHANGED <<d_tile_descriptors, batch_state, tile_idx, warp, exclusive_prefix, unreset, d_out>>

\* The claimed tile's batch owns the descriptors.
EnterBatch(b) ==
    /\ pc[b] = "wait_batch"
    /\ batch_idx >= Batch(tile_idx[b])
    /\ current_batch_idx' = [current_batch_idx EXCEPT ![b] = Batch(tile_idx[b])]
    /\ Goto(b, "scan")
    /\ UNCHANGED <<d_tile_descriptors, batch_state, tile_idx, warp, exclusive_prefix, unreset, d_out>>

\* The poll of batch_idx before that.
Spin(b) ==
    /\ pc[b] = "wait_batch"
    /\ batch_idx < Batch(tile_idx[b])
    /\ UNCHANGED vars

-----------------------------------------------------------------------------
(* ConsumeBatchTile.                                                       *)

\* The first tile of a batch continues from the sum of the batches before it.
ScanFirst(b) ==
    /\ pc[b] = "scan"
    /\ Slot(tile_idx[b]) = 0
    /\ exclusive_prefix' =
         [exclusive_prefix EXCEPT ![b] = IF tile_idx[b] = 0 THEN Run(0, 0) ELSE batched_sum]
    /\ Goto(b, "first")
    /\ UNCHANGED <<d_tile_descriptors, batch_state, claim, warp, unreset, d_out>>

TileInclusive(b) == scan_op(exclusive_prefix[b], Run(tile_idx[b], tile_idx[b] + 1))

PublishPartial(b) ==
    /\ pc[b] = "scan"
    /\ Slot(tile_idx[b]) > 0
    /\ SetPartial(Slot(tile_idx[b]), Run(tile_idx[b], tile_idx[b] + 1))
    /\ Goto(b, "lookback")
    /\ UNCHANGED <<batch_state, claim, warp, exclusive_prefix, unreset, d_out>>

LoadLane(b, l) ==
    /\ \/ pc[b] = "lookback"
       \/ pc[b] = "scan" /\ Slot(tile_idx[b]) > 0 /\ l > 0
    /\ l \notin loaded[b]
    /\ seen' = [seen EXCEPT ![b][l] = LoadStatus(predecessor_idx[b] - l)]
    /\ loaded' = [loaded EXCEPT ![b] = @ \union {l}]
    /\ UNCHANGED <<d_tile_descriptors, batch_state, pc, claim, predecessor_idx, exclusive_prefix, unreset, d_out>>

AnyInvalid(b) == \E l \in Lanes : seen[b][l].status = SCAN_TILE_INVALID

Retry(b) ==
    /\ pc[b] = "lookback"
    /\ loaded[b] = Lanes
    /\ AnyInvalid(b)
    /\ loaded' = [loaded EXCEPT ![b] = {}]
    /\ seen' = [seen EXCEPT ![b] = NoLoads]
    /\ UNCHANGED <<d_tile_descriptors, batch_state, pc, claim, predecessor_idx, exclusive_prefix,
                   unreset, d_out>>

TailFlags(b) == {l \in Lanes : seen[b][l].status = SCAN_TILE_INCLUSIVE}

WindowAggregate(b) ==
    TailSegmentedReduce([l \in Lanes |-> seen[b][l].value], TailFlags(b))

ProcessWindow(b) ==
    /\ pc[b] = "lookback"
    /\ loaded[b] = Lanes
    /\ ~AnyInvalid(b)
    /\ exclusive_prefix' = [exclusive_prefix EXCEPT ![b] =
         IF predecessor_idx[b] = Slot(tile_idx[b]) - 1 THEN WindowAggregate(b)
         ELSE scan_op(WindowAggregate(b), @)]
    /\ loaded' = [loaded EXCEPT ![b] = {}]
    /\ seen' = [seen EXCEPT ![b] = NoLoads]
    /\ IF TailFlags(b) # {}
       THEN Goto(b, "publish") /\ UNCHANGED predecessor_idx
       ELSE /\ predecessor_idx' = [predecessor_idx EXCEPT ![b] = @ - WarpThreads]
            /\ UNCHANGED pc
    /\ UNCHANGED <<d_tile_descriptors, batch_state, claim, unreset, d_out>>

\* SetInclusive by the first tile of a batch and at the end of a look-back.
\* A tile of the final batch is not tracked any further.
PublishInclusive(b) ==
    /\ pc[b] \in {"first", "publish"}
    /\ SetInclusive(Slot(tile_idx[b]), TileInclusive(b))
    /\ Goto(b, IF FinalBatch(tile_idx[b]) THEN "store" ELSE "save")
    /\ UNCHANGED <<batch_state, claim, warp, exclusive_prefix, unreset, d_out>>

-----------------------------------------------------------------------------
(* batch_completion_op.                                                    *)

SaveSum_every_tile(b) ==
    /\ pc[b] = "save"
    /\ batched_sum' = TileInclusive(b)
    /\ Goto(b, "count")
    /\ UNCHANGED <<d_tile_descriptors, batch_idx, next_tile_idx, lookbacks_completed, claim, warp,
                   exclusive_prefix, unreset, d_out>>

\* The last tile of the batch saves the batch's prefix.
SaveSum(b) ==
    /\ pc[b] = "save"
    /\ batched_sum' = IF Slot(tile_idx[b]) + 1 = BatchTiles(tile_idx[b]) THEN TileInclusive(b) ELSE batched_sum
    /\ Goto(b, "count")
    /\ UNCHANGED <<d_tile_descriptors, batch_idx, next_tile_idx, lookbacks_completed, claim, warp,
                   exclusive_prefix, unreset, d_out>>

CountLookBack_last_tile(b) ==
    /\ pc[b] = "count"
    /\ lookbacks_completed' = lookbacks_completed + 1
    /\ IF Slot(tile_idx[b]) + 1 = BatchTiles(tile_idx[b])
       THEN Goto(b, "reset") /\ unreset' = [unreset EXCEPT ![b] = Slots]
       ELSE Goto(b, "store") /\ UNCHANGED unreset
    /\ UNCHANGED <<d_tile_descriptors, batch_idx, next_tile_idx, batched_sum, claim, warp,
                   exclusive_prefix, d_out>>

\* Whoever completes the last look-back of the batch, in whatever order, is
\* the one to reset it.
CountLookBack(b) ==
    /\ pc[b] = "count"
    /\ lookbacks_completed' = lookbacks_completed + 1
    /\ IF lookbacks_completed' = BatchTiles(tile_idx[b])
       THEN Goto(b, "reset") /\ unreset' = [unreset EXCEPT ![b] = Slots]
       ELSE Goto(b, "store") /\ UNCHANGED unreset
    /\ UNCHANGED <<d_tile_descriptors, batch_idx, next_tile_idx, batched_sum, claim, warp,
                   exclusive_prefix, d_out>>

\* __set_invalid: the threads of the block reset a descriptor each.
Reset(b, i) ==
    /\ pc[b] = "reset"
    /\ i \in unreset[b]
    /\ d_tile_descriptors' = [d_tile_descriptors EXCEPT ![i] = Descriptor(SCAN_TILE_INVALID, Garbage)]
    /\ unreset' = [unreset EXCEPT ![b] = @ \ {i}]
    /\ UNCHANGED <<batch_state, pc, claim, warp, exclusive_prefix, d_out>>

ClearCount_never(b) ==
    /\ pc[b] = "reset"
    /\ unreset[b] = {}
    /\ Goto(b, "advance")
    /\ UNCHANGED <<d_tile_descriptors, batch_state, claim, warp, exclusive_prefix, unreset, d_out>>

ClearCount(b) ==
    /\ pc[b] = "reset"
    /\ unreset[b] = {}
    /\ lookbacks_completed' = 0
    /\ Goto(b, "advance")
    /\ UNCHANGED <<d_tile_descriptors, batch_idx, next_tile_idx, batched_sum, claim, warp,
                   exclusive_prefix, unreset, d_out>>

\* The release store that lets the blocks of the next batch go on.
AdvanceBatch(b) ==
    /\ pc[b] = "advance"
    /\ batch_idx' = Batch(tile_idx[b]) + 1
    /\ Goto(b, "store")
    /\ UNCHANGED <<d_tile_descriptors, next_tile_idx, lookbacks_completed, batched_sum, claim, warp,
                   exclusive_prefix, unreset, d_out>>

\* The block stores the scanned items of the tile and claims another one.
Store(b) ==
    /\ pc[b] = "store"
    /\ d_out' = [d_out EXCEPT ![tile_idx[b]] = exclusive_prefix[b]]
    /\ Goto(b, "claim")
    /\ UNCHANGED <<d_tile_descriptors, batch_state, claim, warp, exclusive_prefix, unreset>>

Terminated == (\A b \in Blocks : pc[b] = "exit") /\ UNCHANGED vars

Block(b) ==
    \/ Claim(b) \/ EnterBatch(b) \/ Spin(b)
    \/ ScanFirst(b) \/ PublishPartial(b)
    \/ \E l \in Lanes : LoadLane(b, l)
    \/ Retry(b) \/ ProcessWindow(b) \/ PublishInclusive(b)
    \/ SaveSum(b) \/ CountLookBack(b)
    \/ \E i \in Slots : Reset(b, i)
    \/ ClearCount(b) \/ AdvanceBatch(b) \/ Store(b)

Next == (\E b \in Blocks : Block(b)) \/ Terminated

Spec == Init /\ [][Next]_vars

\* The grid is no larger than what the device holds, and resident blocks are
\* all scheduled.
FairSpec == Spec /\ \A b \in Blocks : WF_vars(Block(b))

-----------------------------------------------------------------------------
(* Properties.                                                             *)

\* Every tile that is stored was scanned from the reduction of exactly the
\* tiles before it, those of all earlier batches included, although its
\* descriptor and those it looked back at have served other tiles before.
OutputCorrect == \A t \in Tiles : d_out[t] \in {Unwritten, Run(0, t)}

\* What slot i says while batch k owns the descriptors.
SoundSlot(k, i, d) ==
    LET t == k * TilesPerBatch + i IN
    \/ d.status = SCAN_TILE_INVALID
    \/ d.status = SCAN_TILE_PARTIAL /\ i > 0 /\ d.value = Run(t, t + 1)
    \/ d.status = SCAN_TILE_INCLUSIVE /\ d.value = Run(0, t + 1)

\* No descriptor of an earlier batch survives into the batch that batch_idx
\* announces, and no tile publishes into a batch that is not its own.
NoStaleDescriptor ==
    \A i \in Slots : SoundSlot(batch_idx, i, d_tile_descriptors[i])

\* While a block resets the descriptors nobody else reads or writes them.
ResetAlone ==
    \A b, c \in Blocks :
        pc[b] \in {"reset", "advance"} /\ c # b =>
            pc[c] \in {"claim", "wait_batch", "store", "exit"}

\* Every tile is scanned and every block leaves, however few blocks share the
\* tiles: a block never waits for a tile that nobody has claimed.
AllTilesScanned ==
    <>[](/\ \A b \in Blocks : pc[b] = "exit"
         /\ \A t \in Tiles : d_out[t] # Unwritten)

-----------------------------------------------------------------------------
(* Why the batches do not get into each other's way: the inductive         *)
(* invariant.                                                              *)

\* What block b is at with the tile it has claimed.
Waiting(b) == pc[b] = "wait_batch"
Looking(b) == pc[b] \in {"scan", "lookback"}
Prefixed(b) == pc[b] \in {"first", "publish", "save", "count"}
Resetting(b) == pc[b] \in {"reset", "advance"}
Storing(b) == pc[b] = "store"

\* Blocks that may use the descriptors, and blocks that have a tile.
Active(b) == Looking(b) \/ Prefixed(b) \/ Resetting(b)
Claimed(b) == Waiting(b) \/ Active(b) \/ Storing(b)

\* Blocks whose tile has yet to be counted, the tiles that have yet to be, and
\* those of them that the current batch waits for.
Counting(b) == Waiting(b) \/ Looking(b) \/ Prefixed(b)

Uncounted ==
    {t \in Tiles : t >= next_tile_idx \/ \E b \in Blocks : tile_idx[b] = t /\ Counting(b)}

Pending == {t \in Uncounted : Batch(t) = batch_idx}

TypeOK ==
    /\ d_tile_descriptors \in [Slots -> TileDescriptor]
    /\ batch_idx \in Nat /\ next_tile_idx \in Nat /\ lookbacks_completed \in Nat /\ batched_sum \in Value
    /\ pc \in [Blocks -> {"claim", "wait_batch", "scan", "lookback", "first", "publish", "save", "count",
                          "reset", "advance", "store", "exit"}]
    /\ tile_idx \in [Blocks -> Nat] /\ current_batch_idx \in [Blocks -> Nat]
    /\ predecessor_idx \in [Blocks -> Int]
    /\ loaded \in [Blocks -> SUBSET Lanes]
    /\ seen \in [Blocks -> [Lanes -> TileDescriptor]]
    /\ exclusive_prefix \in [Blocks -> Value]
    /\ unreset \in [Blocks -> SUBSET Slots]
    /\ d_out \in [Tiles -> Value]

\* No two blocks have the same tile.
ClaimsDistinct ==
    \A b \in Blocks : Claimed(b) =>
        /\ tile_idx[b] < next_tile_idx /\ tile_idx[b] < NumTiles
        /\ \A c \in Blocks : Claimed(c) /\ tile_idx[c] = tile_idx[b] => c = b

\* Only blocks of the current batch use the descriptors: every earlier tile has
\* been counted, and no later one.
InBatch ==
    /\ \A b \in Blocks :
         /\ current_batch_idx[b] <= batch_idx
         /\ Active(b) => Batch(tile_idx[b]) = batch_idx
         /\ pc[b] \in {"save", "count"} \/ Resetting(b) => ~FinalBatch(tile_idx[b])
    /\ \A t \in Tiles :
         /\ t \in Uncounted => Batch(t) >= batch_idx
         /\ Batch(t) > batch_idx => t \in Uncounted

\* The counter is that of the current batch, and a block resets the
\* descriptors when no tile of the batch is left.
CountsMatch ==
    /\ \A b \in Blocks : /\ Resetting(b) => Pending = {}
                         /\ pc[b] = "advance" => lookbacks_completed = 0
    /\ (batch_idx + 1) * TilesPerBatch < NumTiles /\ (\A b \in Blocks : ~Resetting(b)) =>
         lookbacks_completed + Cardinality(Pending) = TilesPerBatch

\* What has been reset stays so until the next batch is announced.
ResetClean ==
    \A b \in Blocks : Resetting(b) =>
        /\ pc[b] = "advance" => unreset[b] = {}
        /\ \A i \in Slots \ unreset[b] : d_tile_descriptors[i].status = SCAN_TILE_INVALID

\* What a lane may have loaded for index i of batch k.
SoundLoad(k, i, d) == IF i < 0 THEN d.status = SCAN_TILE_OOB ELSE SoundSlot(k, i, d)

\* A look-back in progress, as in LookBack.
LookBackSound(b) ==
    /\ pc[b] = "lookback" => Slot(tile_idx[b]) > 0
    /\ Waiting(b) \/ pc[b] = "scan" => predecessor_idx[b] = Slot(tile_idx[b]) - 1
    /\ Looking(b) /\ Slot(tile_idx[b]) > 0 =>
         /\ predecessor_idx[b] \in 0 .. Slot(tile_idx[b]) - 1
         /\ \/ predecessor_idx[b] = Slot(tile_idx[b]) - 1
            \/ exclusive_prefix[b] =
                 Run(batch_idx * TilesPerBatch + predecessor_idx[b] + 1, tile_idx[b])
         /\ \A l \in loaded[b] : SoundLoad(batch_idx, predecessor_idx[b] - l, seen[b][l])
    /\ ~(Looking(b) /\ Slot(tile_idx[b]) > 0) => loaded[b] = {}

PrefixCorrect ==
    \A b \in Blocks : Prefixed(b) \/ Resetting(b) \/ Storing(b) =>
        exclusive_prefix[b] = Run(0, tile_idx[b])

\* The first tile of the current batch has yet to read batched_sum ...
FirstUnread ==
    \/ batch_idx * TilesPerBatch >= next_tile_idx
    \/ \E b \in Blocks : /\ tile_idx[b] = batch_idx * TilesPerBatch
                         /\ Waiting(b) \/ pc[b] = "scan"

\* ... and the last one has written it.
LastSaved ==
    /\ (batch_idx + 1) * TilesPerBatch - 1 < next_tile_idx
    /\ \A b \in Blocks : tile_idx[b] = (batch_idx + 1) * TilesPerBatch - 1 =>
         ~(Waiting(b) \/ Looking(b) \/ pc[b] \in {"first", "publish", "save"})

\* The sum stays what the first tile is to read until it has: before that no
\* tile of the batch has a prefix.  The last tile leaves the sum for the next
\* batch.
SumCarried ==
    /\ FirstUnread =>
         /\ batch_idx = 0 \/ batched_sum = Run(0, batch_idx * TilesPerBatch)
         /\ \A i \in Slots : d_tile_descriptors[i].status # SCAN_TILE_INCLUSIVE
         /\ \A b \in Blocks : /\ ~Prefixed(b) /\ ~Resetting(b)
                              /\ \A l \in loaded[b] : seen[b][l].status # SCAN_TILE_INCLUSIVE
    /\ (batch_idx + 1) * TilesPerBatch < NumTiles /\ LastSaved =>
         batched_sum = Run(0, (batch_idx + 1) * TilesPerBatch)

IInv ==
    /\ TypeOK
    /\ ClaimsDistinct
    /\ InBatch
    /\ CountsMatch
    /\ ResetAlone
    /\ ResetClean
    /\ NoStaleDescriptor
    /\ \A b \in Blocks : LookBackSound(b)
    /\ PrefixCorrect
    /\ SumCarried
    /\ OutputCorrect
=============================================================================
