----------------------------- MODULE LookBack ------------------------------
(***************************************************************************)
(* The decoupled look-back of DeviceScan: DeviceScanKernel runs one thread *)
(* block per tile, AgentScan::ConsumeTile publishes the tile's aggregate   *)
(* and TilePrefixCallbackOp::lookback walks back over windows of           *)
(* WarpThreads predecessors until it meets an inclusive prefix.            *)
(*                                                                         *)
(* Every load by a lane of the callback warp is a step of its own: the     *)
(* lanes of one window see the descriptors at different moments, and other *)
(* blocks publish in between.  __any_sync and __all_sync are the points at *)
(* which the warp agrees on what it has seen.                              *)
(***************************************************************************)
EXTENDS ScanTileState, FiniteSets

CONSTANTS
    NumTiles,       \* tiles of the problem, one thread block each
    MaxResident     \* thread blocks the device holds at a time

ASSUME NumTilesAssumption == NumTiles \in Nat \ {0}
ASSUME MaxResidentAssumption == MaxResident \in Nat \ {0}

VARIABLES
    pc,                 \* where the block of each tile is
    predecessor_idx,    \* lane 0's predecessor: the right end of the window
    loaded,             \* lanes that have loaded in the current polling round
    seen,               \* what each lane loaded last
    exclusive_prefix    \* the running prefix of the callback warp

vars == <<d_tile_descriptors, pc, predecessor_idx, loaded, seen, exclusive_prefix>>

Tiles == 0 .. NumTiles - 1

Locations == {"waiting", "scan", "lookback", "publish", "done"}

Running == {t \in Tiles : pc[t] \in {"scan", "lookback", "publish"}}

Init ==
    /\ InitializeStatus(Tiles)
    /\ pc = [t \in Tiles |-> "waiting"]
    /\ predecessor_idx = [t \in Tiles |-> t - 1]
    /\ loaded = [t \in Tiles |-> {}]
    /\ seen = [t \in Tiles |-> [l \in Lanes |-> Descriptor(SCAN_TILE_OOB, Garbage)]]
    /\ exclusive_prefix = [t \in Tiles |-> Garbage]

-----------------------------------------------------------------------------
Schedule_any_order(t) ==
    /\ pc[t] = "waiting"
    /\ Cardinality(Running) < MaxResident
    /\ pc' = [pc EXCEPT ![t] = "scan"]
    /\ UNCHANGED <<d_tile_descriptors, predecessor_idx, loaded, seen, exclusive_prefix>>

\* The block scheduler (external): blocks become resident in increasing
\* order, when one of the device's slots is free.
Schedule(t) ==
    /\ pc[t] = "waiting"
    /\ \A u \in Tiles : u < t => pc[u] # "waiting"
    /\ Cardinality(Running) < MaxResident
    /\ pc' = [pc EXCEPT ![t] = "scan"]
    /\ UNCHANGED <<d_tile_descriptors, predecessor_idx, loaded, seen, exclusive_prefix>>

ScanFirstTile_partial ==
    /\ pc[0] = "scan"
    /\ SetPartial(0, Run(0, 1))
    /\ pc' = [pc EXCEPT ![0] = "done"]
    /\ UNCHANGED <<predecessor_idx, loaded, seen, exclusive_prefix>>

\* ConsumeTile for tile 0: nothing to look back at; its aggregate is its
\* inclusive prefix, published unless the tile is also the last one.
ScanFirstTile ==
    /\ pc[0] = "scan"
    /\ IF NumTiles > 1 THEN SetInclusive(0, Run(0, 1)) ELSE UNCHANGED d_tile_descriptors
    /\ pc' = [pc EXCEPT ![0] = "done"]
    /\ UNCHANGED <<predecessor_idx, loaded, seen, exclusive_prefix>>

\* The head of lookback: thread 0 publishes the tile's aggregate.
PublishPartial(t) ==
    /\ t > 0
    /\ pc[t] = "scan"
    /\ SetPartial(t, Run(t, t + 1))
    /\ pc' = [pc EXCEPT ![t] = "lookback"]
    /\ UNCHANGED <<predecessor_idx, loaded, seen, exclusive_prefix>>

\* WaitForValid: lane l loads the descriptor of its predecessor.  Only lane 0
\* publishes first; nothing holds back the other lanes of the warp.
LoadLane(t, l) ==
    /\ \/ pc[t] = "lookback"
       \/ pc[t] = "scan" /\ t > 0 /\ l > 0
    /\ l \notin loaded[t]
    /\ seen' = [seen EXCEPT ![t][l] = LoadStatus(predecessor_idx[t] - l)]
    /\ loaded' = [loaded EXCEPT ![t] = @ \union {l}]
    /\ UNCHANGED <<d_tile_descriptors, pc, predecessor_idx, exclusive_prefix>>

AnyInvalid(t) == \E l \in Lanes : seen[t][l].status = SCAN_TILE_INVALID

\* WaitForValid: __any_sync found an invalid predecessor; after the delay
\* every lane of the warp loads again.
Retry(t) ==
    /\ pc[t] = "lookback"
    /\ loaded[t] = Lanes
    /\ AnyInvalid(t)
    /\ loaded' = [loaded EXCEPT ![t] = {}]
    /\ UNCHANGED <<d_tile_descriptors, pc, predecessor_idx, seen, exclusive_prefix>>

TailFlags(t) == {l \in Lanes : seen[t][l].status = SCAN_TILE_INCLUSIVE}

WindowAggregate(t) ==
    TailSegmentedReduce([l \in Lanes |-> seen[t][l].value], TailFlags(t))

FoldWindow_swapped(t) ==
    IF predecessor_idx[t] = t - 1 THEN WindowAggregate(t)
    ELSE scan_op(exclusive_prefix[t], WindowAggregate(t))

\* The first window starts the exclusive prefix, each later one lies to the
\* left of what has been folded so far.
FoldWindow(t) ==
    IF predecessor_idx[t] = t - 1 THEN WindowAggregate(t)
    ELSE scan_op(WindowAggregate(t), exclusive_prefix[t])

\* ProcessWindow, and the loop of lookback around it: fold the window into
\* the running prefix and, unless some lane met an inclusive prefix, slide
\* the window back by a warp.
ProcessWindow(t) ==
    /\ pc[t] = "lookback"
    /\ loaded[t] = Lanes
    /\ ~AnyInvalid(t)
    /\ exclusive_prefix' = [exclusive_prefix EXCEPT ![t] = FoldWindow(t)]
    /\ IF TailFlags(t) # {}
       THEN /\ pc' = [pc EXCEPT ![t] = "publish"]
            /\ UNCHANGED <<predecessor_idx, loaded>>
       ELSE /\ predecessor_idx' = [predecessor_idx EXCEPT ![t] = @ - WarpThreads]
            /\ loaded' = [loaded EXCEPT ![t] = {}]
            /\ UNCHANGED pc
    /\ UNCHANGED <<d_tile_descriptors, seen>>

\* The tail of lookback: thread 0 publishes the inclusive prefix.  The block
\* then scans its items from exclusive_prefix and stores them.
PublishInclusive(t) ==
    /\ pc[t] = "publish"
    /\ SetInclusive(t, scan_op(exclusive_prefix[t], Run(t, t + 1)))
    /\ pc' = [pc EXCEPT ![t] = "done"]
    /\ UNCHANGED <<predecessor_idx, loaded, seen, exclusive_prefix>>

\* The grid has completed.
Terminated ==
    /\ \A t \in Tiles : pc[t] = "done"
    /\ UNCHANGED vars

Block(t) ==
    \/ t = 0 /\ ScanFirstTile
    \/ PublishPartial(t)
    \/ \E l \in Lanes : LoadLane(t, l)
    \/ Retry(t)
    \/ ProcessWindow(t)
    \/ PublishInclusive(t)

Next ==
    \/ \E t \in Tiles : Schedule(t) \/ Block(t)
    \/ Terminated

Spec == Init /\ [][Next]_vars

\* A resident block keeps executing, and a free slot is given to the next
\* block: the device schedules every resident warp.
Fairness == \A t \in Tiles : WF_vars(Schedule(t)) /\ WF_vars(Block(t))

FairSpec == Spec /\ Fairness

-----------------------------------------------------------------------------
(* Properties.                                                             *)

TypeOK ==
    /\ d_tile_descriptors \in [Tiles -> TileDescriptor]
    /\ pc \in [Tiles -> Locations]
    /\ predecessor_idx \in [Tiles -> Int]
    /\ loaded \in [Tiles -> SUBSET Lanes]
    /\ seen \in [Tiles -> [Lanes -> TileDescriptor]]
    /\ exclusive_prefix \in [Tiles -> Value]

\* What a descriptor may say of tile i: a published aggregate is the tile's
\* own, a published prefix reduces tiles 0 .. i in order, and tile 0 is never
\* partial (its look-back would have no end).
SoundDescriptor(i, d) ==
    \/ d.status = SCAN_TILE_INVALID
    \/ d.status = SCAN_TILE_PARTIAL /\ i > 0 /\ d.value = Run(i, i + 1)
    \/ d.status = SCAN_TILE_INCLUSIVE /\ d.value = Run(0, i + 1)

\* Everything the blocks publish with SetPartial and SetInclusive is sound,
\* in whatever order they run.
DescriptorsSound == \A i \in Tiles : SoundDescriptor(i, d_tile_descriptors[i])

\* The prefix a tile's look-back returns to its block scan is the reduction
\* of exactly the tiles before it, each once and in order, although the lanes
\* of the windows it folded were read at different times.
PrefixCorrect ==
    \A t \in Tiles \ {0} :
        pc[t] \in {"publish", "done"} => exclusive_prefix[t] = Run(0, t)

\* No lane ever loads in front of the TILE_STATUS_PADDING entries the tile
\* state reserves before tile 0.
LoadsInBounds ==
    \A t \in Tiles \ {0} : pc[t] \in {"scan", "lookback"} =>
        predecessor_idx[t] - (WarpThreads - 1) >= -WarpThreads

\* What a lane may have loaded for index i.
SoundLoad(i, d) ==
    IF i < 0 THEN d.status = SCAN_TILE_OOB ELSE SoundDescriptor(i, d)

\* During the look-back of tile t the window ends at a real tile, the folded
\* prefix reaches from there to t, and what the lanes hold is sound for the
\* index each of them read, however old it is.
LookBackSound(t) ==
    pc[t] \in {"scan", "lookback"} =>
        /\ predecessor_idx[t] \in 0 .. t - 1
        /\ pc[t] = "scan" => predecessor_idx[t] = t - 1
        /\ \/ predecessor_idx[t] = t - 1
           \/ exclusive_prefix[t] = Run(predecessor_idx[t] + 1, t)
        /\ \A l \in loaded[t] : SoundLoad(predecessor_idx[t] - l, seen[t][l])

\* The descriptor of a tile is exactly as far as the tile's block.
OwnerStatus(t) ==
    /\ pc[t] \in {"waiting", "scan"} => d_tile_descriptors[t].status = SCAN_TILE_INVALID
    /\ pc[t] \in {"lookback", "publish"} => d_tile_descriptors[t].status = SCAN_TILE_PARTIAL

\* The inductive invariant: blocks that have not started are untouched, tile
\* 0 never looks back, and every look-back in progress is sound.
IInv ==
    /\ TypeOK
    /\ DescriptorsSound
    /\ pc[0] \in {"waiting", "scan", "done"}
    /\ \A t \in Tiles : pc[t] = "waiting" => predecessor_idx[t] = t - 1 /\ loaded[t] = {}
    /\ \A t \in Tiles : OwnerStatus(t)
    /\ \A t \in Tiles \ {0} : LookBackSound(t)
    /\ PrefixCorrect

StatusRank(d) ==
    CASE d.status = SCAN_TILE_INVALID   -> 0
      [] d.status = SCAN_TILE_PARTIAL   -> 1
      [] d.status = SCAN_TILE_INCLUSIVE -> 2
      [] OTHER                          -> 3

\* A descriptor only ever gains information, INVALID to PARTIAL to INCLUSIVE:
\* a lane that has seen a tile valid will never see it invalid again.
DescriptorsMonotone ==
    [][\A i \in Tiles :
         \/ d_tile_descriptors'[i] = d_tile_descriptors[i]
         \/ StatusRank(d_tile_descriptors'[i]) > StatusRank(d_tile_descriptors[i])]_vars

\* Every tile of the grid is eventually scanned, although blocks spin on
\* predecessors while holding one of MaxResident slots.
AllTilesScanned == <>[](\A t \in Tiles : pc[t] = "done")
=============================================================================
