--------------------------- MODULE ScanTileState ---------------------------
(***************************************************************************)
(* The tile descriptors through which the thread blocks of a single-pass   *)
(* scan communicate (cub/agent/single_pass_scan_operators.cuh), and the    *)
(* warp-wide reduction that a look-back applies to a window of them.       *)
(*                                                                         *)
(* Data abstraction.  A value of type T is the ordered reduction of a run  *)
(* of consecutive tiles lo .. hi-1, and is represented by that run.  The   *)
(* scan operator only has to be associative, so combining two runs is      *)
(* meaningful exactly when the second starts where the first ends; every   *)
(* other combination (a gap, an overlap, swapped operands, memory that was *)
(* never written) is Garbage and stays Garbage.                            *)
(***************************************************************************)
EXTENDS Integers

CONSTANT WarpThreads            \* detail::warp_threads, 32 on every device

ASSUME WarpThreadsAssumption == WarpThreads \in Nat \ {0}

VARIABLE d_tile_descriptors     \* descriptor of each tile, without the padding

Lanes == 0 .. WarpThreads - 1

-----------------------------------------------------------------------------
(* Values and the scan operator.                                           *)

Run(lo, hi) == [lo |-> lo, hi |-> hi]

Garbage == Run(-1, -1)

Value == [lo : Int, hi : Int]

\* scan_op(a, b): a is the reduction of the tiles to the left of b's.
scan_op(a, b) ==
    IF a # Garbage /\ b # Garbage /\ a.hi = b.lo THEN Run(a.lo, b.hi) ELSE Garbage

-----------------------------------------------------------------------------
(* Statuses and descriptors.                                               *)

SCAN_TILE_OOB       == "OOB"
SCAN_TILE_INVALID   == "INVALID"
SCAN_TILE_PARTIAL   == "PARTIAL"
SCAN_TILE_INCLUSIVE == "INCLUSIVE"

ScanTileStatus ==
    {SCAN_TILE_OOB, SCAN_TILE_INVALID, SCAN_TILE_PARTIAL, SCAN_TILE_INCLUSIVE}

TileDescriptor == [status : ScanTileStatus, value : Value]

Descriptor(s, v) == [status |-> s, value |-> v]

\* InitializeStatus: every tile is not-yet-set (the padding in front of the
\* array is out of bounds, see LoadStatus).
InitializeStatus(tiles) ==
    d_tile_descriptors = [i \in tiles |-> Descriptor(SCAN_TILE_INVALID, Garbage)]

\* One load of a descriptor.  The WarpThreads entries in front of tile 0 are
\* padding.
LoadStatus(i) ==
    IF i < 0 THEN Descriptor(SCAN_TILE_OOB, Garbage) ELSE d_tile_descriptors[i]

SetPartial(i, v) ==
    d_tile_descriptors' =
        [d_tile_descriptors EXCEPT ![i] = Descriptor(SCAN_TILE_PARTIAL, v)]

SetInclusive_keeps_status(i, v) ==
    d_tile_descriptors' = [d_tile_descriptors EXCEPT ![i].value = v]

SetInclusive(i, v) ==
    d_tile_descriptors' =
        [d_tile_descriptors EXCEPT ![i] = Descriptor(SCAN_TILE_INCLUSIVE, v)]

-----------------------------------------------------------------------------
(* The segmented warp reduction over what the lanes of a warp loaded.      *)

TailLane_last(tails) ==
    IF tails # {} THEN CHOOSE l \in tails : \A m \in tails : m <= l ELSE WarpThreads - 1

\* The lane that ends lane 0's segment: the first of the lanes with a tail
\* flag, else the last lane of the warp.
TailLane(tails) ==
    IF tails # {} THEN CHOOSE l \in tails : \A m \in tails : l <= m ELSE WarpThreads - 1

\* WarpReduce::TailSegmentedReduce with SwizzleScanOp: lane 0 receives
\* val[k] op ... op val[1] op val[0], k being the tail lane.  The runs are
\* combined pairwise, so the result is a run only if all neighbours meet.
TailSegmentedReduce(val, tails) ==
    LET k == TailLane(tails) IN
    IF /\ \A l \in 0 .. k : val[l] # Garbage
       /\ \A l \in 0 .. k - 1 : val[l + 1].hi = val[l].lo
    THEN Run(val[k].lo, val[0].hi)
    ELSE Garbage
=============================================================================
