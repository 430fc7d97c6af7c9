--------------------------- MODULE LookBackStable ---------------------------
(***************************************************************************)
(* TilePrefixCallbackOp::lookback_stable_reduction_order: the look-back    *)
(* for run-to-run determinism.  Only anchor tiles, the multiples of        *)
(* WarpThreads, publish an inclusive prefix; a tile waits until its anchor *)
(* has, and reduces the anchor's prefix with the aggregates of the tiles   *)
(* in between, so that a pseudo-associative operator is always applied in  *)
(* the same order.  The rest is as in LookBack.  A kernel is compiled for  *)
(* one of the two orders: the behaviours of this module are those of both. *)
(***************************************************************************)
EXTENDS LookBack

VARIABLE stable     \* the template argument: the stable reduction order

allVars == <<vars, stable>>

\* The lane whose predecessor is the anchor of tile t.
AnchorLane(t) == (t - 1) % WarpThreads

AnchorIsInclusive(t) == seen[t][AnchorLane(t)].status = SCAN_TILE_INCLUSIVE

\* Either some predecessor of the window is not valid (WaitForValid), or the
\* anchor has only its aggregate: the whole warp loads again.
WaitAnchor(t) ==
    /\ pc[t] = "lookback"
    /\ loaded[t] = Lanes
    /\ AnyInvalid(t) \/ ~AnchorIsInclusive(t)
    /\ loaded' = [loaded EXCEPT ![t] = {}]
    /\ UNCHANGED <<d_tile_descriptors, pc, predecessor_idx, seen, exclusive_prefix>>

ReduceToAnchor_without_waiting(t) ==
    /\ pc[t] = "lookback"
    /\ loaded[t] = Lanes
    /\ ~AnyInvalid(t)
    /\ exclusive_prefix' =
         [exclusive_prefix EXCEPT ![t] =
            TailSegmentedReduce([l \in Lanes |-> seen[t][l].value], {AnchorLane(t)})]
    /\ pc' = [pc EXCEPT ![t] = "publish"]
    /\ UNCHANGED <<d_tile_descriptors, predecessor_idx, loaded, seen>>

ReduceToAnchor(t) ==
    /\ pc[t] = "lookback"
    /\ loaded[t] = Lanes
    /\ ~AnyInvalid(t) /\ AnchorIsInclusive(t)
    /\ exclusive_prefix' =
         [exclusive_prefix EXCEPT ![t] =
            TailSegmentedReduce([l \in Lanes |-> seen[t][l].value], {AnchorLane(t)})]
    /\ pc' = [pc EXCEPT ![t] = "publish"]
    /\ UNCHANGED <<d_tile_descriptors, predecessor_idx, loaded, seen>>

\* Only anchors publish their inclusive prefix.
PublishAnchor(t) ==
    /\ pc[t] = "publish"
    /\ IF t % WarpThreads = 0
       THEN SetInclusive(t, scan_op(exclusive_prefix[t], Run(t, t + 1)))
       ELSE UNCHANGED d_tile_descriptors
    /\ pc' = [pc EXCEPT ![t] = "done"]
    /\ UNCHANGED <<predecessor_idx, loaded, seen, exclusive_prefix>>

StableBlock(t) ==
    \/ t = 0 /\ ScanFirstTile
    \/ PublishPartial(t)
    \/ \E l \in Lanes : LoadLane(t, l)
    \/ WaitAnchor(t)
    \/ ReduceToAnchor(t)
    \/ PublishAnchor(t)

EitherInit == Init /\ stable \in BOOLEAN

EitherBlock(t) ==
    /\ \/ ~stable /\ Block(t)
       \/ stable /\ StableBlock(t)
    /\ UNCHANGED stable

EitherNext ==
    \/ \E t \in Tiles : EitherBlock(t) \/ (Schedule(t) /\ UNCHANGED stable)
    \/ (Terminated /\ UNCHANGED stable)

EitherSpec == EitherInit /\ [][EitherNext]_allVars

EitherFairSpec ==
    /\ EitherSpec
    /\ \A t \in Tiles : /\ WF_allVars(Schedule(t) /\ UNCHANGED stable)
                        /\ WF_allVars(EitherBlock(t))

-----------------------------------------------------------------------------
(* Properties, besides those of LookBack.                                  *)

\* What a tile reduces depends on the tile alone, never on how far its
\* predecessors happened to be: the inclusive prefix of its anchor, and of
\* every tile after the anchor the aggregate.
StableOrder ==
    stable => \A t \in Tiles \ {0} : pc[t] \in {"publish", "done"} =>
        \A l \in 0 .. AnchorLane(t) :
            seen[t][l].status =
                IF l = AnchorLane(t) THEN SCAN_TILE_INCLUSIVE ELSE SCAN_TILE_PARTIAL

\* What the stable order rests on: no tile but an anchor is ever inclusive, in
\* memory or in a register, and no window ever moves.
AnchorsOnly ==
    stable =>
        /\ \A i \in Tiles :
             d_tile_descriptors[i].status = SCAN_TILE_INCLUSIVE => i % WarpThreads = 0
        /\ \A t \in Tiles : predecessor_idx[t] = t - 1
        /\ \A t \in Tiles \ {0} : pc[t] \in {"scan", "lookback"} =>
             \A l \in loaded[t] : seen[t][l].status = SCAN_TILE_INCLUSIVE =>
                                   (t - 1 - l) % WarpThreads = 0

\* The inductive invariant of both orders.
EitherIInv == IInv /\ AnchorsOnly /\ StableOrder
=============================================================================
