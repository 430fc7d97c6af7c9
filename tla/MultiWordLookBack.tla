------------------------- MODULE MultiWordLookBack --------------------------
(***************************************************************************)
(* The look-back over ScanTileState<T, false>, for values that do not fit  *)
(* into one machine word with their status: status, aggregate and          *)
(* inclusive prefix of a tile are in three arrays.  A block stores the     *)
(* value and then, with release, the status; a lane loads the status and,  *)
(* behind a fence, the value the status speaks of.  In between the tile    *)
(* may have moved on from PARTIAL to INCLUSIVE.                            *)
(*                                                                         *)
(* The module shows that this implements LookBack, in which a descriptor   *)
(* is loaded and stored in one step.                                       *)
(***************************************************************************)
EXTENDS Integers, FiniteSets

CONSTANTS WarpThreads, NumTiles, MaxResident

ASSUME WarpAssumption == WarpThreads \in Nat \ {0}
ASSUME TilesAssumption == NumTiles \in Nat \ {0} /\ MaxResident \in Nat \ {0}

VARIABLES
    d_tile_status, d_tile_partial, d_tile_inclusive,    \* the tile state
    pc,                 \* where the block of each tile is
    predecessor_idx,    \* lane 0's predecessor
    loaded,             \* lanes that have loaded a status in this polling round
    fresh,              \* lanes that have yet to load the value of their status
    status, value,      \* what each lane has loaded
    exclusive_prefix

vars == <<d_tile_status, d_tile_partial, d_tile_inclusive, pc, predecessor_idx,
          loaded, fresh, status, value, exclusive_prefix>>

tile_state == <<d_tile_status, d_tile_partial, d_tile_inclusive>>
warp == <<predecessor_idx, loaded, fresh, status, value, exclusive_prefix>>

Tiles == 0 .. NumTiles - 1
Lanes == 0 .. WarpThreads - 1

\* The value a status of tile i speaks of.
Published(i, s) ==
    CASE s = "PARTIAL"   -> d_tile_partial[i]
      [] s = "INCLUSIVE" -> d_tile_inclusive[i]
      [] OTHER           -> [lo |-> -1, hi |-> -1]

(* The state of LookBack that a state of this module stands for: a tile is  *)
(* as far as its status says, and a lane has what it is about to load.      *)
Descriptors ==
    [i \in Tiles |-> [status |-> d_tile_status[i], value |-> Published(i, d_tile_status[i])]]

Location(l) ==
    CASE l \in {"status_partial", "status_first"} -> "scan"
      [] l = "values"           -> "lookback"
      [] l = "status_inclusive" -> "publish"
      [] OTHER                  -> l

Locations == [t \in Tiles |-> Location(pc[t])]

Seen ==
    [t \in Tiles |-> [l \in Lanes |->
        [status |-> status[t][l],
         value |-> IF l \in fresh[t] THEN Published(predecessor_idx[t] - l, status[t][l])
                   ELSE value[t][l]]]]

Abstract == INSTANCE LookBack WITH
    d_tile_descriptors <- Descriptors, pc <- Locations, seen <- Seen

Garbage == Abstract!Garbage
Run(lo, hi) == Abstract!Run(lo, hi)

Init ==
    /\ d_tile_status = [i \in Tiles |-> "INVALID"]
    /\ d_tile_partial = [i \in Tiles |-> Garbage]
    /\ d_tile_inclusive = [i \in Tiles |-> Garbage]
    /\ pc = [t \in Tiles |-> "waiting"]
    /\ predecessor_idx = [t \in Tiles |-> t - 1]
    /\ loaded = [t \in Tiles |-> {}]
    /\ fresh = [t \in Tiles |-> {}]
    /\ status = [t \in Tiles |-> [l \in Lanes |-> "OOB"]]
    /\ value = [t \in Tiles |-> [l \in Lanes |-> Garbage]]
    /\ exclusive_prefix = [t \in Tiles |-> Garbage]

Goto(t, l) == pc' = [pc EXCEPT ![t] = l]

\* The block scheduler (external), as in LookBack.
Schedule(t) ==
    /\ pc[t] = "waiting"
    /\ \A u \in Tiles : u < t => pc[u] # "waiting"
    /\ Cardinality({u \in Tiles : pc[u] \notin {"waiting", "done"}}) < MaxResident
    /\ Goto(t, "scan")
    /\ UNCHANGED <<tile_state, warp>>

-----------------------------------------------------------------------------
(* The stores of SetPartial and SetInclusive.                              *)

\* The last tile publishes nothing if it is also the first.
StoreFirst ==
    /\ pc[0] = "scan"
    /\ IF NumTiles > 1
       THEN /\ d_tile_inclusive' = [d_tile_inclusive EXCEPT ![0] = Run(0, 1)]
            /\ Goto(0, "status_first")
       ELSE Goto(0, "done") /\ UNCHANGED d_tile_inclusive
    /\ UNCHANGED <<d_tile_status, d_tile_partial, warp>>

StorePartial(t) ==
    /\ t > 0
    /\ pc[t] = "scan"
    /\ d_tile_partial' = [d_tile_partial EXCEPT ![t] = Run(t, t + 1)]
    /\ Goto(t, "status_partial")
    /\ UNCHANGED <<d_tile_status, d_tile_inclusive, warp>>

StoreInclusive_after_status(t) ==
    /\ pc[t] = "publish"
    /\ d_tile_status' = [d_tile_status EXCEPT ![t] = "INCLUSIVE"]
    /\ Goto(t, "status_inclusive")
    /\ UNCHANGED <<d_tile_partial, d_tile_inclusive, warp>>

StoreInclusive(t) ==
    /\ pc[t] = "publish"
    /\ d_tile_inclusive' =
         [d_tile_inclusive EXCEPT ![t] = Abstract!scan_op(exclusive_prefix[t], Run(t, t + 1))]
    /\ Goto(t, "status_inclusive")
    /\ UNCHANGED <<d_tile_status, d_tile_partial, warp>>

\* store_release of the status, once the value is in place.
StoreStatus(t) ==
    /\ pc[t] \in {"status_first", "status_partial", "status_inclusive"}
    /\ d_tile_status' =
         [d_tile_status EXCEPT ![t] = IF pc[t] = "status_partial" THEN "PARTIAL" ELSE "INCLUSIVE"]
    /\ Goto(t, IF pc[t] = "status_partial" THEN "lookback" ELSE "done")
    /\ UNCHANGED <<d_tile_partial, d_tile_inclusive, warp>>

-----------------------------------------------------------------------------
(* The loads of WaitForValid.                                              *)

LoadStatus(t, l) ==
    /\ \/ pc[t] = "lookback"
       \/ pc[t] \in {"scan", "status_partial"} /\ t > 0 /\ l > 0
    /\ l \notin loaded[t]
    /\ status' = [status EXCEPT ![t][l] =
         IF predecessor_idx[t] - l < 0 THEN "OOB" ELSE d_tile_status[predecessor_idx[t] - l]]
    /\ loaded' = [loaded EXCEPT ![t] = @ \union {l}]
    /\ fresh' = [fresh EXCEPT ![t] = @ \union {l}]
    /\ UNCHANGED <<tile_state, pc, predecessor_idx, value, exclusive_prefix>>

\* __any_sync: all lanes load again, or go on to load the values.
Vote(t) ==
    /\ pc[t] = "lookback"
    /\ loaded[t] = Lanes
    /\ IF \E l \in Lanes : status[t][l] = "INVALID"
       THEN loaded' = [loaded EXCEPT ![t] = {}] /\ UNCHANGED pc
       ELSE Goto(t, "values") /\ UNCHANGED loaded
    /\ UNCHANGED <<tile_state, predecessor_idx, fresh, status, value, exclusive_prefix>>

LoadValue_by_current_status(t, l) ==
    /\ pc[t] = "values"
    /\ l \in fresh[t]
    /\ value' = [value EXCEPT ![t][l] =
         IF predecessor_idx[t] - l < 0 THEN Garbage
         ELSE Published(predecessor_idx[t] - l, d_tile_status[predecessor_idx[t] - l])]
    /\ fresh' = [fresh EXCEPT ![t] = @ \ {l}]
    /\ UNCHANGED <<tile_state, pc, predecessor_idx, loaded, status, exclusive_prefix>>

\* The array a lane reads is chosen by the status it has loaded.
LoadValue(t, l) ==
    /\ pc[t] = "values"
    /\ l \in fresh[t]
    /\ value' = [value EXCEPT ![t][l] = Published(predecessor_idx[t] - l, status[t][l])]
    /\ fresh' = [fresh EXCEPT ![t] = @ \ {l}]
    /\ UNCHANGED <<tile_state, pc, predecessor_idx, loaded, status, exclusive_prefix>>

TailFlags(t) == {l \in Lanes : status[t][l] = "INCLUSIVE"}

\* ProcessWindow and the loop around it, as in LookBack.
ProcessWindow(t) ==
    LET window == Abstract!TailSegmentedReduce(value[t], TailFlags(t)) IN
    /\ pc[t] = "values"
    /\ fresh[t] = {}
    /\ exclusive_prefix' = [exclusive_prefix EXCEPT ![t] =
         IF predecessor_idx[t] = t - 1 THEN window ELSE Abstract!scan_op(window, @)]
    /\ IF TailFlags(t) # {}
       THEN Goto(t, "publish") /\ UNCHANGED <<predecessor_idx, loaded>>
       ELSE /\ predecessor_idx' = [predecessor_idx EXCEPT ![t] = @ - WarpThreads]
            /\ loaded' = [loaded EXCEPT ![t] = {}]
            /\ Goto(t, "lookback")
    /\ UNCHANGED <<tile_state, fresh, status, value>>

Terminated == (\A t \in Tiles : pc[t] = "done") /\ UNCHANGED vars

Next ==
    \/ StoreFirst
    \/ \E t \in Tiles :
         \/ Schedule(t) \/ StorePartial(t) \/ StoreInclusive(t) \/ StoreStatus(t)
         \/ Vote(t) \/ ProcessWindow(t)
         \/ \E l \in Lanes : LoadStatus(t, l) \/ LoadValue(t, l)
    \/ Terminated

Spec == Init /\ [][Next]_vars

-----------------------------------------------------------------------------
\* A status a lane has seen is never ahead of the value it speaks of: the lane
\* finds the value in place however late it loads it.
ValueInPlace ==
    \A t \in Tiles : \A l \in fresh[t] :
        status[t][l] \in {"PARTIAL", "INCLUSIVE"} =>
            Published(predecessor_idx[t] - l, status[t][l]) # Garbage

\* The look-back over three arrays implements the one over descriptors that
\* are loaded and stored as a whole, its theorems included.
ImplementsLookBack == Abstract!Spec

-----------------------------------------------------------------------------
(* The inductive invariant of the refinement.                              *)

TypeOK ==
    /\ d_tile_status \in [Tiles -> {"INVALID", "PARTIAL", "INCLUSIVE"}]
    /\ d_tile_partial \in [Tiles -> Abstract!Value]
    /\ d_tile_inclusive \in [Tiles -> Abstract!Value]
    /\ pc \in [Tiles -> {"waiting", "scan", "status_partial", "status_first", "lookback",
                         "values", "publish", "status_inclusive", "done"}]
    /\ predecessor_idx \in [Tiles -> Int]
    /\ loaded \in [Tiles -> SUBSET Lanes] /\ fresh \in [Tiles -> SUBSET Lanes]
    /\ status \in [Tiles -> [Lanes -> {"OOB", "INVALID", "PARTIAL", "INCLUSIVE"}]]
    /\ value \in [Tiles -> [Lanes -> Abstract!Value]]
    /\ exclusive_prefix \in [Tiles -> Abstract!Value]

\* A tile's status is as far as its block, and a value is in its array before
\* the status that speaks of it is stored, and stays there.
BlockSound(t) ==
    /\ pc[t] \in {"waiting", "scan", "status_partial", "status_first"} =>
         d_tile_status[t] = "INVALID"
    /\ pc[t] \in {"lookback", "values", "publish", "status_inclusive"} =>
         d_tile_status[t] = "PARTIAL"
    /\ pc[t] \notin {"waiting", "scan"} /\ t > 0 => d_tile_partial[t] = Run(t, t + 1)
    /\ pc[t] = "status_partial" => t > 0
    /\ pc[t] = "status_first" => t = 0 /\ NumTiles > 1 /\ d_tile_inclusive[t] = Run(0, 1)
    /\ pc[t] = "status_inclusive" =>
         d_tile_inclusive[t] = Abstract!scan_op(exclusive_prefix[t], Run(t, t + 1))
    /\ t = 0 => /\ pc[t] \in {"waiting", "scan", "status_first", "done"}
                /\ d_tile_status[t] # "PARTIAL"

\* A status that tile i has, or has had.
Reached(i, s) ==
    \/ s = "INVALID"
    \/ s = "PARTIAL" /\ i > 0 /\ d_tile_status[i] # "INVALID"
    \/ s = "INCLUSIVE" /\ d_tile_status[i] = "INCLUSIVE"

\* A warp looks at its predecessors, each lane has a status its tile has had,
\* and the warp loads values only when all its lanes have a valid status.
WarpSound(t) ==
    /\ predecessor_idx[t] <= t - 1
    /\ pc[t] = "values" => loaded[t] = Lanes /\ \A l \in Lanes : status[t][l] # "INVALID"
    /\ \A l \in fresh[t] :
         \/ status[t][l] = "OOB"
         \/ predecessor_idx[t] - l \in Tiles /\ Reached(predecessor_idx[t] - l, status[t][l])

IInv == TypeOK /\ \A t \in Tiles : BlockSound(t) /\ WarpSound(t)
=============================================================================
