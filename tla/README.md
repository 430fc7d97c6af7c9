# TLA+ models of CCCL

CCCL is three libraries and their satellites: CUB (device-wide and block-wide
algorithms), Thrust (parallel algorithms over them), libcu++ (the C++ standard
library for device code) and cudax (experiments: senders, task flow). Most of
it is sequential template code that tests cover well. This project models the
parts in which threads, blocks, streams or host threads meet without a lock
that covers everything, and in which a run-time test exercises one schedule
out of very many: the single-pass scan, the barriers and semaphores, the caching
allocator, and the run loop, stop tokens and `when_all` of the cudax senders.

Contents: [inventory](#inventory), [modules](#modules-and-how-they-correspond-to-the-code),
[runs](#runs), [proofs](#proofs), [findings](#findings),
[what is not modelled](#what-is-not-modelled), [plan](#plan).

## Inventory

| Component | State | Operations | What is hard | What makes it correct |
|---|---|---|---|---|
| Tile state and look-back, `cub/agent/single_pass_scan_operators.cuh` | a status and value per tile in global memory; window, running prefix of each block | `InitializeStatus`, `SetPartial`, `SetInclusive`, `WaitForValid`, `ProcessWindow`, `lookback`, `lookback_stable_reduction_order` | blocks communicate by polling; the lanes of a warp read at different times; value and status may be separate words | each block's prefix reduces the tiles before it, once each and in order; polling ends |
| Scan agent and kernels, `agent_scan.cuh`, `kernel_scan.cuh` | tile index of each block; for the batch kernel the claim counter, the batch index, the count of completed look-backs and the batch prefix | `ConsumeTile`, `ConsumeBatchTile`, `claim_batch_tile`, `batch_completion_op` | blocks wait for blocks that may not be resident; descriptors are reused by the next batch | as above, across batches; no descriptor is taken for another batch's |
| Barrier, `cuda/std/__barrier/barrier.h` | one packed word, or three atomics and a completion function | `arrive`, `wait`, `arrive_and_wait`, `arrive_and_drop` | a phase is opened and re-armed in several steps while released threads come back | nobody leaves early, nobody misses a phase, completion runs once in between |
| Caching allocator, `cub/util_allocator.cuh` | cached and live blocks, byte counts, ceiling | `DeviceAllocate`, `DeviceFree`, `FreeAllCached`, `SetMaxCachedBytes`, `NearestPowerOf` | the lock is dropped around runtime calls; memory is handed over between streams; any runtime call may fail | one owner per block, no reuse under a running kernel, no leak, balanced books |
| Semaphores, `cuda/std/__semaphore` | a counter, or a flag | `acquire`, `try_acquire`, timed acquire, `release` | compare-exchange loops, time-outs, units that come and go between a failed attempt and the wait | no unit is lost or duplicated, a failure has a reason, waiters are served, timed calls end |
| Polling, atomic wait, `__thread/poll.h`, `__atomic/wait` | none | poll with back-off and time-out | a time-out of zero | a timed wait ends |
| Latch, `cuda/std/__latch` | a counter | `count_down`, `wait` | little: one decrement, one poll | as the barrier, once |
| Block-scope barrier, `cuda/__barrier/barrier_block_scope.h` | an mbarrier object | as the barrier | hardware state machine | as the barrier |
| Look-ahead scan, `cub/detail/warpspeed` | stages of shared memory, tile states | squads that load, reduce, scan and store | pipelining between squads | as the look-back |
| One-sweep radix sort, `agent_radix_sort_onesweep.cuh` | a word per tile and digit | look-back per digit | as the look-back | as the look-back |
| Reduce-by-key, select | tile state with a key | the look-back | packing | as the look-back |
| `GridQueue`, `GridEvenShare` | a counter; offsets | work distribution | rounding | every item once |
| `thrust::mr` pools | free lists | allocate, deallocate, release | long sequences of calls | no block twice |
| `run_loop`, `thread_context`, `sync_wait`, `__execution/run_loop.cuh`, `atomic_intrusive_queue.cuh` | the head of an intrusive list, the links of its nodes, a flag | `start`, `push`, `pop_all`, `run`, `finish` | addresses that come back, work that schedules work, the end of the loop's life | first in first out, nothing lost, `run` returns when all is done |
| Stop tokens, `__execution/stop_token.cuh` | a stop bit and a lock bit in one word, a list of callbacks | `request_stop`, registration, deregistration | callbacks are executed without the lock, and may destroy themselves or request other stops | no callback forgotten, none touched after its destruction, no mutual waiting |
| `when_all`, `__execution/when_all.cuh` | a count, a state, values, an error, a stop source | `start`, completions of the children | children, stop and completion race; the last one destroys everything | the receiver completes once, rightly, and nobody touches the operation after that |
| Other sender algorithms | none of their own | forward completions | types | types |
| cudax STF | logical data, instances, tasks | acquire, release, submit | coherence of copies | sequential semantics |

How they interact. `DeviceScan` launches an initialization kernel and then the
scan kernel; its blocks talk to each other only through the tile state (and,
in the batch kernel, the batch state), never through the host. Select,
partition, reduce-by-key and run-length encoding use the same tile state. The
barriers and the semaphores wait through `__cccl_thread_poll_with_backoff` or
atomic wait, which poll. The allocator is called by host threads and itself
calls the CUDA runtime; device work reaches it only through events. `when_all`
owns a stop source to which its children register callbacks, and registers one
of its own with the source behind the receiver's token, so that a stop
request nests in another; `sync_wait` and `thread_context` each own a run loop.

## Modules and how they correspond to the code

Names of variables, fields and operations are the code's. `PROJECT.json` maps
every definition to the lines it stands for.

### ScanTileState, LookBack

A value of the scanned type is represented by the *run* of consecutive tiles
`lo .. hi-1` it reduces. The scan operator is only required to be associative,
so `scan_op` of two runs is a run exactly if the second begins where the first
ends, and `Garbage` otherwise. Uninitialized memory is `Garbage` too. A wrong
order, a gap, an overlap or a stale read thus shows up in the value.

`LookBack` has one process per tile (`DeviceScanKernel` starts one block per
tile). `ScanFirstTile` and `PublishPartial` are the two branches of
`ConsumeTile` with the first store of `lookback`; `LoadLane` is one load of
one lane in `WaitForValid`; `Retry` and `ProcessWindow` are the two outcomes of
the `__any_sync` vote, the latter with the segmented reduction and the slide of
the window; `PublishInclusive` is the last store. Lanes other than 0 do not
wait for lane 0's store, and do not in the model. The block scheduler
(`Schedule`) is external: at most `MaxResident` blocks, in increasing order,
as `ConsumeRange` assumes. The delay between polls is left out, since it has no effect
on what is read. `TailLane` is the first flagged lane or the last lane of the
warp, as `SegmentedReduce` computes it for lane 0, the only lane whose result
is used.

### LookBackStable

`lookback_stable_reduction_order`: the same blocks, with `WaitAnchor`,
`ReduceToAnchor` and `PublishAnchor` in place of the classic loop. `stable` is
the template argument by which `operator()` chooses; the behaviours of the module
are those of both orders, and one run checks both.

### MultiWordLookBack

`ScanTileState<T, false>`: values and status are separate stores and loads.
The model is sequentially consistent; what the code uses to get this order,
the release store of the status and the fence after its load, is taken to
work. The refinement mapping puts status and value together again, and gives a
lane that has loaded a status but not its value the value it is going to read.

### BatchScan

`DeviceScanBatchKernel`: blocks claim tiles with a fetch_add, wait for their
batch, look back within it, and count their completion; whoever counts last
resets the descriptors, one store each, then the count, then advances
`batch_idx`. The look-back is that of `LookBack` with batch-local indices.
`d_out` records the prefix from which each tile was stored. What a warp has
loaded is forgotten at the end of a window, and the prefix at the end of a tile,
as the locals of the code are.

### PhaseBarrier, BarrierClient, PackedWord, PackedBarrier, CompletionBarrier

`PhaseBarrier` is the promise: an arrival is one step, and the one that
exhausts the count starts the next phase. `PackedBarrier` is
`__barrier_base<__empty_completion>`: `upper` and `lower` are the halves of the
64-bit word (declared by `PackedWord`, with what the clients rely on), `Half`
is 2^31, each fetch_add is a step, and the one that flips
the phase bit is followed, later, by `Rearm`. The lower half never carries into
the upper one, since it is raised only by drops. `CompletionBarrier` is the
general template: every access to `__expected`, `__arrived` and `__phase` is a
step, and so is the completion function. `wait` is modelled as polling, which
is what `__cccl_thread_poll_with_backoff` does.

The client (`BarrierClient`, shared by both templates; its threads are
declared in `Participants`) divides `Count` among its threads, arrives once per phase, waits
with the token it got, and may drop. `DropsComplete` says whether an
`arrive_and_drop` may be the arrival that completes a phase; see the findings.

### CachingDeviceAllocator

A step of a host thread is one critical section together with what the thread
does alone around it: `AllocateCached`, `AllocateNew`, `Malloc`,
`FreeDeviceCache`, `MallocAgain`, `InsertLive` are the pieces of
`DeviceAllocate`; `FreeToCache`, `FreeUncached`, `Release` those of
`DeviceFree`. A host's current device is its own, so that switching and
reverting it needs no steps of its own unless it fails. The search of the cache
queries events one after the other while the device runs on, so any reusable
block may be the one it finds. A query that fails makes its block reusable, as
every answer but `cudaErrorNotReady` does (`Takes`).

The runtime is external and modelled as the allocator uses it: `heap`,
`current_device`, and a FIFO `queue` per stream of kernels and recorded events.
`cudaFree` waits for its device. Calls in `world.faulty` may fail, each once, at
most `MaxFaults` in a behaviour (cudaGetDevice and cudaSetDevice are one kind);
`faults` remembers which did, since no property survives all of them: a failed
event destruction leaves a freed block in the cache (excepted from `OneOwner` and
`StreamSafe`), a `cudaMalloc` that fails for another reason than lack of memory
makes a null block live (excepted from `OneOwner`), a failed event query hands over
memory that may be in use by another stream (excepted from `StreamSafe`), and a
failed event creation or `cudaFree` loses memory (excepted from `NoLeak`); the books
survive every failure. An event may be recorded again while an earlier record is
still queued, after a failed query in another stream too; only the last record
counts. `world` is the setting, chosen at the start: which hosts there are, the
device of each stream, the requests, the ceilings, the calls that may fail. Streams
are not destroyed, and the client frees each pointer once and on its device.

`NearestPowerOf` is its mathematical result, for sizes far from overflow.

### SemaphorePromise, Semaphore

`SemaphorePromise` declares the units and states what clients rely on;
`Semaphore` is the implementation. Both templates of `__atomic_semaphore`, chosen by `binary`. `Load` and
`CompareExchange` are the two accesses of `__fetch_sub_if` and of its slow
path, and of the function that `__acquire_slow_timed` polls with; `Exchange` is
`try_acquire` of the binary semaphore; `Wait` is `__wait_slow`, or the wait of the
binary one; `BackOff` is one turn of `__cccl_thread_poll_with_backoff`, with
`polls` for its counter and `expired` for the comparison with the clock. The
clients (external) hold at most one unit each; a signaller hands in units that
nobody had acquired; there are never more units than the maximum, which is
release's precondition. A spurious failure of `compare_exchange_weak` finds the
value it expected and changes nothing.

A time-out of exactly zero is an operation of its own, `try_acquire_for_zero`:
`__max != nanoseconds::zero()` in the polling loop (`poll.h:58`) takes it for no
time-out at all, and `try_acquire_for(0)`, or `try_acquire_until` at the very
deadline, polls until it gets a unit. `TimedReturns` therefore excepts it, and
`AcquireReturns` speaks of it as of a blocking `acquire`. `ZeroCallers` are the threads
that make such calls; it only bounds the run. A negative rest of time is less
than what has elapsed, and the call fails as it should.

### RunLoop

The queue is modelled by its pointers, `head` and `next`: `PushLoad` and
`PushCas` are the load and each attempt of the compare-exchange in `push`,
`PopAll` the exchange and the reversal, which nobody else can see; `Advance` and
`Execute` are the two statements of `__execute_all`'s loop, in their order. A node
is the operation state of a producer, which starts it again as soon as it has
completed, so that addresses come back; executing a node may push another one
from the loop's own thread. `JoinsFirst` tells the two owners of a loop in the
repository apart: `thread_context::join` returns from `finish` and joins the thread
before the loop dies, in `sync_wait` it dies when `run` returns.

### StopSource, WhenAll

Calls nest: a callback may request the stop of another source, complete a child
and so complete the whole operation, and destroy itself on the way. Each thread
therefore has a stack of frames, the innermost call last, each with a point of the code
and what it is about. `StopSource` has one action per access to the shared word: `RequestStop`
and `TryAddCallback` are the two uses of `__try_lock_unless_stop_requested`,
`Relock` and `RemoveCallback` those of `__lock`; what is done under the lock and
the unlock are one step, since everybody else needs the lock for it.

`WhenAll` extends it with two sources (the receiver's and the operation's own),
`__on_stop_`, and the callbacks of the children: `Start`, `CheckStopped`,
`Abandon`, `StartNextChild` are `start`; `SetValue`, `SetError`, `EmplaceError`,
`SetStopped` the completions of the children; `Arrive` and `Deliver` are `__arrive`
and `__complete`. The children are external and of three kinds: *inline*
ones complete inside `start`; *async* ones on a thread of their own, their stop
callback only leaves a note; *eager* ones are completed by their stop callback. All of
them destroy their stop callback before they complete, as the contract of an
operation state asks for.

With an eager child and a receiver that can be stopped the code touches the
operation after it has completed it. The stopping thread runs
`__on_stop_`, which calls `request_stop` of the operation's own source, which
runs the child's callback, which completes the child. If it is the last one,
`__complete` (`when_all.cuh:262`) destroys `__on_stop_` on the thread that is executing it, which
does not wait for itself, and completes the receiver, which may destroy the
operation; back in the inner `request_stop`, `__lock()` (`stop_token.cuh:344`) is called
on a source that is gone. `NoTouchAfterCompletion` names this as its one
exception: the thread that has destroyed `__on_stop_` from inside its own
execution (`DestroyedByItself`), at the points of `request_stop` it comes back to
(`StopsChildren`). No other thread, and no other point, is excepted, and no child's
callback is run there. No child in the repository completes from its stop callback; a
sender that does is not excluded by anything.

## Runs

Sizes are chosen so that the cases the properties are about occur: windows
shorter than the distance to tile 0 so that they slide; fewer resident blocks than
tiles; more batches than two, the last one short; threads with unequal shares;
a device too small for what is requested.

| Run | Bounds | Shows |
|---|---|---|
| `lookback` | both orders; warp of 2, 6 tiles, 3 resident (168 309 states) | prefix, fixed order, bounds of the loads, monotone descriptors, inductive invariant; the grid completes |
| `multi_word` | warp of 2, 5 tiles, 3 resident | value in place; implements `LookBack` |
| `batch_scan` | warp of 2, 3 blocks, 9 tiles in batches of 4, 4 and 1 (221 044) | output, no stale descriptor, exclusive reset; every tile stored, every block leaves |
| `packed_barrier` | 3 threads with shares 2, 1, 1, two of which may drop; 4 rounds, Half = 6 | a late re-arm does not carry into the phase bit; synchronization, progress, implements `PhaseBarrier` |
| `completion_barrier` | shares 2, 1, 1, two may drop; 3 rounds (11 916) | completion once and in between, progress, implements `PhaseBarrier` |
| `allocator` | 2 addresses of a 6-byte device, bins of 2 and 4 bytes; three settings: 2 hosts, 2 streams, 2 ceilings, no failure; the same with one failure other than of `cudaMalloc` and `cudaEventDestroy`; 1 host, 2 devices, one failure of any call, event queries included (2 100 656) | ownership, leaks, stream safety, books, ceiling |
| `when_all` | 2 children of every combination of kinds, a stopper, a receiver with and without a stop token (179 788) | right completion, no access after it but for the exception above, no forgotten and no dangling callback, cancellation reaches the others, completion and the return of `request_stop` |
| `run_loop` | 2 producers, one started twice, one whose continuation schedules again; 2 callers of `finish` (84 102) | first in first out, drained at return, scheduled work is executed, `run` returns |
| `semaphore` | 3 threads with one call each, 2 units, both templates, polling count 1; one of the threads may call with a rest of time of zero (237 639) | units conserved, failures justified, calls with a time-out return, waiters are served |

`packed_barrier_drop`, `allocator_device` and `sync_wait` end in a
counterexample; they are under [Findings](#findings). In a barrier, two phases differ by the phase bit
only, so four rounds see every combination of a bit and its reuse; in the
look-back a window interacts with at most its own length of predecessors
and one earlier window; in the batch scan a batch interacts with the one before
and the one after. Two children are the least that race, and the third
kind of race, with the stop, has its own thread; a third child only repeats what
the second does. In the queue two producers and a pushing consumer already give
every order of three compare-exchanges. For what is proved the bounds do not matter.

Fairness. `lookback`, `batch_scan`: every resident
block keeps executing (independent thread scheduling within a resident block is
not even needed, only that the hardware schedules every resident warp), and a
free slot goes to the next block. The barrier runs: a thread that can take a
step takes it, and a participant does not stay away from a barrier at which
others wait; both are the client's side of the contract. `when_all`, `run_loop`,
`semaphore`: a thread inside a call keeps running, a child operation ends by
itself, time passes. Nobody has to request a stop, schedule work, call `finish` or
return a unit; `AcquireReturns` says in its premise that units are returned. All
of it is weak fairness. Polling steps are stuttering or repeated
loads, so that a hang is a violated liveness property.

Deadlock is checked in every run; the terminated states loop.

## Proofs

Checked by TLAPS, for every value of the constants under the named assumptions of the
modules. `WhenAllInvariant` and `WhenAllProofs` take several minutes each on two cores.

**LookBackProofs.** For every warp size, number of tiles and number of resident
blocks (each at least 1): `LookBackInvariant`, `TypeCorrect`, `LookBackCorrect`,
`LookBackInBounds`, `DescriptorsOnlyGain`. `PrefixCorrect` is not inductive: it
says nothing of a look-back under way. `IInv` adds that what is published is sound
(`DescriptorsSound`), that the descriptor of a tile is as far as its block
(`OwnerStatus`), and, for a look-back under way (`LookBackSound`), that the window
ends at a real tile, that the folded prefix reaches from there to the tile, and that
whatever a lane holds is sound for the index it read, however old it is. The
heart is the fold of a window: if no lane is inclusive, all lanes must hold
aggregates of neighbouring tiles and none may be out of bounds, since tile 0 is
never partial, which is also why the window never leaves the padding; if some are, the
first of them ends the segment at tile 0. The lemmas on `TailSegmentedReduce` and
`scan_op` state this for runs.

Both reduction orders together (`EitherSpec` of `LookBackStable`), in the same module
and under the same assumptions: `EitherInvariant`, `EitherCorrect`, `StableOrderHolds`,
`EitherOnlyGain`. The invariant of `LookBack` carries over unchanged. `StableOrder`
needs `AnchorsOnly` besides: with the stable order no tile but an anchor (every
`WarpThreads`-th) is ever inclusive, in memory or in a register, so the one
inclusive descriptor of a window is the anchor's.

**MultiWordLookBackProofs.** `MultiWordInvariant`; `MultiWordRefinement`: the tile
state of several words implements `LookBack`, one step for one step or a
stutter; hence `MultiWordSound` (the invariant of `LookBack`, which
`LookBackProofs` has proved, read through the mapping), `MultiWordPrefixCorrect` and
`MultiWordValueInPlace`. The invariant of the refinement is that a status stands
for a value that is already in its array and stays there (`BlockSound`), and that
every status a lane has loaded is one its tile has had (`WarpSound`, `Reached`), so
that the value the mapping attributes to the lane early is the one it will read.

**BatchScanProofs.** For every number of tiles, of descriptors (at least 1) and of
blocks, and every warp width: `BatchScanInvariant`, `BatchScanOutput`,
`BatchScanNoStale`, `BatchScanResetAlone`. The reduction of a window comes from
`LookBackProofs`, shifted to the first tile of the batch (`WindowReduction`). The
rest of `IInv` is about the hand-over between batches. `Uncounted` are the tiles
whose look-back has yet to be counted, claimed or not, and `Pending` those of the
current batch. `InBatch`: no block uses the descriptors for another batch than
`batch_idx`, all earlier tiles are counted and no later one is. `CountsMatch`:
the counter and the number of pending tiles add up to the batch, so whoever brings the
counter to `TilesPerBatch` is the last, which is what makes it alone
(`ResetAlone`). `SumCarried`: `batched_sum` is the sum before the batch until its first
tile has read it, and the sum behind it once its last tile has written it; the
write cannot overtake the read because no tile of a batch can have a prefix, nor
any descriptor be inclusive, before the first tile has read (`FirstUnread`).

**SynchronizationProofs** has the barriers and the semaphore. The barrier with a
completion function: for every finite set of threads, all shares that add up
to the count (`SharesAssumption`, the caller's contract) and all threads of share
one that may drop: `CompletionInvariant`, `CompletionRunsBetween`,
`CompletionRefinement` (the barrier implements `PhaseBarrier`). `IInv`: the
three atomics are the weights of those who stay and of those who are missing
(`CountsMatch`); one thread at most completes the phase, nobody is missing meanwhile
(`OneCompletes`), and what it has read is still current (`LocalsCurrent`);
`RoundsMatch` says who is how many phases ahead. An arrival takes effect at
its `fetch_sub`, the last one of a phase only at the store to `__phase`; the
mapping counts the phase down to the weight of the last arrival until then.

The packed barrier (`Packed!` in the module): for the same threads and shares and every
`Half` above `Count` (`HalfAssumption`), if no `arrive_and_drop` completes a phase
(`LastArrivalStays`, a hypothesis of the theorems): `PackedInvariant`,
`PackedRearmFits`, `PackedSynchronizes`, `PackedCountReset`, `PackedNoMissedPhase`,
`PackedRefinement` (it implements `PhaseBarrier`). `IInv` says that the counts in the word, with
a pending re-arm added, are the weights of the missing and of the participating threads
(`CountsMatch`); that at most one thread is about to re-arm, and that it is itself
missing in the phase it has opened, so the phase cannot end before the
re-arm (`RearmingStays`); that the missing threads are level and the others one
arrival ahead (`RoundsMatch`); and that somebody who stays is always missing
(`SomeoneMissing`). `RearmingStays` is what fails when a drop completes a phase. The
mapping counts a pending re-arm as done, so that every arrival takes effect with its
first `fetch_add` (that of a drop with its second) and the re-arm does not show.

The semaphore (`Sem!`): for any threads, calls, units and polling count
(`SemaphoreSizes`), and both templates: `SemaphoreInvariant`, `SemaphoreConserves`, `SemaphoreFailsEmpty`.
`CallSound` adds to the two properties what a call in progress relies on: a
compare-exchange expects a unit, and whoever polls has met the count at zero.

**CachingDeviceAllocatorProofs.** For any number of hosts, devices, streams,
addresses, events and ceilings, any sizes and any runtime calls that fail, event
queries included, with the exceptions each property names: `AllocatorInvariant`, `AllocatorOneOwner`, `AllocatorNoLeak`, `AllocatorStreamSafe`,
`AllocatorBooks`, `AllocatorCeiling`. `OneOwner` says nothing about an event, and is not inductive
once an allocation fails: two blocks without memory look alike. `OnePlace`
therefore tells blocks apart by their event, which every block has whatever
fails; `OwnMemory` and `NullMemory` then say for which failures a block is
memory of its own; `EventsFollow` says that the event of a cached block comes, in every
stream, after the last kernel that uses the block, which makes a successful query mean
that the memory is free. Assumptions on constants: addresses, events and the null
pointer are different things (`HandlesAssumption`); `PowersAssumption` states the
arithmetic facts about powers of `bin_growth` that need an induction, and TLC
evaluates it on its instance.

**RunLoopProofs.** For any producers, chains of continuations, callers of `finish`
and number of pushes: `RunLoopInvariant`, `QueueIsFifoHolds`, `DrainedAtReturnHolds`. `QueueIsFifo` reads the queue through its links and says nothing of
why they are intact. `IInv` gives the links a position in the history: there is a `k`
such that the first `k` pushes are those taken from the list (`TakenUpTo`), what the
consumer still holds of them is linked from the oldest to the newest, and `head` leads
through the later ones from the newest to the oldest. `PendingOnce` says that no
node is pending twice, and none while its producer is still pushing it; so a node a
compare-exchange has yet to link is in neither list, and an address that has come back
to `head` does no harm, because `push` writes what it compared with. `Accounts` counts how often each
node was started, pushed and executed, which `DrainedAtReturn` needs for the work that
work has scheduled; `Phases` says what `finishing`, `draining` and the consumer's
point in `run` tell about each other.

**WhenAllInvariant, WhenAllProofs.** For any number of children of the three kinds, a
receiver that can be stopped or cannot, and both stop sources at once:
`WhenAllInvariantHolds`, `CompletesRightHolds`, `NoTouchAfterCompletionHolds`,
`OthersCancelledHolds`, `DeadCallbackUntouchedHolds`, `NoForgottenCallbackHolds`. The first
module defines the invariant and has the lemmas on frames and the first of the
steps; the second has the others and the theorems. A frame keeps its place in its stack
until it returns, so that a thread and an index are its address, and a step replaces,
adds or removes one frame. `IInv`:

* `Nested`: which call may be above which. It is what bounds the recursion of
  callbacks into `request_stop` into callbacks.
* `Locks`, `Notifying`, `Chain`: one frame in all stacks is inside each lock, one
  in each `request_stop`, and one completes each child; together they turn frames
  on different threads into the same frame.
* `Counted`: `__count_` is the number of children that have not arrived. `StartOrder`
  says how far `start` has come.
* `Listed`, `CallbacksSound`, `Reachable`, `OnStopSound`: what a source lists is alive
  and linked; where each callback is in its life, and which frame can still reach it.
* `ChildrenSound`: what each frame of a child goes with: a child that has sent its
  signal has destroyed its stop callback before, and nobody else is executing
  it, so that once all have arrived no source runs a callback any more.
* `OperationSound`, `EndSound`: what `__state_`, `__errors_`, `__values_` and the result
  say about the signals the children have sent.

For `NoTouchAfterCompletion`: when the receiver has been completed, either no child was
begun or none is pending, so that no frame belongs to a child and, by `ChildrenSound`, no
frame is about to run a child's callback. A `request_stop` of
the operation's own source can then only be below `__on_stop_`, which
is dead by then. Its destructor waits for a run on another thread, so the frame is on
the thread that destroyed it: the exception. The other assumptions
(`WhenAllConstants`, `StopSourceConstants`) say that threads, sources and callbacks are
different things and that `ChildOrder` lists every child once.

The inductive invariants are checked with TLC too: that of `LookBack` is an invariant
of the run `lookback`; those of the other modules hold on the instances of their
runs when they are added to the configuration (that of `RunLoop` with `k` in
`0 .. Len(pushed)`, which `TakenUpTo` implies and TLC can enumerate).

Only model-checked: liveness and everything with fairness, which is out of the
prover's reach. Every invariant, action property and refinement of a passing run
is proved.

## Findings

Each is a run whose one property, taken from a comment, test or page of the
documentation, TLC refutes. `PROJECT.json` has the quotations.

* `packed_barrier_drop`: if `arrive_and_drop` is the last arrival of a phase of
  the packed barrier, the remaining threads may all arrive at the next phase
  before the dropping thread re-arms. The re-arm then carries into the
  phase bit and leaves the count at zero; the phase after that waits for 2^31
  arrivals. A program is safe if the last arrival is always one of `arrive`.
* `allocator_device`: an allocation on another device that finally fails for
  lack of memory returns with that device current.
* `sync_wait`: `finish()` raises the flag and then pushes the work item that
  wakes the loop. If `run()` tests the flag in between, because it has just
  been entered or comes back from other work, it drains the queue and returns
  without the item, and `sync_wait` destroys the loop while the completing thread still
  has to push to it. `thread_context` is not affected: it calls `finish()` on the thread
  that destroys the loop.

The allocator model follows the code through failing runtime calls, and some of
what it then does is not what a caller would expect. No run is devoted to it:

* `FreeAllCached` overwrites the error that stopped it with the result of
  reverting the device, and returns success with blocks still cached.
* A failing `cudaEventDestroy` leaves a block whose memory was freed in the
  cache, from where it can be handed out again. `OneOwner` and `StreamSafe`
  except this failure.
* An error of the first `cudaMalloc` other than `cudaErrorMemoryAllocation` is
  lost: a null block becomes live and the call returns success. `OneOwner`
  excepts it.
* A failing `cudaEventCreateWithFlags` loses the memory that was just allocated,
  and a failing `cudaFree` in `DeviceFree` a block that has left the books.
  `NoLeak` excepts both. The books (`BooksBalance`) survive everything.
* A failing `cudaEventQuery` counts as an idle stream (`util_allocator.cuh:461`), so
  that memory a kernel of another stream still uses is handed over. `StreamSafe`
  excepts it.

Likewise excepted by the properties, and described with the modules: a timed
`acquire` with a rest of zero does not time out (`TimedReturns`), and a stop that
completes the last child of `when_all` from inside its callback comes back into a
source that may be gone (`NoTouchAfterCompletion`).

## What is not modelled

* The memory model: all models interleave atomic steps. The release/acquire
  pairs of the code are taken to order what they are there to order; relaxed
  loads of a single word per tile need no more.
* What a block computes from its items, and host-side dispatch: sequential.
* `ReduceByKeyScanTileState`, delay constructors, `LoadValid`.
* The look-back of the one-sweep radix sort (the protocol of `LookBack` with one
  lane per digit), the look-ahead scan and the block-scope barrier (state machines
  in hardware), the latch (the arrival half of a barrier), the pools of
  `thrust::mr` (sequential, or under one mutex), `GridQueue` and `GridEvenShare`
  (arithmetic), STF (a system of its own).
* By lines the project covers a very small part of the repository. Most of CCCL is
  generated instruction wrappers, template metaprogramming, type-level dispatch and
  sequential algorithms with no state that outlives a call; there is nothing
  for a state machine to say about them.
* In the allocator: rounding at the end of the range of `size_t` (the overflow
  test of `NearestPowerOf` does not catch every request that its loop cannot
  round up), streams that are destroyed and
  recycled, pointers freed twice or on the wrong device, logging.
* The components marked `not_modelled` in `PROJECT.json`.

## Plan

1. Done: `ScanTileState`, `LookBack`, `LookBackStable`, `MultiWordLookBack`,
   `BatchScan`; `PhaseBarrier`, `PackedBarrier`, `CompletionBarrier`, with `Participants`,
   `BarrierClient` and `PackedWord`; `CachingDeviceAllocator`;
   `SemaphorePromise`, `Semaphore`; `RunLoop`; `StopSource`, `WhenAll`; proofs of every invariant, action property and refinement the runs check.
2. An abstract semaphore that both templates implement; one-sweep radix sort's
   look-back; `ReduceByKeyScanTileState`.
3. `NearestPowerOf` and `IntPow` in machine arithmetic, `GridEvenShare`.
