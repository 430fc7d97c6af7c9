----------------------- MODULE CachingDeviceAllocator -----------------------
(***************************************************************************)
(* cub::CachingDeviceAllocator: device memory that is freed goes into a    *)
(* cache of power-of-bin_growth sized blocks and is handed out again to    *)
(* the stream it was last used in at once, and to other streams once an    *)
(* event recorded at the time of the free has completed.                   *)
(*                                                                         *)
(* A step of a host thread is a critical section of the allocator's mutex  *)
(* together with what the thread does on its own around it.  Between the   *)
(* sections the CUDA runtime is called without the lock, and other threads *)
(* and the device go on.                                                   *)
(*                                                                         *)
(* The CUDA runtime and the device (external) are modelled as far as the   *)
(* allocator relies on them: allocated addresses, a current device per     *)
(* host thread, and one FIFO queue of kernels and recorded events per      *)
(* stream.  A runtime call of world.faulty may fail once, and at most      *)
(* MaxFaults calls fail in a behaviour.                                    *)
(*                                                                         *)
(* The client frees what it holds, once, and launches kernels on a block   *)
(* only in the stream it allocated the block for.                          *)
(***************************************************************************)
EXTENDS Integers, Sequences, FiniteSets, FiniteSetsExt

CONSTANTS
    Hosts, Devices, Streams,
    Ptrs, Events,           \* addresses and event handles of the runtime
    Null,                   \* nullptr
    HomeDevice,             \* each host thread's current device at the start
    Worlds,                 \* settings of the allocator, see WorldAssumption
    bin_growth, min_bin, max_bin,
    Capacity,               \* bytes of memory of a device
    MaxFaults               \* bound: failures in a behaviour

Calls == {"Malloc", "Free", "EventCreate", "EventRecord", "EventQuery", "EventDestroy", "SetDevice"}

ASSUME DevicesAssumption == Devices \subseteq Nat
ASSUME HandlesAssumption == Null \notin Ptrs \union Events /\ Ptrs \intersect Events = {}
ASSUME WorldAssumption ==
    \A w \in Worlds :
        /\ w.hosts \subseteq Hosts                      \* the threads that call it
        /\ w.stream_device \in [Streams -> Devices]    \* the device of each stream
        /\ w.sizes \subseteq Nat                       \* requested sizes
        /\ w.ceilings \subseteq Nat                    \* values of max_cached_bytes
        /\ w.faulty \subseteq Calls                    \* calls that may fail
        /\ w.work \in Nat              \* bound: kernels are launched into shorter queues
ASSUME BinAssumption ==
    bin_growth \in Nat \ {0, 1} /\ min_bin \in Nat /\ max_bin \in Nat /\ min_bin <= max_bin
ASSUME SizeAssumption ==
    HomeDevice \in [Hosts -> Devices] /\ Capacity \in Nat /\ MaxFaults \in Nat

VARIABLES
    world,                          \* the setting, which no step changes
    cached_blocks, live_blocks,     \* the multisets of block descriptors
    cached_bytes,                   \* [free, live] of each device
    max_cached_bytes,
    heap,                           \* runtime: allocated addresses
    queue,                          \* runtime: what each stream has yet to execute,
                                    \* kernels (the address they use) and events
    current_device,                 \* runtime: the current device of each host
    faults,                         \* history: the runtime calls that have failed
    pc,                             \* where each host thread is
    search_key, entrypoint_device,  \* locals of the host's call
    error,                          \* what its last call returned
    held                            \* client: pointers it got and has not freed

allocator == <<cached_blocks, live_blocks, cached_bytes, max_cached_bytes>>
locals == <<pc, search_key, entrypoint_device, error>>
vars == <<cached_blocks, live_blocks, cached_bytes, max_cached_bytes, heap, queue, current_device, faults,
          pc, search_key, entrypoint_device, error, held, world>>

INVALID_BIN == -1
INVALID_DEVICE_ORDINAL == -1

BlockDescriptor(bytes, bin, d, s) ==
    [d_ptr |-> Null, bytes |-> bytes, bin |-> bin, device |-> d,
     associated_stream |-> s, ready_event |-> Null]

Init ==
    /\ world \in Worlds
    /\ cached_blocks = {} /\ live_blocks = {}
    /\ cached_bytes = [d \in Devices |-> [free |-> 0, live |-> 0]]
    /\ max_cached_bytes \in world.ceilings
    /\ heap = {}
    /\ queue = [s \in Streams |-> <<>>]
    /\ current_device = HomeDevice
    /\ faults = {}
    /\ pc = [h \in Hosts |-> "idle"]
    /\ search_key = [h \in Hosts |-> Null]
    /\ entrypoint_device = [h \in Hosts |-> INVALID_DEVICE_ORDINAL]
    /\ error = [h \in Hosts |-> "cudaSuccess"]
    /\ held = {}

\* Hosts that own a block outside the allocator's sets: one that is about to
\* become live, or that has been taken out to be released.
Carrying == {h \in Hosts : pc[h] \in {"insert", "release"}}

Blocks == cached_blocks \union live_blocks \union {search_key[h] : h \in Carrying}

-----------------------------------------------------------------------------
(* The CUDA runtime.                                                       *)

HeapPtrs == {a.ptr : a \in heap}

\* The bytes of a set of blocks, one pair for each.
Bytes(blocks) == Cardinality(UNION {{b} \X (1 .. b.bytes) : b \in blocks})

\* cudaMalloc fails with cudaErrorMemoryAllocation unless there is room.
Room(k) ==
    /\ Bytes({a \in heap : a.device = k.device}) + k.bytes <= Capacity
    /\ Ptrs \ HeapPtrs # {}

\* cudaFree refuses an address that is not allocated.
Freeable(b) == b.d_ptr \in HeapPtrs \union {Null}

\* cudaFree waits for everything that executes on the device.
Synchronize(devices) ==
    queue' = [s \in Streams |-> IF world.stream_device[s] \in devices THEN <<>> ELSE queue[s]]

Queued(s) == {queue[s][i] : i \in DOMAIN queue[s]}

\* A stream without the i-th of its operations.
Removed(q, i) == [j \in 1 .. Len(q) - 1 |-> IF j < i THEN q[j] ELSE q[j + 1]]

\* cudaEventQuery: the last record of the event has been executed.
Ready(e) == \A s \in Streams : e \notin Queued(s)

\* cudaEventRecord: only the last record of an event counts, whichever stream
\* the one before was made in.
Record(s, e) ==
    \/ /\ Ready(e)
       /\ queue' = [queue EXCEPT ![s] = Append(@, e)]
    \/ \E t \in Streams : \E i \in DOMAIN queue[t] :
         /\ queue[t][i] = e
         /\ queue' = [[queue EXCEPT ![t] = Removed(@, i)] EXCEPT ![s] = Append(@, e)]

Works == UNCHANGED faults

Fails(call) ==
    /\ call \in world.faulty \ faults
    /\ Cardinality(faults) < MaxFaults
    /\ faults' = faults \union {call}

\* The client launches a kernel on a block it holds ...
Launch(b) ==
    /\ b.d_ptr \in held
    /\ Len(queue[b.associated_stream]) < world.work
    /\ queue' = [queue EXCEPT ![b.associated_stream] = Append(@, b.d_ptr)]
    /\ UNCHANGED <<allocator, heap, current_device, faults, locals, held>>

\* ... and the device executes what has been submitted to a stream, in order.
Execute(s) ==
    /\ queue[s] # <<>>
    /\ queue' = [queue EXCEPT ![s] = Tail(@)]
    /\ UNCHANGED <<allocator, heap, current_device, faults, locals, held>>

-----------------------------------------------------------------------------
Goto(h, l) == pc' = [pc EXCEPT ![h] = l] /\ UNCHANGED error

\* The call's locals go out of scope.
Return(h, e) ==
    /\ pc' = [pc EXCEPT ![h] = "idle"]
    /\ error' = [error EXCEPT ![h] = e]
    /\ search_key' = [search_key EXCEPT ![h] = Null]
    /\ entrypoint_device' = [entrypoint_device EXCEPT ![h] = INVALID_DEVICE_ORDINAL]

Use(h, k, d) ==
    /\ search_key' = [search_key EXCEPT ![h] = k]
    /\ entrypoint_device' = [entrypoint_device EXCEPT ![h] = current_device[h]]
    /\ current_device' = [current_device EXCEPT ![h] = d]

Revert(h) == current_device' = [current_device EXCEPT ![h] = entrypoint_device[h]]

Account(d, free, live) ==
    cached_bytes' = [cached_bytes EXCEPT ![d] = [free |-> @.free + free, live |-> @.live + live]]

NearestPowerOf(value) ==
    CHOOSE k \in 0 .. value : bin_growth ^ k >= value /\ \A j \in 0 .. k - 1 : bin_growth ^ j < value

\* Powers of bin_growth are sizes, and one of them reaches every request.
ASSUME PowersAssumption ==
    /\ \A k \in min_bin .. max_bin : bin_growth ^ k \in Nat
    /\ \A w \in Worlds : \A n \in w.sizes :
         /\ \A k \in 0 .. n : bin_growth ^ k \in Nat
         /\ \E k \in 0 .. n : bin_growth ^ k >= n

\* The bin of a request: sizes below the smallest bin are rounded up to it,
\* those above the largest are allocated exactly and never cached.
SearchKey(d, bytes, s) ==
    LET power == NearestPowerOf(bytes)
        bin   == IF power < min_bin THEN min_bin ELSE power
    IN  IF power > max_bin THEN BlockDescriptor(bytes, INVALID_BIN, d, s)
        ELSE BlockDescriptor(bin_growth ^ bin, bin, d, s)

\* The range of cached blocks that the search goes through.
SameBin(k) == {b \in cached_blocks : b.device = k.device /\ b.bin = k.bin}

Reusable_any_stream(k) == SameBin(k)

\* Those from the active stream or from one that is idle.
Reusable(k) ==
    {b \in SameBin(k) : b.associated_stream = k.associated_stream \/ Ready(b.ready_event)}

\* is_reusable: the search takes b.  The event of another stream's block is
\* queried, and every answer but cudaErrorNotReady, errors included, makes the
\* block reusable.
Takes(k, b) ==
    \/ b \in Reusable(k) /\ Works
    \/ b.associated_stream # k.associated_stream /\ Fails("EventQuery")

TakeCached_not_erased(k, b) ==
    /\ live_blocks' = live_blocks \union {[b EXCEPT !.associated_stream = k.associated_stream]}
    /\ Account(k.device, -b.bytes, b.bytes)
    /\ UNCHANGED cached_blocks

TakeCached(k, b) ==
    /\ cached_blocks' = cached_blocks \ {b}
    /\ live_blocks' = live_blocks \union {[b EXCEPT !.associated_stream = k.associated_stream]}
    /\ Account(k.device, -b.bytes, b.bytes)

\* DeviceAllocate that finds a block in the cache.  The search queries the
\* events one by one while the device goes on, so it may pass over a block
\* that becomes reusable meanwhile: any reusable block may be the one.
AllocateCached(h, d, bytes, s) ==
    LET k == SearchKey(d, bytes, s) IN
    /\ pc[h] = "idle"
    /\ k.bin # INVALID_BIN
    /\ \E b \in SameBin(k) : Takes(k, b) /\ TakeCached(k, b) /\ held' = held \union {b.d_ptr}
    /\ Return(h, "cudaSuccess")
    /\ UNCHANGED <<max_cached_bytes, heap, queue, current_device>>

\* DeviceAllocate that finds none and switches to the device of the request.
AllocateNew(h, d, bytes, s) ==
    LET k == SearchKey(d, bytes, s) IN
    /\ pc[h] = "idle"
    /\ k.bin = INVALID_BIN \/ Reusable(k) = {}
    /\ \/ Works /\ Use(h, k, d) /\ Goto(h, "malloc")
       \/ Fails("SetDevice") /\ Return(h, "cudaErrorUnknown") /\ UNCHANGED current_device
    /\ UNCHANGED <<allocator, heap, queue, held>>

UsedEvents ==
    {b.ready_event : b \in Blocks} \union UNION {Queued(s) : s \in Streams}

\* cudaEventCreateWithFlags for the new block, whose address is p.
CreateEvent(h, p) ==
    \/ /\ Works /\ Goto(h, "insert")
       /\ \E e \in Events \ UsedEvents :
            search_key' = [search_key EXCEPT ![h] = [@ EXCEPT !.d_ptr = p, !.ready_event = e]]
       /\ UNCHANGED entrypoint_device
    \/ Fails("EventCreate") /\ Return(h, "cudaErrorUnknown")

\* A successful cudaMalloc, and the creation of the block's event.
Malloced(h) ==
    LET k == search_key[h] IN
    /\ Room(k)
    /\ \E p \in Ptrs \ HeapPtrs :
         /\ heap' = heap \union {[ptr |-> p, device |-> k.device, bytes |-> k.bytes]}
         /\ CreateEvent(h, p)

\* An error of cudaMalloc other than cudaErrorMemoryAllocation.
FailsThenCreatesEvent(h) ==
    /\ Fails("Malloc") /\ Goto(h, "insert")
    /\ \E e \in Events \ UsedEvents : search_key' = [search_key EXCEPT ![h] = [@ EXCEPT !.ready_event = e]]
    /\ UNCHANGED entrypoint_device

\* The first cudaMalloc.  Only cudaErrorMemoryAllocation is treated as a
\* failure; after any other error the call goes on with the null pointer.
Malloc(h) ==
    /\ pc[h] = "malloc"
    /\ \/ Malloced(h)
       \/ /\ ~Room(search_key[h]) /\ Works /\ Goto(h, "free_cached")
          /\ UNCHANGED <<heap, search_key, entrypoint_device>>
       \/ FailsThenCreatesEvent(h) /\ UNCHANGED heap
    /\ UNCHANGED <<allocator, queue, current_device, held>>

SizeCompare(a, b) == a.device < b.device \/ (a.device = b.device /\ a.bytes < b.bytes)

FreeCached_erases_only(freed, gone) ==
    /\ cached_blocks' = cached_blocks \ freed
    /\ cached_bytes' =
         [d \in Devices |->
            [cached_bytes[d] EXCEPT !.free = @ - Bytes({b \in freed : b.device = d})]]
    /\ Synchronize({b.device : b \in gone})
    /\ UNCHANGED heap

FreeCached_keeps_books(freed, gone) ==
    /\ heap' = {a \in heap : a.ptr \notin {b.d_ptr : b \in gone}}
    /\ cached_blocks' = cached_blocks \ freed
    /\ UNCHANGED cached_bytes
    /\ Synchronize({b.device : b \in gone})

\* The blocks in freed leave the cache, the memory of those in gone is freed.
FreeCached(freed, gone) ==
    /\ heap' = {a \in heap : a.ptr \notin {b.d_ptr : b \in gone}}
    /\ cached_blocks' = cached_blocks \ freed
    /\ cached_bytes' =
         [d \in Devices |->
            [cached_bytes[d] EXCEPT !.free = @ - Bytes({b \in freed : b.device = d})]]
    /\ Synchronize({b.device : b \in gone})

\* The loops over cached blocks stop at the first block b that cannot be
\* freed, or whose event cannot be destroyed after its memory was freed, or, if
\* the loop switches devices, for which the device cannot be set.
FreeCachedUpTo(blocks, b, switches) ==
    \E freed \in SUBSET (blocks \ {b}) :
        /\ \A c \in blocks : SizeCompare(c, b) => c \in freed
        /\ \A c \in freed : Freeable(c) /\ ~SizeCompare(b, c)
        /\ \/ ~Freeable(b) /\ Works /\ FreeCached(freed, freed)
           \/ Fails("Free") /\ FreeCached(freed, freed)
           \/ /\ switches /\ \A c \in freed : c.device # b.device
              /\ Fails("SetDevice") /\ FreeCached(freed, freed)
           \/ Freeable(b) /\ Fails("EventDestroy") /\ FreeCached(freed, freed \union {b})

\* The allocation failed: free all cached blocks of the device.
FreeDeviceCache(h) ==
    LET blocks == {b \in cached_blocks : b.device = search_key[h].device} IN
    /\ pc[h] = "free_cached"
    /\ \/ /\ \A b \in blocks : Freeable(b)
          /\ Works /\ FreeCached(blocks, blocks) /\ Goto(h, "malloc_again")
          /\ UNCHANGED <<search_key, entrypoint_device>>
       \/ (\E b \in blocks : FreeCachedUpTo(blocks, b, FALSE)) /\ Return(h, "cudaErrorUnknown")
    /\ UNCHANGED <<live_blocks, max_cached_bytes, current_device, held>>

\* The second cudaMalloc; a failure is returned to the caller as it is.
MallocAgain(h) ==
    /\ pc[h] = "malloc_again"
    /\ \/ Malloced(h)
       \/ /\ ~Room(search_key[h]) /\ Works /\ Return(h, "cudaErrorMemoryAllocation")
          /\ UNCHANGED heap
       \/ Fails("Malloc") /\ Return(h, "cudaErrorUnknown") /\ UNCHANGED heap
    /\ UNCHANGED <<allocator, queue, current_device, held>>

\* The new block becomes live, and the host goes back to its device.
InsertLive(h) ==
    LET k == search_key[h] IN
    /\ pc[h] = "insert"
    /\ live_blocks' = live_blocks \union {k}
    /\ Account(k.device, 0, k.bytes)
    /\ \/ Works /\ Revert(h) /\ held' = held \union {k.d_ptr} /\ Return(h, "cudaSuccess")
       \/ /\ entrypoint_device[h] # k.device
          /\ Fails("SetDevice") /\ Return(h, "cudaErrorUnknown")
          /\ UNCHANGED <<current_device, held>>
    /\ UNCHANGED <<cached_blocks, max_cached_bytes, heap, queue>>

-----------------------------------------------------------------------------
Cacheable_any_size(b) == b.bin # INVALID_BIN

Cacheable(b) ==
    b.bin # INVALID_BIN /\ cached_bytes[b.device].free + b.bytes <= max_cached_bytes

\* The event is recorded before the block is published in the cache.
Recache(b) ==
    /\ Record(b.associated_stream, b.ready_event)
    /\ live_blocks' = live_blocks \ {b}
    /\ cached_blocks' = cached_blocks \union {b}
    /\ Account(b.device, b.bytes, -b.bytes)
    /\ held' = held \ {b.d_ptr}

\* DeviceFree that returns a block to the cache.  If the event cannot be
\* recorded the block stays live; if the device cannot be reverted the block
\* is cached all the same.
FreeToCache(h, b) ==
    /\ pc[h] = "idle"
    /\ b.d_ptr \in held
    /\ Cacheable(b)
    /\ \/ Works /\ Recache(b) /\ Return(h, "cudaSuccess") /\ UNCHANGED current_device
       \/ /\ Fails("EventRecord") \/ Fails("SetDevice")
          /\ Return(h, "cudaErrorUnknown")
          /\ UNCHANGED <<live_blocks, cached_blocks, cached_bytes, queue, held, current_device>>
       \/ /\ b.device # current_device[h] /\ Fails("SetDevice")
          /\ Recache(b) /\ Return(h, "cudaErrorUnknown")
          /\ current_device' = [current_device EXCEPT ![h] = b.device]
    /\ UNCHANGED <<max_cached_bytes, heap>>

\* DeviceFree of a block that is not to be cached: it leaves live_blocks
\* within the critical section ...
FreeUncached(h, b) ==
    /\ pc[h] = "idle"
    /\ b.d_ptr \in held
    /\ ~Cacheable(b)
    /\ \/ /\ Works /\ Use(h, b, b.device) /\ Goto(h, "release")
          /\ live_blocks' = live_blocks \ {b}
          /\ Account(b.device, 0, -b.bytes)
          /\ held' = held \ {b.d_ptr}
       \/ /\ Fails("SetDevice") /\ Return(h, "cudaErrorUnknown")
          /\ UNCHANGED <<live_blocks, cached_bytes, held, current_device>>
    /\ UNCHANGED <<cached_blocks, max_cached_bytes, heap, queue>>

\* ... and its memory is freed after the lock has been released.
Release(h) ==
    LET k == search_key[h] IN
    /\ pc[h] = "release"
    /\ \/ /\ (~Freeable(k) /\ Works) \/ Fails("Free")
          /\ Return(h, "cudaErrorUnknown")
          /\ UNCHANGED <<heap, queue, current_device>>
       \/ /\ Freeable(k)
          /\ heap' = {a \in heap : a.ptr # k.d_ptr}
          /\ Synchronize({k.device})
          /\ \/ Works /\ Revert(h) /\ Return(h, "cudaSuccess")
             \/ /\ Fails("EventDestroy") \/ (entrypoint_device[h] # k.device /\ Fails("SetDevice"))
                /\ Return(h, "cudaErrorUnknown")
                /\ UNCHANGED current_device
    /\ UNCHANGED <<allocator, held>>

-----------------------------------------------------------------------------
\* The device is reverted after the loop, and the result of that call is what
\* FreeAllCached returns, whatever stopped the loop.
FreeAllCached(h) ==
    /\ pc[h] = "idle"
    /\ \/ /\ \A b \in cached_blocks : Freeable(b)
          /\ FreeCached(cached_blocks, cached_blocks)
          /\ \/ Works /\ Return(h, "cudaSuccess") /\ UNCHANGED current_device
             \/ /\ cached_blocks # {} /\ Fails("SetDevice") /\ Return(h, "cudaErrorUnknown")
                /\ current_device' =
                     [current_device EXCEPT ![h] = Max({b.device : b \in cached_blocks})]
       \/ /\ \E b \in cached_blocks : FreeCachedUpTo(cached_blocks, b, TRUE)
          /\ Return(h, "cudaSuccess") /\ UNCHANGED current_device
    /\ UNCHANGED <<live_blocks, max_cached_bytes, held>>

SetMaxCachedBytes(h, n) ==
    /\ pc[h] = "idle"
    /\ max_cached_bytes' = n
    /\ Return(h, "cudaSuccess")
    /\ UNCHANGED <<cached_blocks, live_blocks, cached_bytes, heap, queue, current_device, faults, held>>

Host(h) ==
    \/ \E s \in Streams, n \in world.sizes :
         AllocateCached(h, world.stream_device[s], n, s) \/ AllocateNew(h, world.stream_device[s], n, s)
    \/ Malloc(h) \/ FreeDeviceCache(h) \/ MallocAgain(h) \/ InsertLive(h)
    \/ \E b \in live_blocks : FreeToCache(h, b) \/ FreeUncached(h, b)
    \/ Release(h)
    \/ FreeAllCached(h)
    \/ \E n \in world.ceilings : SetMaxCachedBytes(h, n)

Next ==
    /\ \/ \E h \in world.hosts : Host(h)
       \/ \E b \in live_blocks : Launch(b)
       \/ \E s \in Streams : Execute(s)
    /\ UNCHANGED world

Spec == Init /\ [][Next]_vars

-----------------------------------------------------------------------------
(* Properties.                                                             *)

\* "The allocator is thread-safe": every block is memory of its size on its
\* device, no memory has two owners (it is live once, or cached once, or in the
\* hands of one host between two critical sections), and what the client holds
\* is live.  Two failures are not survived: of an event's destruction, which
\* leaves a freed block in the cache, and of cudaMalloc for another reason
\* than lack of memory, which makes a null block live.
OneOwner ==
    faults \intersect {"EventDestroy", "Malloc"} = {} =>
        /\ \A b \in Blocks : [ptr |-> b.d_ptr, device |-> b.device, bytes |-> b.bytes] \in heap
        /\ \A b, c \in Blocks : b.d_ptr = c.d_ptr => b = c
        /\ cached_blocks \intersect live_blocks = {}
        /\ \A h \in Carrying :
             /\ search_key[h] \notin cached_blocks \union live_blocks
             /\ \A g \in Carrying : search_key[g] = search_key[h] => g = h
        /\ held \subseteq {b.d_ptr : b \in live_blocks}

\* No device memory is lost: what the runtime has allocated is known to the
\* allocator or to the host that is dealing with it, whatever failed, but for
\* the block whose event could not be created and the one, already out of the
\* books, that could not be freed.
NoLeak ==
    faults \intersect {"EventCreate", "Free"} = {} =>
        \A a \in heap : \E b \in Blocks : b.d_ptr = a.ptr

\* "... and stream-safe": a kernel that has yet to execute finds its memory
\* owned by the kernel's own stream, never handed to another stream or freed.
\* Two failures are not survived: of an event's destruction, which leaves a
\* freed block in the cache, and of an event's query, which the search takes
\* for the answer that the block's stream is idle.
StreamSafe ==
    faults \intersect {"EventDestroy", "EventQuery"} = {} =>
        \A s \in Streams : \A p \in Queued(s) \intersect Ptrs :
            /\ p \in HeapPtrs
            /\ \A b \in Blocks : b.d_ptr = p => b.associated_stream = s

\* The books are those of the two sets, on every path through the calls and
\* after every failure.
BooksBalance ==
    \A d \in Devices :
        /\ cached_bytes[d].free = Bytes({b \in cached_blocks : b.device = d})
        /\ cached_bytes[d].live = Bytes({b \in live_blocks : b.device = d})

\* The cache of a device never grows beyond the ceiling in force, even when
\* the ceiling has been lowered below what is cached.
CeilingRespected ==
    [][\A d \in Devices :
         cached_bytes'[d].free > cached_bytes[d].free =>
            Bytes({b \in cached_blocks' : b.device = d}) <= max_cached_bytes]_vars

-----------------------------------------------------------------------------
(* Why the allocator is right: the inductive invariant.                    *)

BlockDescriptors ==
    [d_ptr : Ptrs \union {Null}, bytes : Nat, bin : Int, device : Devices,
     associated_stream : Streams, ready_event : Events \union {Null}]

\* The hosts' current devices are left out: nothing below depends on them.
TypeOK ==
    /\ world \in Worlds
    /\ cached_blocks \subseteq BlockDescriptors /\ IsFiniteSet(cached_blocks)
    /\ live_blocks \subseteq BlockDescriptors /\ IsFiniteSet(live_blocks)
    /\ cached_bytes \in [Devices -> [free : Int, live : Int]]
    /\ max_cached_bytes \in Nat
    /\ heap \subseteq [ptr : Ptrs, device : Devices, bytes : Nat]
    /\ queue \in [Streams -> Seq(Ptrs \union Events \union {Null})]
    /\ faults \subseteq Calls
    /\ pc \in [Hosts -> {"idle", "malloc", "free_cached", "malloc_again", "insert", "release"}]
    /\ search_key \in [Hosts -> BlockDescriptors \union {Null}]
    /\ held \subseteq Ptrs \union {Null}

\* A host that has yet to get memory has no address for it.
Requesting ==
    \A h \in Hosts : pc[h] \in {"malloc", "free_cached", "malloc_again"} =>
        /\ search_key[h] \in BlockDescriptors
        /\ search_key[h].d_ptr = Null
        /\ search_key[h].device = world.stream_device[search_key[h].associated_stream]

\* Every block is in one place, and its event tells it from the others,
\* whatever has failed.
OnePlace ==
    /\ \A b \in Blocks :
         /\ b \in BlockDescriptors
         /\ b.ready_event \in Events
         /\ b.device = world.stream_device[b.associated_stream]
         /\ \A c \in Blocks : c.ready_event = b.ready_event => c = b
    /\ cached_blocks \intersect live_blocks = {}
    /\ \A h \in Carrying :
         /\ search_key[h] \notin cached_blocks \union live_blocks
         /\ \A g \in Carrying : search_key[g] = search_key[h] => g = h

\* Blocks are memory of their own, and what the client holds is live.
OwnMemory ==
    "EventDestroy" \notin faults =>
        /\ \A b \in Blocks : b.d_ptr # Null =>
             /\ [ptr |-> b.d_ptr, device |-> b.device, bytes |-> b.bytes] \in heap
             /\ \A c \in Blocks : c.d_ptr = b.d_ptr => c = b
        /\ held \subseteq {b.d_ptr : b \in live_blocks} \union {Null}

NullMemory == "Malloc" \notin faults => Null \notin held \union {b.d_ptr : b \in Blocks}

\* Every use of x in a queue is followed by the event e.
Followed(q, x, e) == \A i \in DOMAIN q : q[i] = x => \E j \in DOMAIN q : i < j /\ q[j] = e

\* The event of a cached block comes after the kernels that use the block.
EventsFollow ==
    faults \intersect {"EventDestroy", "EventQuery"} = {} =>
        \A b \in cached_blocks : b.d_ptr # Null =>
            \A s \in Streams : Followed(queue[s], b.d_ptr, b.ready_event)

IInv ==
    /\ TypeOK
    /\ Requesting
    /\ OnePlace
    /\ OwnMemory
    /\ NullMemory
    /\ StreamSafe
    /\ EventsFollow
    /\ NoLeak
    /\ BooksBalance

-----------------------------------------------------------------------------
\* "Attempt to revert back to previous device if necessary": a call leaves the
\* host's current device as it found it.  A request that finally fails for
\* lack of memory on another device does not.
DeviceReverted == \A h \in Hosts : pc[h] = "idle" => current_device[h] = HomeDevice[h]
=============================================================================
