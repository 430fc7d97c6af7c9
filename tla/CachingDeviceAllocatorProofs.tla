-------------------- MODULE CachingDeviceAllocatorProofs --------------------
(***************************************************************************)
(* The caching allocator hands no memory to two owners, loses none, keeps  *)
(* its books and its ceiling and is safe across streams, for every number  *)
(* of host threads, devices, streams, addresses, sizes and failures; each  *)
(* property names the failures that it does not survive.                   *)
(***************************************************************************)
EXTENDS CachingDeviceAllocator, FiniteSetTheorems, SequenceTheorems,
        WellFoundedInduction, TLAPS

-----------------------------------------------------------------------------
(* Adding up bytes.                                                        *)

\* The bytes of finitely many blocks are finitely many.
LEMMA BytesType ==
    ASSUME NEW S, IsFiniteSet(S), \A b \in S : b.bytes \in Nat
    PROVE  IsFiniteSet(UNION {{b} \X (1 .. b.bytes) : b \in S}) /\ Bytes(S) \in Nat
<1> DEFINE own(b) == {b} \X (1 .. b.bytes)
           parts == {own(b) : b \in S}
<1>1. IsFiniteSet(parts)
  <2>1. [b \in S |-> own(b)] \in Surjection(S, parts)
    BY DEF Surjection
  <2> QED
    BY <2>1, FS_Surjection
<1>2. ASSUME NEW b \in S PROVE IsFiniteSet(own(b))
  <2>0. 1 \in Int /\ b.bytes \in Int
    OBVIOUS
  <2>1. IsFiniteSet({b}) /\ IsFiniteSet(1 .. b.bytes)
    BY <2>0, FS_Singleton, FS_Interval
  <2> QED
    BY <2>1, FS_Product
<1>3. IsFiniteSet(UNION parts)
  BY <1>1, <1>2, FS_UNION
<1> QED
  BY <1>3, FS_CardinalityType DEF Bytes

\* A block has its bytes.
LEMMA BytesOne ==
    ASSUME NEW b, b.bytes \in Nat
    PROVE  Bytes({b}) = b.bytes
<1>1. UNION {{c} \X (1 .. c.bytes) : c \in {b}} = {b} \X (1 .. b.bytes)
  OBVIOUS
<1>2. IsFiniteSet({b}) /\ Cardinality({b}) = 1
  BY FS_Singleton
<1>3. IsFiniteSet(1 .. b.bytes) /\ Cardinality(1 .. b.bytes) = b.bytes
  BY FS_Interval
<1>4. Cardinality({b} \X (1 .. b.bytes)) = Cardinality({b}) * Cardinality(1 .. b.bytes)
  BY <1>2, <1>3, FS_Product
<1>5. 1 * b.bytes = b.bytes
  OBVIOUS
<1> QED
  BY <1>1, <1>2, <1>3, <1>4, <1>5 DEF Bytes

\* The bytes of disjoint sets add up.
LEMMA BytesUnion ==
    ASSUME NEW S, NEW T, IsFiniteSet(S), IsFiniteSet(T), S \intersect T = {},
           \A b \in S \union T : b.bytes \in Nat
    PROVE  Bytes(S \union T) = Bytes(S) + Bytes(T)
<1> DEFINE A == UNION {{b} \X (1 .. b.bytes) : b \in S}
           B == UNION {{b} \X (1 .. b.bytes) : b \in T}
<1>1. IsFiniteSet(A) /\ IsFiniteSet(B) /\ Bytes(S) \in Nat /\ Bytes(T) \in Nat
  BY BytesType
<1>2. A \intersect B = {}
  OBVIOUS
<1>3. UNION {{b} \X (1 .. b.bytes) : b \in S \union T} = A \union B
  OBVIOUS
<1>4. Bytes(S \union T) = Cardinality(A \union B) /\ Bytes(S) = Cardinality(A) /\ Bytes(T) = Cardinality(B)
  BY <1>3 DEF Bytes
<1> HIDE DEF A, B
<1>5. Cardinality(A \union B) = Cardinality(A) + Cardinality(B) - Cardinality(A \intersect B)
  BY <1>1, FS_Union
<1>6. Cardinality(A \intersect B) = 0
  BY <1>2, FS_EmptySet
<1>7. Bytes(S \union T) = Bytes(S) + Bytes(T) - 0
  BY <1>4, <1>5, <1>6
<1> QED
  BY <1>1, <1>7

\* What is taken out of a set takes its bytes along.
LEMMA BytesWithout ==
    ASSUME NEW S, NEW T \in SUBSET S, IsFiniteSet(S), \A b \in S : b.bytes \in Nat
    PROVE  /\ Bytes(S \ T) = Bytes(S) - Bytes(T)
           /\ Bytes(S \ T) \in Nat /\ Bytes(S) \in Nat /\ Bytes(T) \in Nat
<1>1. IsFiniteSet(T) /\ IsFiniteSet(S \ T)
  <2>1. S \ T \in SUBSET S
    OBVIOUS
  <2> QED
    BY <2>1, FS_Subset
<1>2. Bytes(T) \in Nat /\ Bytes(S \ T) \in Nat /\ Bytes(S) \in Nat
  BY <1>1, BytesType
<1>3. Bytes((S \ T) \union T) = Bytes(S \ T) + Bytes(T)
  <2>1. (S \ T) \intersect T = {}
    OBVIOUS
  <2> QED
    BY <1>1, <2>1, BytesUnion
<1>4. (S \ T) \union T = S
  OBVIOUS
<1> QED
  BY <1>2, <1>3, <1>4

-----------------------------------------------------------------------------
(* Queues.                                                                 *)

Item == Ptrs \union Events \union {Null}

\* Submitting an item to a stream.
LEMMA QueueAppend ==
    ASSUME NEW q \in Seq(Item), NEW x \in Item
    PROVE  /\ Append(q, x) \in Seq(Item)
           /\ Len(q) \in Nat /\ DOMAIN q = 1 .. Len(q)
           /\ DOMAIN Append(q, x) = 1 .. Len(q) + 1
           /\ \A i \in 1 .. Len(q) : Append(q, x)[i] = q[i]
           /\ Append(q, x)[Len(q) + 1] = x
OBVIOUS

\* Executing the first item of a stream.
LEMMA QueueTail ==
    ASSUME NEW q \in Seq(Item), q # <<>>
    PROVE  /\ Tail(q) \in Seq(Item)
           /\ Len(q) \in Nat \ {0} /\ DOMAIN q = 1 .. Len(q)
           /\ DOMAIN Tail(q) = 1 .. Len(q) - 1
           /\ \A i \in 1 .. Len(q) - 1 : Tail(q)[i] = q[i + 1]
OBVIOUS

\* Forgetting an earlier record of an event.
LEMMA QueueRemoved ==
    ASSUME NEW q \in Seq(Item), NEW i \in DOMAIN q
    PROVE  /\ Removed(q, i) \in Seq(Item)
           /\ Len(q) \in Nat \ {0} /\ DOMAIN q = 1 .. Len(q)
           /\ Len(Removed(q, i)) = Len(q) - 1
           /\ \A j \in 1 .. Len(q) - 1 : Removed(q, i)[j] = IF j < i THEN q[j] ELSE q[j + 1]
<1>1. Len(q) \in Nat \ {0} /\ DOMAIN q = 1 .. Len(q) /\ Len(q) - 1 \in Nat
  OBVIOUS
<1>2. Removed(q, i) \in [1 .. Len(q) - 1 -> Item]
  BY <1>1 DEF Removed
<1>3. Removed(q, i) \in Seq(Item)
  BY <1>1, <1>2, SeqDef
<1>4. Len(Removed(q, i)) = Len(q) - 1
  <2>1. DOMAIN Removed(q, i) = 1 .. Len(Removed(q, i)) /\ Len(Removed(q, i)) \in Nat
    BY <1>3, LenProperties
  <2>2. DOMAIN Removed(q, i) = 1 .. Len(q) - 1
    BY DEF Removed
  <2>3. ASSUME NEW m \in Nat, NEW n \in Nat, 1 .. m = 1 .. n
        PROVE  m = n
    <3>1. m <= n
      <4>1. m = 0 \/ m \in 1 .. n
        BY <2>3
      <4> QED
        BY <4>1
    <3>2. n <= m
      <4>1. n = 0 \/ n \in 1 .. m
        BY <2>3
      <4> QED
        BY <4>1
    <3> QED
      BY <3>1, <3>2
  <2> QED
    BY <1>1, <2>1, <2>2, <2>3
<1> QED
  BY <1>1, <1>3, <1>4 DEF Removed

\* The items of a queue.
Items(q) == {q[i] : i \in DOMAIN q}

LEMMA ItemsAppend ==
    ASSUME NEW q \in Seq(Item), NEW x \in Item
    PROVE  Items(Append(q, x)) = Items(q) \union {x}
<1>1. /\ Len(q) \in Nat /\ DOMAIN q = 1 .. Len(q) /\ DOMAIN Append(q, x) = 1 .. Len(q) + 1
      /\ \A i \in 1 .. Len(q) : Append(q, x)[i] = q[i]
      /\ Append(q, x)[Len(q) + 1] = x
  BY QueueAppend
<1>2. ASSUME NEW y \in Items(Append(q, x)) PROVE y \in Items(q) \union {x}
  <2>1. PICK i \in 1 .. Len(q) + 1 : Append(q, x)[i] = y
    BY <1>1 DEF Items
  <2>2. i \in 1 .. Len(q) \/ i = Len(q) + 1
    BY <1>1
  <2> QED
    BY <1>1, <2>1, <2>2 DEF Items
<1>3. ASSUME NEW y \in Items(q) PROVE y \in Items(Append(q, x))
  <2>1. PICK i \in 1 .. Len(q) : q[i] = y
    BY <1>1 DEF Items
  <2>2. i \in 1 .. Len(q) + 1 /\ Append(q, x)[i] = y
    BY <1>1, <2>1
  <2> QED
    BY <1>1, <2>2 DEF Items
<1>4. x \in Items(Append(q, x))
  <2>1. Len(q) + 1 \in 1 .. Len(q) + 1
    BY <1>1
  <2> QED
    BY <1>1, <2>1 DEF Items
<1> QED
  BY <1>2, <1>3, <1>4

LEMMA ItemsTail ==
    ASSUME NEW q \in Seq(Item), q # <<>>
    PROVE  Items(Tail(q)) \subseteq Items(q)
<1>1. /\ Len(q) \in Nat \ {0} /\ DOMAIN q = 1 .. Len(q) /\ DOMAIN Tail(q) = 1 .. Len(q) - 1
      /\ \A i \in 1 .. Len(q) - 1 : Tail(q)[i] = q[i + 1]
  BY QueueTail
<1>2. ASSUME NEW i \in 1 .. Len(q) - 1 PROVE Tail(q)[i] = q[i + 1] /\ i + 1 \in DOMAIN q
  BY <1>1
<1> QED
  BY <1>1, <1>2 DEF Items

LEMMA ItemsRemoved ==
    ASSUME NEW q \in Seq(Item), NEW i \in DOMAIN q
    PROVE  Items(Removed(q, i)) \subseteq Items(q)
<1>1. /\ Removed(q, i) \in Seq(Item)
      /\ Len(q) \in Nat \ {0} /\ DOMAIN q = 1 .. Len(q)
      /\ Len(Removed(q, i)) = Len(q) - 1
      /\ \A j \in 1 .. Len(q) - 1 : Removed(q, i)[j] = IF j < i THEN q[j] ELSE q[j + 1]
  BY QueueRemoved
<1>2. DOMAIN Removed(q, i) = 1 .. Len(q) - 1
  BY <1>1, LenProperties
<1>3. ASSUME NEW j \in 1 .. Len(q) - 1
      PROVE  \E m \in DOMAIN q : Removed(q, i)[j] = q[m]
  <2>1. j \in DOMAIN q /\ j + 1 \in DOMAIN q
    BY <1>1
  <2>2. Removed(q, i)[j] = q[j] \/ Removed(q, i)[j] = q[j + 1]
    BY <1>1
  <2> QED
    BY <2>1, <2>2
<1> QED
  BY <1>2, <1>3 DEF Items

\* What a stream executes or is given does not put a kernel behind the event
\* it was followed by, ...
LEMMA FollowedTail ==
    ASSUME NEW q \in Seq(Item), q # <<>>, NEW x, NEW e, Followed(q, x, e)
    PROVE  Followed(Tail(q), x, e)
<1>1. /\ Len(q) \in Nat \ {0} /\ DOMAIN q = 1 .. Len(q) /\ DOMAIN Tail(q) = 1 .. Len(q) - 1
      /\ \A i \in 1 .. Len(q) - 1 : Tail(q)[i] = q[i + 1]
  BY QueueTail
<1>2. ASSUME NEW i \in 1 .. Len(q) - 1, Tail(q)[i] = x
      PROVE  \E j \in 1 .. Len(q) - 1 : i < j /\ Tail(q)[j] = e
  <2>1. i + 1 \in 1 .. Len(q) /\ q[i + 1] = x
    BY <1>1, <1>2
  <2>2. PICK m \in 1 .. Len(q) : i + 1 < m /\ q[m] = e
    BY <1>1, <2>1 DEF Followed
  <2>3. m - 1 \in 1 .. Len(q) - 1 /\ i < m - 1 /\ (m - 1) + 1 = m
    BY <1>1, <2>2
  <2>4. Tail(q)[m - 1] = e
    BY <1>1, <2>2, <2>3
  <2> QED
    BY <2>3, <2>4
<1> QED
  BY <1>1, <1>2 DEF Followed

LEMMA FollowedAppend ==
    ASSUME NEW q \in Seq(Item), NEW y \in Item, NEW x, NEW e, Followed(q, x, e), x # y
    PROVE  Followed(Append(q, y), x, e)
<1>1. /\ Len(q) \in Nat /\ DOMAIN q = 1 .. Len(q) /\ DOMAIN Append(q, y) = 1 .. Len(q) + 1
      /\ \A i \in 1 .. Len(q) : Append(q, y)[i] = q[i]
      /\ Append(q, y)[Len(q) + 1] = y
  BY QueueAppend
<1>2. ASSUME NEW i \in 1 .. Len(q) + 1, Append(q, y)[i] = x
      PROVE  \E j \in 1 .. Len(q) + 1 : i < j /\ Append(q, y)[j] = e
  <2>1. i \in 1 .. Len(q)
    <3>1. i # Len(q) + 1
      BY <1>1, <1>2
    <3> QED
      BY <1>1, <3>1
  <2>2. PICK m \in 1 .. Len(q) : i < m /\ q[m] = e
    BY <1>1, <1>2, <2>1 DEF Followed
  <2>3. m \in 1 .. Len(q) + 1 /\ Append(q, y)[m] = e
    BY <1>1, <2>2
  <2> QED
    BY <2>2, <2>3
<1> QED
  BY <1>1, <1>2 DEF Followed

LEMMA FollowedRemoved ==
    ASSUME NEW q \in Seq(Item), NEW i \in DOMAIN q, NEW x, NEW e, Followed(q, x, e), q[i] # e
    PROVE  Followed(Removed(q, i), x, e)
<1>1. /\ Removed(q, i) \in Seq(Item)
      /\ Len(q) \in Nat \ {0} /\ DOMAIN q = 1 .. Len(q)
      /\ Len(Removed(q, i)) = Len(q) - 1
      /\ \A j \in 1 .. Len(q) - 1 : Removed(q, i)[j] = IF j < i THEN q[j] ELSE q[j + 1]
  BY QueueRemoved
<1>2. DOMAIN Removed(q, i) = 1 .. Len(q) - 1
  BY <1>1, LenProperties
<1>3. ASSUME NEW j \in 1 .. Len(q) - 1, Removed(q, i)[j] = x
      PROVE  \E m \in 1 .. Len(q) - 1 : j < m /\ Removed(q, i)[m] = e
  <2>1. PICK a \in 1 .. Len(q) : q[a] = x /\ (IF j < i THEN a = j ELSE a = j + 1)
    <3>1. j \in 1 .. Len(q) /\ j + 1 \in 1 .. Len(q)
      BY <1>1
    <3>2. Removed(q, i)[j] = IF j < i THEN q[j] ELSE q[j + 1]
      BY <1>1
    <3> QED
      BY <1>3, <3>1, <3>2
  <2>2. PICK c \in 1 .. Len(q) : a < c /\ q[c] = e
    BY <1>1, <2>1 DEF Followed
  <2>3. c # i /\ i \in Int
    BY <1>1, <2>2
  <2>4. CASE c < i
    <3>1. c \in 1 .. Len(q) - 1 /\ j < c
      BY <1>1, <2>1, <2>2, <2>4
    <3>2. Removed(q, i)[c] = e
      BY <1>1, <2>2, <2>4, <3>1
    <3> QED
      BY <3>1, <3>2
  <2>5. CASE c > i
    <3>1. c - 1 \in 1 .. Len(q) - 1 /\ j < c - 1 /\ ~(c - 1 < i) /\ (c - 1) + 1 = c
      BY <1>1, <2>1, <2>2, <2>3, <2>5
    <3>2. Removed(q, i)[c - 1] = e
      BY <1>1, <2>2, <3>1
    <3> QED
      BY <3>1, <3>2
  <2> QED
    BY <2>3, <2>4, <2>5
<1> QED
  BY <1>2, <1>3 DEF Followed

\* ... and an event that is recorded follows everything.
LEMMA FollowedByLast ==
    ASSUME NEW q \in Seq(Item), NEW e \in Item, NEW x, x # e
    PROVE  Followed(Append(q, e), x, e)
<1>1. /\ Len(q) \in Nat /\ DOMAIN Append(q, e) = 1 .. Len(q) + 1
      /\ Append(q, e)[Len(q) + 1] = e
  BY QueueAppend
<1>2. ASSUME NEW i \in 1 .. Len(q) + 1, Append(q, e)[i] = x
      PROVE  Len(q) + 1 \in 1 .. Len(q) + 1 /\ i < Len(q) + 1
  <2>1. i # Len(q) + 1
    BY <1>1, <1>2
  <2> QED
    BY <1>1, <2>1
<1> QED
  BY <1>1, <1>2 DEF Followed

-----------------------------------------------------------------------------
(* Requests.                                                               *)

LEMMA LeastNatural ==
    ASSUME NEW S \in SUBSET Nat, S # {}
    PROVE  \E m \in S : \A k \in S : m <= k
<1>1. PICK m \in S : \A k \in S : <<k, m>> \notin OpToRel(<, Nat)
  BY WFMin, NatLessThanWellFounded
<1>2. \A k \in S : ~(k < m)
  BY <1>1, Zenon DEF OpToRel
<1> QED
  BY <1>2

\* A request is rounded up to a power of the growth factor.
LEMMA NearestPowerOfType ==
    ASSUME world \in Worlds, NEW n \in world.sizes
    PROVE  NearestPowerOf(n) \in Nat
<1>1. n \in Nat /\ \A k \in 0 .. n : bin_growth ^ k \in Nat
  BY WorldAssumption, PowersAssumption
<1> DEFINE S == {k \in 0 .. n : bin_growth ^ k >= n}
<1>2. S \in SUBSET Nat /\ S # {}
  BY PowersAssumption
<1>3. PICK m \in S : \A k \in S : m <= k
  BY <1>2, LeastNatural
<1>4. ASSUME NEW j \in 0 .. m - 1 PROVE bin_growth ^ j < n
  <2>1. j \in 0 .. n /\ ~(m <= j)
    BY <1>1
  <2>2. j \notin S
    BY <1>3, <2>1
  <2> QED
    BY <1>1, <2>1, <2>2
<1>5. \E k \in 0 .. n : bin_growth ^ k >= n /\ \A j \in 0 .. k - 1 : bin_growth ^ j < n
  BY <1>4
<1>6. NearestPowerOf(n) \in 0 .. n
  BY <1>5, Zenon DEF NearestPowerOf
<1> QED
  BY <1>1, <1>6

\* The search key of a request is a block without memory, on the stream's device.
LEMMA SearchKeyType ==
    ASSUME world \in Worlds, NEW s \in Streams, NEW n \in world.sizes
    PROVE  LET k == SearchKey(world.stream_device[s], n, s)
           IN  /\ k \in BlockDescriptors /\ k.d_ptr = Null
               /\ k.associated_stream = s /\ k.device = world.stream_device[s]
<1>1. world.stream_device[s] \in Devices /\ n \in Nat
  BY WorldAssumption
<1>2. NearestPowerOf(n) \in Nat
  BY NearestPowerOfType
<1>3. ASSUME NEW bin \in Int, NEW bytes \in Nat
      PROVE  LET k == BlockDescriptor(bytes, bin, world.stream_device[s], s)
             IN  /\ k \in BlockDescriptors /\ k.d_ptr = Null
                 /\ k.associated_stream = s /\ k.device = world.stream_device[s]
  BY <1>1 DEF BlockDescriptor, BlockDescriptors
<1> DEFINE bin == IF NearestPowerOf(n) < min_bin THEN min_bin ELSE NearestPowerOf(n)
<1>4. ~(NearestPowerOf(n) > max_bin) => bin \in Int /\ bin_growth ^ bin \in Nat
  <2>1. ~(NearestPowerOf(n) > max_bin) => bin \in min_bin .. max_bin
    BY <1>2, BinAssumption
  <2> HIDE DEF bin
  <2> QED
    BY <2>1, BinAssumption, PowersAssumption
<1>5. INVALID_BIN \in Int
  BY DEF INVALID_BIN
<1> QED
  BY <1>1, <1>3, <1>4, <1>5 DEF SearchKey

-----------------------------------------------------------------------------
(* The steps.                                                              *)

Carried == {search_key[h] : h \in Carrying}

Locations == {"idle", "malloc", "free_cached", "malloc_again", "insert", "release"}

\* h goes to l, with k as its search key.
Moves(h, l, k) ==
    /\ pc' = [pc EXCEPT ![h] = l]
    /\ search_key' = [search_key EXCEPT ![h] = k]

\* k is a request for memory.
IsRequest(k) ==
    k \in BlockDescriptors /\ k.d_ptr = Null /\ k.device = world.stream_device[k.associated_stream]

\* Failures are not forgotten.
LEMMA FaultsGrow ==
    ASSUME TypeOK, Works \/ \E c : Fails(c)
    PROVE  faults \subseteq faults' /\ faults' \subseteq Calls
BY WorldAssumption DEF TypeOK, Works, Fails

\* A host that moves leaves the others where they are.
LEMMA HostMoves ==
    ASSUME TypeOK, Requesting, UNCHANGED world, NEW h \in Hosts, NEW l \in Locations,
           NEW k \in BlockDescriptors \union {Null}, Moves(h, l, k),
           l \in {"malloc", "free_cached", "malloc_again"} => IsRequest(k)
    PROVE  /\ pc' \in [Hosts -> Locations]
           /\ search_key' \in [Hosts -> BlockDescriptors \union {Null}]
           /\ pc'[h] = l /\ search_key'[h] = k
           /\ \A g \in Hosts : g # h => pc'[g] = pc[g] /\ search_key'[g] = search_key[g]
           /\ Requesting'
           /\ l \notin {"insert", "release"} => Carrying' = Carrying \ {h}
           /\ l \in {"insert", "release"} => Carrying' = Carrying \union {h}
<1>1. pc \in [Hosts -> Locations] /\ search_key \in [Hosts -> BlockDescriptors \union {Null}]
  BY DEF TypeOK, Locations
<1>2. /\ pc' \in [Hosts -> Locations]
      /\ search_key' \in [Hosts -> BlockDescriptors \union {Null}]
      /\ pc'[h] = l /\ search_key'[h] = k
      /\ \A g \in Hosts : g # h => pc'[g] = pc[g] /\ search_key'[g] = search_key[g]
  BY <1>1 DEF Moves
<1>3. Requesting'
  <2> SUFFICES ASSUME NEW g \in Hosts, pc'[g] \in {"malloc", "free_cached", "malloc_again"}
               PROVE  /\ search_key'[g] \in BlockDescriptors
                      /\ search_key'[g].d_ptr = Null
                      /\ search_key'[g].device = world.stream_device[search_key'[g].associated_stream]
    BY DEF Requesting
  <2>1. CASE g = h
    BY <1>2, <2>1 DEF IsRequest
  <2>2. CASE g # h
    BY <1>2, <2>2 DEF Requesting
  <2> QED
    BY <2>1, <2>2
<1>4. Carrying' = {g \in Hosts : pc'[g] \in {"insert", "release"}}
  BY DEF Carrying
<1> QED
  BY <1>2, <1>3, <1>4 DEF Carrying

\* The set of carried blocks follows the host that moves.
LEMMA CarriedMoves ==
    ASSUME TypeOK, NEW h \in Hosts,
           \A g \in Hosts : g # h => search_key'[g] = search_key[g]
    PROVE  /\ h \notin Carrying /\ Carrying' = Carrying \ {h} => Carrying' = Carrying /\ Carried' = Carried
           /\ h \notin Carrying /\ Carrying' = Carrying \union {h} => Carried' = Carried \union {search_key'[h]}
           /\ h \in Carrying => Carried = {search_key[g] : g \in Carrying \ {h}} \union {search_key[h]}
           /\ h \in Carrying /\ Carrying' = Carrying \ {h} => Carried' = {search_key[g] : g \in Carrying \ {h}}
<1>1. Carrying \subseteq Hosts
  BY DEF Carrying
<1> QED
  BY <1>1 DEF Carried

LEMMA BlocksAre ==
    Blocks = cached_blocks \union live_blocks \union Carried
BY DEF Blocks, Carried

\* Steps that leave the blocks, the memory and the streams alone.
LEMMA SameBlocks ==
    ASSUME IInv, NEW h \in Hosts, NEW l \in Locations \ {"insert", "release"},
           NEW k \in BlockDescriptors \union {Null}, Moves(h, l, k),
           l # "idle" => IsRequest(k),
           h \notin Carrying, faults \subseteq faults', faults' \subseteq Calls,
           max_cached_bytes' \in Nat,
           UNCHANGED <<world, cached_blocks, live_blocks, cached_bytes, heap, queue, held>>
    PROVE  IInv'
<1>0. TypeOK /\ Requesting /\ OnePlace /\ OwnMemory /\ NullMemory
  BY DEF IInv
<1>1. /\ pc' \in [Hosts -> Locations]
      /\ search_key' \in [Hosts -> BlockDescriptors \union {Null}]
      /\ \A g \in Hosts : g # h => pc'[g] = pc[g] /\ search_key'[g] = search_key[g]
      /\ Requesting' /\ Carrying' = Carrying \ {h}
  BY <1>0, HostMoves
<1>2. Carrying' = Carrying /\ Carried' = Carried
  BY <1>0, <1>1, CarriedMoves
<1>3. Blocks' = Blocks
  BY <1>2, BlocksAre DEF Blocks, Carried
<1>4. \A g \in Carrying : search_key'[g] = search_key[g]
  BY <1>1, <1>2 DEF Carrying
<1>5. TypeOK'
  BY <1>0, <1>1 DEF TypeOK, Locations
<1>6. OnePlace'
  BY <1>0, <1>2, <1>3, <1>4 DEF OnePlace
<1>7. OwnMemory' /\ NullMemory'
  BY <1>0, <1>3 DEF OwnMemory, NullMemory
<1>8. StreamSafe' /\ EventsFollow'
  BY <1>3 DEF IInv, StreamSafe, EventsFollow, Queued, HeapPtrs
<1>9. NoLeak' /\ BooksBalance'
  BY <1>3 DEF IInv, NoLeak, BooksBalance
<1> QED
  BY <1>1, <1>5, <1>6, <1>7, <1>8, <1>9 DEF IInv

\* A step of the client or the device that only changes the queues.
LEMMA QueueOnly ==
    ASSUME IInv, queue' \in [Streams -> Seq(Item)],
           UNCHANGED <<allocator, heap, faults, locals, held, world>>
    PROVE  Blocks' = Blocks /\ (StreamSafe' /\ EventsFollow' => IInv')
<1>0. TypeOK /\ Requesting /\ OnePlace /\ OwnMemory /\ NullMemory
  BY DEF IInv
<1>1. UNCHANGED <<cached_blocks, live_blocks, cached_bytes, max_cached_bytes, heap, faults,
                  pc, search_key, held, world>>
  BY DEF allocator, locals
<1>2. Carrying' = Carrying /\ Blocks' = Blocks
  BY <1>1 DEF Carrying, Blocks
<1>3. TypeOK'
  BY <1>0, <1>1 DEF TypeOK, Item
<1>4. Requesting' /\ OnePlace' /\ OwnMemory' /\ NullMemory'
  BY <1>0, <1>1, <1>2 DEF Requesting, OnePlace, OwnMemory, NullMemory
<1>5. NoLeak' /\ BooksBalance'
  BY <1>1, <1>2 DEF IInv, NoLeak, BooksBalance
<1> QED
  BY <1>2, <1>3, <1>4, <1>5 DEF IInv

\* The client launches a kernel on a block it holds.
LEMMA LaunchStep ==
    ASSUME IInv, NEW b \in live_blocks, Launch(b), UNCHANGED world
    PROVE  IInv'
<1>0. TypeOK /\ OnePlace /\ OwnMemory /\ StreamSafe /\ EventsFollow
  BY DEF IInv
<1> DEFINE s == b.associated_stream
           p == b.d_ptr
<1>1. b \in BlockDescriptors /\ s \in Streams /\ p \in Item /\ b \in Blocks
  BY <1>0 DEF TypeOK, BlockDescriptors, Item, Blocks
<1>2. /\ queue' = [queue EXCEPT ![s] = Append(@, p)]
      /\ UNCHANGED <<allocator, heap, faults, locals, held, world>>
  BY DEF Launch
<1>3. queue \in [Streams -> Seq(Item)]
  BY <1>0 DEF TypeOK, Item
<1>4. /\ queue'[s] = Append(queue[s], p) /\ queue'[s] \in Seq(Item)
      /\ \A t \in Streams : t # s => queue'[t] = queue[t]
      /\ queue' \in [Streams -> Seq(Item)]
  <2>1. Append(queue[s], p) \in Seq(Item)
    BY <1>1, <1>3, QueueAppend
  <2> QED
    BY <1>1, <1>2, <1>3, <2>1
<1>5. Blocks' = Blocks /\ (StreamSafe' /\ EventsFollow' => IInv')
  BY <1>2, <1>4, QueueOnly
<1>6. heap' = heap /\ faults' = faults /\ cached_blocks' = cached_blocks
  BY <1>2 DEF allocator
<1>7. StreamSafe'
  <2> SUFFICES ASSUME faults \intersect {"EventDestroy", "EventQuery"} = {}, NEW t \in Streams, NEW x \in Ptrs,
                      x \in Items(queue'[t])
               PROVE  x \in HeapPtrs /\ \A c \in Blocks : c.d_ptr = x => c.associated_stream = t
    BY <1>5, <1>6 DEF StreamSafe, Queued, Items, HeapPtrs
  <2>1. CASE x \in Items(queue[t])
    BY <1>0, <2>1 DEF StreamSafe, Queued, Items
  <2>2. CASE x \notin Items(queue[t])
    <3>1. t = s /\ x = p
      <4>1. t = s
        BY <1>4, <2>2
      <4>2. Items(queue'[s]) = Items(queue[s]) \union {p}
        BY <1>1, <1>3, <1>4, ItemsAppend
      <4> QED
        BY <2>2, <4>1, <4>2
    <3>2. p # Null
      BY <3>1, HandlesAssumption
    <3>3. /\ [ptr |-> p, device |-> b.device, bytes |-> b.bytes] \in heap
          /\ \A c \in Blocks : c.d_ptr = p => c = b
      BY <1>0, <1>1, <3>2 DEF OwnMemory
    <3>4. p \in HeapPtrs
      BY <3>3 DEF HeapPtrs
    <3> QED
      BY <3>1, <3>3, <3>4
  <2> QED
    BY <2>1, <2>2
<1>8. EventsFollow'
  <2> SUFFICES ASSUME faults \intersect {"EventDestroy", "EventQuery"} = {}, NEW c \in cached_blocks, c.d_ptr # Null,
                      NEW t \in Streams
               PROVE  Followed(queue'[t], c.d_ptr, c.ready_event)
    BY <1>6 DEF EventsFollow
  <2>1. Followed(queue[t], c.d_ptr, c.ready_event)
    BY <1>0 DEF EventsFollow
  <2>2. c.d_ptr # p
    <3>1. c # b /\ c \in Blocks
      BY <1>0 DEF OnePlace, Blocks
    <3> QED
      BY <1>0, <1>1, <3>1 DEF OwnMemory
  <2>3. CASE t = s
    <3>1. Followed(Append(queue[s], p), c.d_ptr, c.ready_event)
      BY <1>1, <1>3, <2>1, <2>2, <2>3, FollowedAppend
    <3> QED
      BY <1>4, <2>3, <3>1
  <2>4. CASE t # s
    BY <1>4, <2>1, <2>4
  <2> QED
    BY <2>3, <2>4
<1> QED
  BY <1>5, <1>7, <1>8

\* The device executes the next item of a stream.
LEMMA ExecuteStep ==
    ASSUME IInv, NEW s \in Streams, Execute(s), UNCHANGED world
    PROVE  IInv'
<1>0. TypeOK /\ StreamSafe /\ EventsFollow
  BY DEF IInv
<1>1. /\ queue' = [queue EXCEPT ![s] = Tail(@)] /\ queue[s] # <<>>
      /\ UNCHANGED <<allocator, heap, faults, locals, held, world>>
  BY DEF Execute
<1>2. queue \in [Streams -> Seq(Item)]
  BY <1>0 DEF TypeOK, Item
<1>3. /\ queue'[s] = Tail(queue[s]) /\ queue[s] \in Seq(Item)
      /\ \A t \in Streams : t # s => queue'[t] = queue[t]
      /\ queue' \in [Streams -> Seq(Item)]
  <2>1. Tail(queue[s]) \in Seq(Item)
    BY <1>1, <1>2, QueueTail
  <2> QED
    BY <1>1, <1>2, <2>1
<1>4. Blocks' = Blocks /\ (StreamSafe' /\ EventsFollow' => IInv')
  BY <1>1, <1>3, QueueOnly
<1>5. heap' = heap /\ faults' = faults /\ cached_blocks' = cached_blocks
  BY <1>1 DEF allocator
<1>6. \A t \in Streams : Items(queue'[t]) \subseteq Items(queue[t])
  BY <1>1, <1>3, ItemsTail
<1>7. StreamSafe'
  BY <1>0, <1>4, <1>5, <1>6 DEF StreamSafe, Queued, Items, HeapPtrs
<1>8. EventsFollow'
  <2> SUFFICES ASSUME faults \intersect {"EventDestroy", "EventQuery"} = {}, NEW c \in cached_blocks, c.d_ptr # Null,
                      NEW t \in Streams
               PROVE  Followed(queue'[t], c.d_ptr, c.ready_event)
    BY <1>5 DEF EventsFollow
  <2>1. Followed(queue[t], c.d_ptr, c.ready_event)
    BY <1>0 DEF EventsFollow
  <2> QED
    BY <1>1, <1>3, <2>1, FollowedTail
<1> QED
  BY <1>4, <1>7, <1>8

\* The host gets a new block to carry: its event is new, and its memory, if
\* it has any, was not allocated before.
LEMMA NewBlock ==
    ASSUME IInv, NEW h \in Hosts, h \notin Carrying, NEW k \in BlockDescriptors,
           Moves(h, "insert", k),
           k.ready_event \in Events \ {b.ready_event : b \in Blocks},
           k.device = world.stream_device[k.associated_stream],
           \/ k.d_ptr = Null /\ "Malloc" \in faults' /\ heap' = heap
           \/ /\ k.d_ptr \in Ptrs \ HeapPtrs
              /\ heap' = heap \union {[ptr |-> k.d_ptr, device |-> k.device, bytes |-> k.bytes]},
           faults \subseteq faults', faults' \subseteq Calls,
           UNCHANGED <<world, allocator, queue, held>>
    PROVE  IInv'
<1>0. TypeOK /\ Requesting /\ OnePlace /\ OwnMemory /\ NullMemory /\ StreamSafe
  BY DEF IInv
<1>1. UNCHANGED <<cached_blocks, live_blocks, cached_bytes, max_cached_bytes>>
  BY DEF allocator
<1>2. /\ pc' \in [Hosts -> Locations]
      /\ search_key' \in [Hosts -> BlockDescriptors \union {Null}]
      /\ search_key'[h] = k
      /\ \A g \in Hosts : g # h => pc'[g] = pc[g] /\ search_key'[g] = search_key[g]
      /\ Requesting' /\ Carrying' = Carrying \union {h}
  <2>1. "insert" \in Locations
    BY DEF Locations
  <2> QED
    BY <1>0, <2>1, HostMoves
<1>3. Carried' = Carried \union {k}
  BY <1>0, <1>2, CarriedMoves
<1>4. Blocks' = Blocks \union {k} /\ k \notin Blocks
  BY <1>1, <1>3, BlocksAre DEF Blocks, Carried
<1>5. TypeOK'
  <2>1. k.d_ptr \in Ptrs => [ptr |-> k.d_ptr, device |-> k.device, bytes |-> k.bytes] \in
                                [ptr : Ptrs, device : Devices, bytes : Nat]
    BY DEF BlockDescriptors
  <2> QED
    BY <1>0, <1>1, <1>2, <2>1 DEF TypeOK, Locations
<1>6. \A g \in Carrying : g # h /\ search_key'[g] = search_key[g] /\ search_key[g] \in Blocks
  BY <1>2, BlocksAre DEF Carrying, Carried
<1>7. OnePlace'
  <2>1. \A b \in Blocks' : /\ b \in BlockDescriptors /\ b.ready_event \in Events
                           /\ b.device = world.stream_device[b.associated_stream]
                           /\ \A c \in Blocks' : c.ready_event = b.ready_event => c = b
    BY <1>0, <1>4 DEF OnePlace
  <2>2. ASSUME NEW g \in Carrying'
        PROVE  /\ search_key'[g] \notin cached_blocks \union live_blocks
               /\ \A f \in Carrying' : search_key'[f] = search_key'[g] => f = g
    BY <1>0, <1>2, <1>4, <1>6, BlocksAre DEF OnePlace
  <2> QED
    BY <1>0, <1>1, <2>1, <2>2 DEF OnePlace
<1>8. OwnMemory'
  <2> SUFFICES ASSUME "EventDestroy" \notin faults
               PROVE  /\ \A b \in Blocks' : b.d_ptr # Null =>
                           /\ [ptr |-> b.d_ptr, device |-> b.device, bytes |-> b.bytes] \in heap'
                           /\ \A c \in Blocks' : c.d_ptr = b.d_ptr => c = b
                      /\ held \subseteq {b.d_ptr : b \in live_blocks} \union {Null}
    BY <1>1 DEF OwnMemory
  <2>1. ASSUME NEW b \in Blocks, b.d_ptr # Null PROVE b.d_ptr \in HeapPtrs
    <3>1. [ptr |-> b.d_ptr, device |-> b.device, bytes |-> b.bytes] \in heap
      BY <1>0, <2>1 DEF OwnMemory
    <3> QED
      BY <3>1 DEF HeapPtrs
  <2>2. k.d_ptr # Null => /\ [ptr |-> k.d_ptr, device |-> k.device, bytes |-> k.bytes] \in heap'
                          /\ k.d_ptr \notin HeapPtrs
    OBVIOUS
  <2>3. heap \subseteq heap'
    OBVIOUS
  <2> QED
    BY <1>0, <1>4, <2>1, <2>2, <2>3 DEF OwnMemory
<1>9. NullMemory'
  BY <1>0, <1>4, HandlesAssumption DEF NullMemory
<1>10. StreamSafe'
  <2> SUFFICES ASSUME faults \intersect {"EventDestroy", "EventQuery"} = {}, NEW s \in Streams, NEW x \in Queued(s) \intersect Ptrs
               PROVE  x \in HeapPtrs' /\ \A c \in Blocks' : c.d_ptr = x => c.associated_stream = s
    BY DEF StreamSafe, Queued
  <2>1. x \in HeapPtrs /\ \A c \in Blocks : c.d_ptr = x => c.associated_stream = s
    BY <1>0 DEF StreamSafe
  <2>2. x # k.d_ptr
    BY <2>1, HandlesAssumption
  <2>3. x \in HeapPtrs'
    BY <2>1 DEF HeapPtrs
  <2> QED
    BY <1>4, <2>1, <2>2, <2>3
<1>11. EventsFollow' /\ BooksBalance'
  BY <1>1 DEF IInv, EventsFollow, BooksBalance
<1>12. NoLeak'
  <2> SUFFICES ASSUME faults \intersect {"EventCreate", "Free"} = {}, NEW a \in heap'
               PROVE  \E b \in Blocks' : b.d_ptr = a.ptr
    BY DEF NoLeak
  <2>1. CASE a \in heap
    BY <1>4, <2>1 DEF IInv, NoLeak
  <2>2. CASE a \notin heap
    BY <1>4, <2>2
  <2> QED
    BY <2>1, <2>2
<1> QED
  BY <1>2, <1>5, <1>7, <1>8, <1>9, <1>10, <1>11, <1>12 DEF IInv

\* Memory was allocated, but its event could not be created.
LEMMA LostBlock ==
    ASSUME IInv, NEW h \in Hosts, h \notin Carrying, Moves(h, "idle", Null),
           heap \subseteq heap', heap' \subseteq [ptr : Ptrs, device : Devices, bytes : Nat],
           "EventCreate" \in faults',
           faults \subseteq faults', faults' \subseteq Calls,
           UNCHANGED <<world, allocator, queue, held>>
    PROVE  IInv'
<1>0. TypeOK /\ Requesting /\ OnePlace /\ OwnMemory /\ NullMemory /\ StreamSafe
  BY DEF IInv
<1>1. UNCHANGED <<cached_blocks, live_blocks, cached_bytes, max_cached_bytes>>
  BY DEF allocator
<1>2. /\ pc' \in [Hosts -> Locations]
      /\ search_key' \in [Hosts -> BlockDescriptors \union {Null}]
      /\ \A g \in Hosts : g # h => pc'[g] = pc[g] /\ search_key'[g] = search_key[g]
      /\ Requesting' /\ Carrying' = Carrying \ {h}
  <2>1. "idle" \in Locations
    BY DEF Locations
  <2> QED
    BY <1>0, <2>1, HostMoves
<1>3. Carrying' = Carrying /\ Carried' = Carried
  BY <1>0, <1>2, CarriedMoves
<1>4. Blocks' = Blocks
  BY <1>1, <1>3, BlocksAre DEF Blocks, Carried
<1>5. TypeOK'
  BY <1>0, <1>1, <1>2 DEF TypeOK, Locations
<1>6. \A g \in Carrying : search_key'[g] = search_key[g]
  BY <1>2, <1>3 DEF Carrying
<1>7. OnePlace'
  BY <1>0, <1>1, <1>3, <1>4, <1>6 DEF OnePlace
<1>8. OwnMemory' /\ NullMemory'
  BY <1>0, <1>1, <1>4 DEF OwnMemory, NullMemory
<1>9. StreamSafe'
  <2>1. HeapPtrs \subseteq HeapPtrs'
    BY DEF HeapPtrs
  <2> QED
    BY <1>0, <1>4, <2>1 DEF StreamSafe, Queued
<1>10. EventsFollow' /\ BooksBalance' /\ NoLeak'
  BY <1>1 DEF IInv, EventsFollow, BooksBalance, NoLeak
<1> QED
  BY <1>2, <1>5, <1>7, <1>8, <1>9, <1>10 DEF IInv

-----------------------------------------------------------------------------
(* The books.                                                              *)

OnDevice(S, d) == {b \in S : b.device = d}

\* The bytes of a set on one device, when blocks are taken out of the set ...
LEMMA BooksWithout ==
    ASSUME NEW S \in SUBSET BlockDescriptors, IsFiniteSet(S), NEW T \in SUBSET S, NEW d
    PROVE  /\ Bytes(OnDevice(S \ T, d)) = Bytes(OnDevice(S, d)) - Bytes(OnDevice(T, d))
           /\ Bytes(OnDevice(S \ T, d)) \in Nat /\ Bytes(OnDevice(S, d)) \in Nat
           /\ Bytes(OnDevice(T, d)) \in Nat
<1>1. OnDevice(S \ T, d) = OnDevice(S, d) \ OnDevice(T, d) /\ OnDevice(T, d) \in SUBSET OnDevice(S, d)
  BY DEF OnDevice
<1>2. OnDevice(S, d) \in SUBSET S
  BY DEF OnDevice
<1>3. IsFiniteSet(OnDevice(S, d))
  BY <1>2, FS_Subset
<1>4. \A b \in OnDevice(S, d) : b.bytes \in Nat
  BY DEF OnDevice, BlockDescriptors
<1> QED
  BY <1>1, <1>3, <1>4, BytesWithout

\* ... or one block is, ...
LEMMA BooksRemove ==
    ASSUME NEW S \in SUBSET BlockDescriptors, IsFiniteSet(S), NEW b \in S, NEW d
    PROVE  /\ Bytes(OnDevice(S \ {b}, d)) = IF b.device = d THEN Bytes(OnDevice(S, d)) - b.bytes
                                                            ELSE Bytes(OnDevice(S, d))
           /\ Bytes(OnDevice(S, d)) \in Nat
<1>1. b.bytes \in Nat
  BY DEF BlockDescriptors
<1>2. {b} \in SUBSET S
  OBVIOUS
<1>3. /\ Bytes(OnDevice(S \ {b}, d)) = Bytes(OnDevice(S, d)) - Bytes(OnDevice({b}, d))
      /\ Bytes(OnDevice(S, d)) \in Nat
  BY <1>2, BooksWithout
<1>4. CASE b.device = d
  <2>1. OnDevice({b}, d) = {b}
    BY <1>4 DEF OnDevice
  <2>2. Bytes(OnDevice({b}, d)) = b.bytes
    BY <1>1, <2>1, BytesOne
  <2> QED
    BY <1>3, <1>4, <2>2
<1>5. CASE b.device # d
  <2>1. OnDevice(S \ {b}, d) = OnDevice(S, d)
    BY <1>5 DEF OnDevice
  <2> QED
    BY <1>3, <1>5, <2>1
<1> QED
  BY <1>4, <1>5

\* ... or is added.
LEMMA BooksAdd ==
    ASSUME NEW S \in SUBSET BlockDescriptors, IsFiniteSet(S), NEW b \in BlockDescriptors, b \notin S, NEW d
    PROVE  /\ Bytes(OnDevice(S \union {b}, d)) = IF b.device = d THEN Bytes(OnDevice(S, d)) + b.bytes
                                                                 ELSE Bytes(OnDevice(S, d))
           /\ Bytes(OnDevice(S, d)) \in Nat
<1> DEFINE T == S \union {b}
<1>1. T \in SUBSET BlockDescriptors /\ b \in T /\ b.bytes \in Nat
  BY DEF BlockDescriptors
<1>2. IsFiniteSet(T)
  BY FS_AddElement
<1>3. T \ {b} = S
  OBVIOUS
<1>4. /\ Bytes(OnDevice(T \ {b}, d)) = IF b.device = d THEN Bytes(OnDevice(T, d)) - b.bytes
                                                       ELSE Bytes(OnDevice(T, d))
      /\ Bytes(OnDevice(T, d)) \in Nat
  <2> HIDE DEF T
  <2> QED
    BY <1>1, <1>2, BooksRemove
<1>5. {} \in SUBSET S /\ S \ {} = S
  OBVIOUS
<1>6. Bytes(OnDevice(S, d)) \in Nat
  BY <1>5, BooksWithout
<1>7. Bytes(OnDevice(S, d)) = IF b.device = d THEN Bytes(OnDevice(T, d)) - b.bytes ELSE Bytes(OnDevice(T, d))
  BY <1>3, <1>4
<1> HIDE DEF T
<1>8. Bytes(OnDevice(T, d)) = IF b.device = d THEN Bytes(OnDevice(S, d)) + b.bytes ELSE Bytes(OnDevice(S, d))
  BY <1>1, <1>4, <1>6, <1>7
<1> QED
  BY <1>6, <1>8 DEF T

\* The books as a statement about OnDevice.
LEMMA BooksAre ==
    BooksBalance <=> \A d \in Devices : /\ cached_bytes[d].free = Bytes(OnDevice(cached_blocks, d))
                                        /\ cached_bytes[d].live = Bytes(OnDevice(live_blocks, d))
BY DEF BooksBalance, OnDevice

\* What Account writes.
LEMMA Accounts ==
    ASSUME TypeOK, NEW d \in Devices, NEW free \in Int, NEW live \in Int, Account(d, free, live)
    PROVE  /\ cached_bytes' \in [Devices -> [free : Int, live : Int]]
           /\ \A e \in Devices :
                /\ cached_bytes'[e].free = IF e = d THEN cached_bytes[e].free + free ELSE cached_bytes[e].free
                /\ cached_bytes'[e].live = IF e = d THEN cached_bytes[e].live + live ELSE cached_bytes[e].live
<1>1. cached_bytes \in [Devices -> [free : Int, live : Int]]
  BY DEF TypeOK
<1>2. cached_bytes' = [cached_bytes EXCEPT ![d] =
                         [free |-> cached_bytes[d].free + free, live |-> cached_bytes[d].live + live]]
  BY <1>1 DEF Account
<1>3. /\ cached_bytes'[d] = [free |-> cached_bytes[d].free + free, live |-> cached_bytes[d].live + live]
      /\ \A e \in Devices : e # d => cached_bytes'[e] = cached_bytes[e]
  BY <1>1, <1>2
<1>4. [free |-> cached_bytes[d].free + free, live |-> cached_bytes[d].live + live] \in [free : Int, live : Int]
  BY <1>1
<1>5. cached_bytes' \in [Devices -> [free : Int, live : Int]]
  BY <1>1, <1>2, <1>4
<1> QED
  BY <1>3, <1>5

-----------------------------------------------------------------------------
(* Steps that move blocks.                                                 *)

\* A block of the cache goes to the stream that asked for it: the stream it
\* was used in, or another one that its event says may have it.
LEMMA TakeCachedStep ==
    ASSUME IInv, NEW h \in Hosts, h \notin Carrying, Moves(h, "idle", Null),
           NEW b \in cached_blocks, NEW k \in BlockDescriptors, k.device = b.device,
           k.device = world.stream_device[k.associated_stream],
           \/ Works /\ (b.associated_stream = k.associated_stream \/ Ready(b.ready_event))
           \/ Fails("EventQuery"),
           TakeCached(k, b), held' = held \union {b.d_ptr},
           UNCHANGED <<world, max_cached_bytes, heap, queue>>
    PROVE  IInv'
<1>0. TypeOK /\ Requesting /\ OnePlace /\ OwnMemory /\ NullMemory /\ StreamSafe /\ EventsFollow
  BY DEF IInv
<1>a. /\ faults \subseteq faults' /\ faults' \subseteq Calls
      /\ "EventQuery" \notin faults' => b.associated_stream = k.associated_stream \/ Ready(b.ready_event)
  BY <1>0 DEF TypeOK, Works, Fails, Calls
<1> DEFINE new == [b EXCEPT !.associated_stream = k.associated_stream]
<1>1. /\ b \in BlockDescriptors /\ b \in Blocks /\ b \notin live_blocks
      /\ \A g \in Carrying : search_key[g] # b
  BY <1>0 DEF TypeOK, Blocks, OnePlace
<1>2. /\ new \in BlockDescriptors /\ new.d_ptr = b.d_ptr /\ new.bytes = b.bytes /\ new.device = b.device
      /\ new.ready_event = b.ready_event /\ new.associated_stream = k.associated_stream
      /\ b.associated_stream = k.associated_stream => new = b
  BY <1>1 DEF BlockDescriptors
<1>3. /\ cached_blocks' = cached_blocks \ {b} /\ live_blocks' = live_blocks \union {new}
      /\ Account(k.device, -b.bytes, b.bytes)
  BY DEF TakeCached
<1>4. /\ pc' \in [Hosts -> Locations]
      /\ search_key' \in [Hosts -> BlockDescriptors \union {Null}]
      /\ \A g \in Hosts : g # h => pc'[g] = pc[g] /\ search_key'[g] = search_key[g]
      /\ Requesting' /\ Carrying' = Carrying \ {h}
  <2>1. "idle" \in Locations
    BY DEF Locations
  <2> QED
    BY <1>0, <2>1, HostMoves
<1>5. /\ Carrying' = Carrying /\ Carried' = Carried
      /\ \A g \in Carrying : search_key'[g] = search_key[g]
  BY <1>0, <1>4, CarriedMoves DEF Carrying
<1> HIDE DEF new
<1>6. Blocks' = (Blocks \ {b}) \union {new}
  <2>1. Blocks' = cached_blocks' \union live_blocks' \union Carried'
    BY DEF Blocks, Carried
  <2>2. b \notin Carried
    BY <1>1 DEF Carried
  <2> QED
    BY <1>1, <1>3, <1>5, <2>1, <2>2, BlocksAre
<1>7. \A c \in Blocks \ {b} : c.ready_event # b.ready_event /\ c # new
  BY <1>0, <1>1, <1>2 DEF OnePlace
<1>8. /\ k.device \in Devices /\ b.bytes \in Nat /\ -b.bytes \in Int
  BY <1>1 DEF BlockDescriptors
<1>9. /\ cached_bytes' \in [Devices -> [free : Int, live : Int]]
      /\ \A e \in Devices :
           /\ cached_bytes'[e].free = IF e = k.device THEN cached_bytes[e].free + (-b.bytes) ELSE cached_bytes[e].free
           /\ cached_bytes'[e].live = IF e = k.device THEN cached_bytes[e].live + b.bytes ELSE cached_bytes[e].live
  BY <1>0, <1>3, <1>8, Accounts
<1>10. TypeOK'
  <2>1. IsFiniteSet(cached_blocks') /\ IsFiniteSet(live_blocks')
    BY <1>0, <1>3, FS_RemoveElement, FS_AddElement DEF TypeOK
  <2>2. b.d_ptr \in Ptrs \union {Null}
    BY <1>1 DEF BlockDescriptors
  <2> QED
    BY <1>0, <1>a, <1>2, <1>3, <1>4, <1>9, <2>1, <2>2 DEF TypeOK, Locations
<1>11. OnePlace'
  <2>1. \A c \in Blocks' : /\ c \in BlockDescriptors /\ c.ready_event \in Events
                           /\ c.device = world.stream_device[c.associated_stream]
                           /\ \A e \in Blocks' : e.ready_event = c.ready_event => e = c
    BY <1>0, <1>1, <1>2, <1>6, <1>7 DEF OnePlace
  <2>2. new \notin cached_blocks \ {b}
    BY <1>7 DEF Blocks
  <2>3. cached_blocks' \intersect live_blocks' = {}
    BY <1>0, <1>3, <2>2 DEF OnePlace
  <2>4. \A g \in Carrying : search_key[g] # new
    BY <1>1, <1>7 DEF Blocks
  <2>5. \A g \in Carrying : search_key'[g] \notin cached_blocks' \union live_blocks'
    BY <1>0, <1>3, <1>5, <2>4 DEF OnePlace
  <2>6. \A f, g \in Carrying : search_key'[g] = search_key'[f] => g = f
    BY <1>0, <1>5 DEF OnePlace
  <2> QED
    BY <1>5, <2>1, <2>3, <2>5, <2>6 DEF OnePlace
<1>12. OwnMemory' /\ NullMemory'
  <2>1. OwnMemory'
    <3> SUFFICES ASSUME "EventDestroy" \notin faults, "EventDestroy" \notin faults'
                 PROVE  /\ \A c \in Blocks' : c.d_ptr # Null =>
                             /\ [ptr |-> c.d_ptr, device |-> c.device, bytes |-> c.bytes] \in heap
                             /\ \A e \in Blocks' : e.d_ptr = c.d_ptr => e = c
                        /\ held' \subseteq {c.d_ptr : c \in live_blocks'} \union {Null}
      BY <1>a DEF OwnMemory
    <3>1. \A c \in Blocks : c.d_ptr # Null =>
             /\ [ptr |-> c.d_ptr, device |-> c.device, bytes |-> c.bytes] \in heap
             /\ \A e \in Blocks : e.d_ptr = c.d_ptr => e = c
      BY <1>0 DEF OwnMemory
    <3>2. \A c \in Blocks' : c.d_ptr # Null =>
             /\ [ptr |-> c.d_ptr, device |-> c.device, bytes |-> c.bytes] \in heap
             /\ \A e \in Blocks' : e.d_ptr = c.d_ptr => e = c
      <4> SUFFICES ASSUME NEW c \in Blocks', c.d_ptr # Null
                   PROVE  /\ [ptr |-> c.d_ptr, device |-> c.device, bytes |-> c.bytes] \in heap
                          /\ \A e \in Blocks' : e.d_ptr = c.d_ptr => e = c
        OBVIOUS
      <4>1. CASE c = new
        <5>1. /\ [ptr |-> b.d_ptr, device |-> b.device, bytes |-> b.bytes] \in heap
              /\ \A e \in Blocks : e.d_ptr = b.d_ptr => e = b
          BY <1>1, <1>2, <3>1, <4>1
        <5> QED
          BY <1>2, <1>6, <4>1, <5>1
      <4>2. CASE c \in Blocks \ {b}
        <5>1. /\ [ptr |-> c.d_ptr, device |-> c.device, bytes |-> c.bytes] \in heap
              /\ \A e \in Blocks : e.d_ptr = c.d_ptr => e = c
          BY <3>1, <4>2
        <5>2. new.d_ptr # c.d_ptr
          BY <1>1, <1>2, <4>2, <5>1
        <5> QED
          BY <1>6, <5>1, <5>2
      <4> QED
        BY <1>6, <4>1, <4>2
    <3>3. held' \subseteq {c.d_ptr : c \in live_blocks'} \union {Null}
      BY <1>0, <1>2, <1>3 DEF OwnMemory
    <3> QED
      BY <3>2, <3>3
  <2>2. NullMemory'
    BY <1>0, <1>a, <1>1, <1>2, <1>6 DEF NullMemory
  <2> QED
    BY <2>1, <2>2
<1>13. StreamSafe'
  <2> SUFFICES ASSUME faults \intersect {"EventDestroy", "EventQuery"} = {}, "EventQuery" \notin faults',
                      NEW s \in Streams, NEW x \in Queued(s) \intersect Ptrs
               PROVE  x \in HeapPtrs /\ \A c \in Blocks' : c.d_ptr = x => c.associated_stream = s
    BY <1>a DEF StreamSafe, Queued, HeapPtrs
  <2>1. x \in HeapPtrs /\ \A c \in Blocks : c.d_ptr = x => c.associated_stream = s
    BY <1>0 DEF StreamSafe
  <2>2. ASSUME b.d_ptr = x PROVE b.associated_stream = k.associated_stream
    <3>1. x # Null
      BY HandlesAssumption
    <3>2. Followed(queue[s], b.d_ptr, b.ready_event)
      BY <1>0, <2>2, <3>1 DEF EventsFollow
    <3>3. b.ready_event \in Queued(s)
      BY <2>2, <3>2 DEF Followed, Queued
    <3> QED
      BY <1>a, <3>3 DEF Ready
  <2> QED
    BY <1>1, <1>2, <1>6, <2>1, <2>2
<1>14. EventsFollow'
  BY <1>0, <1>a, <1>3 DEF EventsFollow
<1>15. NoLeak'
  <2> SUFFICES ASSUME faults \intersect {"EventCreate", "Free"} = {}, NEW a \in heap
               PROVE  \E c \in Blocks' : c.d_ptr = a.ptr
    BY <1>a DEF NoLeak
  <2>1. PICK c \in Blocks : c.d_ptr = a.ptr
    BY DEF IInv, NoLeak
  <2> QED
    BY <1>2, <1>6, <2>1
<1>16. BooksBalance'
  <2>0. /\ cached_blocks \in SUBSET BlockDescriptors /\ IsFiniteSet(cached_blocks)
        /\ live_blocks \in SUBSET BlockDescriptors /\ IsFiniteSet(live_blocks) /\ new \notin live_blocks
    BY <1>0, <1>1, <1>7 DEF TypeOK, Blocks
  <2> SUFFICES ASSUME NEW d \in Devices
               PROVE  /\ cached_bytes'[d].free = Bytes(OnDevice(cached_blocks', d))
                      /\ cached_bytes'[d].live = Bytes(OnDevice(live_blocks', d))
    BY DEF BooksBalance, OnDevice
  <2>1. /\ cached_bytes[d].free = Bytes(OnDevice(cached_blocks, d))
        /\ cached_bytes[d].live = Bytes(OnDevice(live_blocks, d))
    BY BooksAre DEF IInv
  <2>2. /\ Bytes(OnDevice(cached_blocks \ {b}, d)) = IF b.device = d THEN Bytes(OnDevice(cached_blocks, d)) - b.bytes
                                                            ELSE Bytes(OnDevice(cached_blocks, d))
        /\ Bytes(OnDevice(cached_blocks, d)) \in Nat
    BY <2>0, BooksRemove
  <2>3. /\ Bytes(OnDevice(live_blocks \union {new}, d)) = IF new.device = d THEN Bytes(OnDevice(live_blocks, d)) + new.bytes
                                                                 ELSE Bytes(OnDevice(live_blocks, d))
        /\ Bytes(OnDevice(live_blocks, d)) \in Nat
    BY <1>2, <2>0, BooksAdd
  <2>4. cached_bytes'[d].free = Bytes(OnDevice(cached_blocks', d))
    BY <1>3, <1>8, <1>9, <2>1, <2>2
  <2>5. cached_bytes'[d].live = Bytes(OnDevice(live_blocks', d))
    BY <1>2, <1>3, <1>9, <2>1, <2>3
  <2> QED
    BY <2>4, <2>5
<1> QED
  BY <1>4, <1>10, <1>11, <1>12, <1>13, <1>14, <1>15, <1>16 DEF IInv

\* The blocks stay the same, in other places, and no memory is freed.
LEMMA MovedBlocks ==
    ASSUME IInv, Blocks' = Blocks, UNCHANGED <<world, heap>>, faults \subseteq faults'
    PROVE  /\ \A b \in Blocks' :
                /\ b \in BlockDescriptors /\ b.ready_event \in Events
                /\ b.device = world'.stream_device[b.associated_stream]
                /\ \A c \in Blocks' : c.ready_event = b.ready_event => c = b
           /\ "EventDestroy" \notin faults' =>
                \A b \in Blocks' : b.d_ptr # Null =>
                    /\ [ptr |-> b.d_ptr, device |-> b.device, bytes |-> b.bytes] \in heap'
                    /\ \A c \in Blocks' : c.d_ptr = b.d_ptr => c = b
           /\ "Malloc" \notin faults' => Null \notin {b.d_ptr : b \in Blocks'} /\ Null \notin held
           /\ NoLeak'
<1>1. NoLeak'
  BY DEF IInv, NoLeak
<1>2. \A b \in Blocks :
        /\ b \in BlockDescriptors /\ b.ready_event \in Events
        /\ b.device = world.stream_device[b.associated_stream]
        /\ \A c \in Blocks : c.ready_event = b.ready_event => c = b
  BY DEF IInv, OnePlace
<1>3. "EventDestroy" \notin faults =>
        \A b \in Blocks : b.d_ptr # Null =>
            /\ [ptr |-> b.d_ptr, device |-> b.device, bytes |-> b.bytes] \in heap
            /\ \A c \in Blocks : c.d_ptr = b.d_ptr => c = b
  BY DEF IInv, OwnMemory
<1>4. "Malloc" \notin faults => Null \notin {b.d_ptr : b \in Blocks} /\ Null \notin held
  BY DEF IInv, NullMemory
<1> QED
  BY <1>1, <1>2, <1>3, <1>4

\* The new block becomes live.
LEMMA InsertLiveStep ==
    ASSUME IInv, NEW h \in Hosts, InsertLive(h), UNCHANGED world
    PROVE  IInv'
<1>0. TypeOK /\ Requesting /\ OnePlace /\ OwnMemory /\ NullMemory /\ StreamSafe /\ EventsFollow
  BY DEF IInv
<1> DEFINE k == search_key[h]
<1>1. h \in Carrying /\ pc[h] = "insert"
  BY DEF InsertLive, Carrying
<1>2. /\ k \in Blocks /\ k \in BlockDescriptors /\ k \notin cached_blocks /\ k \notin live_blocks
      /\ \A g \in Carrying \ {h} : search_key[g] # k
  BY <1>0, <1>1 DEF OnePlace, Blocks
<1>3. /\ live_blocks' = live_blocks \union {k} /\ Account(k.device, 0, k.bytes)
      /\ UNCHANGED <<cached_blocks, max_cached_bytes, heap, queue>>
      /\ Moves(h, "idle", Null)
      /\ held' = held \union {k.d_ptr} \/ held' = held
  BY DEF InsertLive, Return, Moves
<1>4. faults \subseteq faults' /\ faults' \subseteq Calls
  BY <1>0, FaultsGrow DEF InsertLive
<1>5. /\ pc' \in [Hosts -> Locations]
      /\ search_key' \in [Hosts -> BlockDescriptors \union {Null}]
      /\ \A g \in Hosts : g # h => pc'[g] = pc[g] /\ search_key'[g] = search_key[g]
      /\ Requesting' /\ Carrying' = Carrying \ {h}
  <2>1. "idle" \in Locations
    BY DEF Locations
  <2> QED
    BY <1>0, <1>3, <2>1, HostMoves
<1>6. /\ Carried = {search_key[g] : g \in Carrying \ {h}} \union {k}
      /\ Carried' = {search_key[g] : g \in Carrying \ {h}}
      /\ \A g \in Carrying' : g \in Carrying \ {h} /\ search_key'[g] = search_key[g]
  BY <1>0, <1>1, <1>5, CarriedMoves DEF Carrying
<1> HIDE DEF k
<1>7. Blocks' = Blocks
  <2>1. Blocks' = cached_blocks' \union live_blocks' \union Carried'
    BY DEF Blocks, Carried
  <2> QED
    BY <1>3, <1>6, <2>1, BlocksAre
<1>8. /\ k.device \in Devices /\ k.bytes \in Nat /\ k.bytes \in Int /\ 0 \in Int
      /\ k.d_ptr \in Ptrs \union {Null}
  BY <1>2 DEF BlockDescriptors
<1>9. /\ cached_bytes' \in [Devices -> [free : Int, live : Int]]
      /\ \A e \in Devices :
           /\ cached_bytes'[e].free = IF e = k.device THEN cached_bytes[e].free + 0 ELSE cached_bytes[e].free
           /\ cached_bytes'[e].live = IF e = k.device THEN cached_bytes[e].live + k.bytes ELSE cached_bytes[e].live
  BY <1>0, <1>3, <1>8, Accounts, Zenon
<1>10. TypeOK'
  <2>1. IsFiniteSet(live_blocks')
    BY <1>0, <1>3, FS_AddElement DEF TypeOK
  <2> QED
    BY <1>0, <1>2, <1>3, <1>4, <1>5, <1>8, <1>9, <2>1 DEF TypeOK, Locations
<1>11. OnePlace'
  <2>1. cached_blocks' \intersect live_blocks' = {}
    BY <1>0, <1>2, <1>3 DEF OnePlace
  <2>2. \A g \in Carrying' : /\ search_key'[g] \notin cached_blocks' \union live_blocks'
                             /\ \A f \in Carrying' : search_key'[f] = search_key'[g] => f = g
    BY <1>0, <1>2, <1>3, <1>6 DEF OnePlace
  <2> QED
    BY <1>3, <1>4, <1>7, <2>1, <2>2, MovedBlocks DEF OnePlace
<1>12. OwnMemory'
  <2>1. "EventDestroy" \notin faults' => held' \subseteq {b.d_ptr : b \in live_blocks'} \union {Null}
    BY <1>0, <1>3, <1>4 DEF OwnMemory
  <2> QED
    BY <1>3, <1>4, <1>7, <2>1, MovedBlocks DEF OwnMemory
<1>13. NullMemory'
  <2>1. "Malloc" \notin faults' => Null \notin {b.d_ptr : b \in Blocks'} /\ Null \notin held
    BY <1>3, <1>4, <1>7, MovedBlocks
  <2>2. k \in Blocks'
    BY <1>2, <1>7
  <2> QED
    BY <1>3, <2>1, <2>2 DEF NullMemory
<1>14. StreamSafe' /\ EventsFollow'
  BY <1>0, <1>3, <1>4, <1>7 DEF StreamSafe, EventsFollow, Queued, HeapPtrs
<1>15. NoLeak'
  BY <1>3, <1>4, <1>7, MovedBlocks
<1>16. BooksBalance'
  <2>0. live_blocks \in SUBSET BlockDescriptors /\ IsFiniteSet(live_blocks)
    BY <1>0 DEF TypeOK
  <2> SUFFICES ASSUME NEW d \in Devices
               PROVE  /\ cached_bytes'[d].free = Bytes(OnDevice(cached_blocks', d))
                      /\ cached_bytes'[d].live = Bytes(OnDevice(live_blocks', d))
    BY DEF BooksBalance, OnDevice
  <2>1. /\ cached_bytes[d].free = Bytes(OnDevice(cached_blocks, d))
        /\ cached_bytes[d].live = Bytes(OnDevice(live_blocks, d))
        /\ cached_bytes[d].free \in Int
    BY <1>0, BooksAre DEF IInv, TypeOK
  <2>2. /\ Bytes(OnDevice(live_blocks \union {k}, d)) = IF k.device = d THEN Bytes(OnDevice(live_blocks, d)) + k.bytes
                                                               ELSE Bytes(OnDevice(live_blocks, d))
        /\ Bytes(OnDevice(live_blocks, d)) \in Nat
    BY <1>2, <2>0, BooksAdd
  <2>3. cached_bytes'[d].free = cached_bytes[d].free
    BY <1>9, <2>1
  <2>4. cached_bytes'[d].live = Bytes(OnDevice(live_blocks', d))
    BY <1>3, <1>9, <2>1, <2>2
  <2> QED
    BY <1>3, <2>1, <2>3, <2>4
<1> QED
  BY <1>5, <1>10, <1>11, <1>12, <1>13, <1>14, <1>15, <1>16 DEF IInv

\* A block that is not to be cached leaves live_blocks with its host.
LEMMA FreeUncachedStep ==
    ASSUME IInv, NEW h \in Hosts, h \notin Carrying, NEW b \in live_blocks, Moves(h, "release", b),
           live_blocks' = live_blocks \ {b}, Account(b.device, 0, -b.bytes), held' = held \ {b.d_ptr},
           UNCHANGED <<world, cached_blocks, max_cached_bytes, heap, queue, faults>>
    PROVE  IInv'
<1>0. TypeOK /\ Requesting /\ OnePlace /\ OwnMemory /\ NullMemory /\ StreamSafe /\ EventsFollow
  BY DEF IInv
<1>1. /\ b \in BlockDescriptors /\ b \in Blocks /\ b \notin cached_blocks
      /\ \A g \in Carrying : search_key[g] # b
  BY <1>0 DEF TypeOK, Blocks, OnePlace
<1>2. /\ pc' \in [Hosts -> Locations]
      /\ search_key' \in [Hosts -> BlockDescriptors \union {Null}]
      /\ search_key'[h] = b
      /\ \A g \in Hosts : g # h => pc'[g] = pc[g] /\ search_key'[g] = search_key[g]
      /\ Requesting' /\ Carrying' = Carrying \union {h}
  <2>1. "release" \in Locations
    BY DEF Locations
  <2> QED
    BY <1>0, <1>1, <2>1, HostMoves
<1>3. /\ Carried' = Carried \union {b}
      /\ \A g \in Carrying : g # h /\ search_key'[g] = search_key[g]
  BY <1>0, <1>2, CarriedMoves DEF Carrying
<1>4. Blocks' = Blocks
  <2>1. Blocks' = cached_blocks' \union live_blocks' \union Carried'
    BY DEF Blocks, Carried
  <2> QED
    BY <1>3, <2>1, BlocksAre
<1>5. b.device \in Devices /\ b.bytes \in Nat /\ -b.bytes \in Int /\ 0 \in Int
  BY <1>1 DEF BlockDescriptors
<1>6. /\ cached_bytes' \in [Devices -> [free : Int, live : Int]]
      /\ \A e \in Devices :
           /\ cached_bytes'[e].free = IF e = b.device THEN cached_bytes[e].free + 0 ELSE cached_bytes[e].free
           /\ cached_bytes'[e].live = IF e = b.device THEN cached_bytes[e].live + (-b.bytes) ELSE cached_bytes[e].live
  BY <1>0, <1>5, Accounts, Zenon
<1>7. TypeOK'
  <2>1. IsFiniteSet(live_blocks')
    BY <1>0, FS_RemoveElement DEF TypeOK
  <2> QED
    BY <1>0, <1>2, <1>6, <2>1 DEF TypeOK, Locations
<1>8. OnePlace'
  <2>1. cached_blocks' \intersect live_blocks' = {}
    BY <1>0 DEF OnePlace
  <2>2. \A g \in Carrying' : /\ search_key'[g] \notin cached_blocks' \union live_blocks'
                             /\ \A f \in Carrying' : search_key'[f] = search_key'[g] => f = g
    BY <1>0, <1>1, <1>2, <1>3 DEF OnePlace
  <2> QED
    BY <1>4, <2>1, <2>2, MovedBlocks DEF OnePlace
<1>9. OwnMemory'
  <2>1. "EventDestroy" \notin faults => held \ {b.d_ptr} \subseteq {c.d_ptr : c \in live_blocks \ {b}} \union {Null}
    BY <1>0 DEF OwnMemory
  <2> QED
    BY <1>4, <2>1, MovedBlocks DEF OwnMemory
<1>10. NullMemory'
  <2>1. "Malloc" \notin faults' => Null \notin {c.d_ptr : c \in Blocks'} /\ Null \notin held
    BY <1>4, MovedBlocks
  <2> QED
    BY <2>1 DEF NullMemory
<1>11. StreamSafe' /\ EventsFollow'
  BY <1>0, <1>4 DEF StreamSafe, EventsFollow, Queued, HeapPtrs
<1>12. NoLeak'
  BY <1>4, MovedBlocks
<1>13. BooksBalance'
  <2>0. live_blocks \in SUBSET BlockDescriptors /\ IsFiniteSet(live_blocks)
    BY <1>0 DEF TypeOK
  <2> SUFFICES ASSUME NEW d \in Devices
               PROVE  /\ cached_bytes'[d].free = Bytes(OnDevice(cached_blocks', d))
                      /\ cached_bytes'[d].live = Bytes(OnDevice(live_blocks', d))
    BY DEF BooksBalance, OnDevice
  <2>1. /\ cached_bytes[d].free = Bytes(OnDevice(cached_blocks, d))
        /\ cached_bytes[d].live = Bytes(OnDevice(live_blocks, d))
        /\ cached_bytes[d].free \in Int
    BY <1>0, BooksAre DEF IInv, TypeOK
  <2>2. /\ Bytes(OnDevice(live_blocks \ {b}, d)) = IF b.device = d THEN Bytes(OnDevice(live_blocks, d)) - b.bytes
                                                          ELSE Bytes(OnDevice(live_blocks, d))
        /\ Bytes(OnDevice(live_blocks, d)) \in Nat
    BY <2>0, BooksRemove
  <2>3. cached_bytes'[d].free = cached_bytes[d].free
    BY <1>6, <2>1
  <2>4. cached_bytes'[d].live = Bytes(OnDevice(live_blocks', d))
    BY <1>5, <1>6, <2>1, <2>2
  <2> QED
    BY <2>1, <2>3, <2>4
<1> QED
  BY <1>2, <1>7, <1>8, <1>9, <1>10, <1>11, <1>12, <1>13 DEF IInv

\* Recording an event puts it behind everything in its stream, and keeps what
\* the other events follow.
LEMMA Recorded ==
    ASSUME TypeOK, NEW s \in Streams, NEW e \in Events, Record(s, e)
    PROVE  /\ queue' \in [Streams -> Seq(Item)]
           /\ \A t \in Streams : Items(queue'[t]) \subseteq Items(queue[t]) \union {e}
           /\ \A x : x # e => Followed(queue'[s], x, e)
           /\ \A t \in Streams : \A x, f :
                x # e /\ f # e /\ Followed(queue[t], x, f) => Followed(queue'[t], x, f)
<1>1. queue \in [Streams -> Seq(Item)] /\ e \in Item
  BY DEF TypeOK, Item
<1>2. PICK m \in [Streams -> Seq(Item)] :
        /\ queue' = [m EXCEPT ![s] = Append(m[s], e)]
        /\ \A t \in Streams : Items(m[t]) \subseteq Items(queue[t])
        /\ \A t \in Streams : \A x, f : f # e /\ Followed(queue[t], x, f) => Followed(m[t], x, f)
  <2>1. CASE Ready(e) /\ queue' = [queue EXCEPT ![s] = Append(@, e)]
    BY <1>1, <2>1
  <2>2. CASE \E r \in Streams : \E i \in DOMAIN queue[r] :
               /\ queue[r][i] = e
               /\ queue' = [[queue EXCEPT ![r] = Removed(@, i)] EXCEPT ![s] = Append(@, e)]
    <3>0. PICK r \in Streams : \E i \in DOMAIN queue[r] :
            /\ queue[r][i] = e
            /\ queue' = [[queue EXCEPT ![r] = Removed(@, i)] EXCEPT ![s] = Append(@, e)]
      BY <2>2
    <3>1. PICK i \in DOMAIN queue[r] :
            /\ queue[r][i] = e
            /\ queue' = [[queue EXCEPT ![r] = Removed(@, i)] EXCEPT ![s] = Append(@, e)]
      BY <3>0
    <3> DEFINE m == [queue EXCEPT ![r] = Removed(queue[r], i)]
    <3>2. queue[r] \in Seq(Item)
      BY <1>1
    <3>3. Removed(queue[r], i) \in Seq(Item) /\ Items(Removed(queue[r], i)) \subseteq Items(queue[r])
      BY <3>2, QueueRemoved, ItemsRemoved
    <3>4. \A x, f : f # e /\ Followed(queue[r], x, f) => Followed(Removed(queue[r], i), x, f)
      BY <3>1, <3>2, FollowedRemoved
    <3>5. /\ m \in [Streams -> Seq(Item)] /\ m[r] = Removed(queue[r], i)
          /\ \A t \in Streams : t # r => m[t] = queue[t]
      BY <1>1, <3>3
    <3>6. queue' = [m EXCEPT ![s] = Append(m[s], e)]
      BY <1>1, <3>1
    <3> HIDE DEF m
    <3>7. \A t \in Streams : /\ Items(m[t]) \subseteq Items(queue[t])
                              /\ \A x, f : f # e /\ Followed(queue[t], x, f) => Followed(m[t], x, f)
      <4> TAKE t \in Streams
      <4>1. CASE t = r
        BY <3>3, <3>4, <3>5, <4>1
      <4>2. CASE t # r
        BY <3>5, <4>2
      <4> QED
        BY <4>1, <4>2
    <3> QED
      BY <3>5, <3>6, <3>7
  <2> QED
    BY <2>1, <2>2 DEF Record
<1>3. m[s] \in Seq(Item) /\ Append(m[s], e) \in Seq(Item)
  BY <1>1, QueueAppend
<1>4. /\ queue'[s] = Append(m[s], e) /\ queue' \in [Streams -> Seq(Item)]
      /\ \A t \in Streams : t # s => queue'[t] = m[t]
  BY <1>2, <1>3
<1>5. Items(Append(m[s], e)) = Items(m[s]) \union {e}
  BY <1>1, <1>3, ItemsAppend
<1>6. \A x : x # e => Followed(Append(m[s], e), x, e)
  BY <1>1, <1>3, FollowedByLast
<1>7. \A x, f : x # e /\ Followed(m[s], x, f) => Followed(Append(m[s], e), x, f)
  BY <1>1, <1>3, FollowedAppend
<1>8. \A t \in Streams : /\ Items(queue'[t]) \subseteq Items(queue[t]) \union {e}
                          /\ \A x, f : x # e /\ f # e /\ Followed(queue[t], x, f) => Followed(queue'[t], x, f)
  <2> TAKE t \in Streams
  <2>1. CASE t = s
    BY <1>2, <1>4, <1>5, <1>7, <2>1
  <2>2. CASE t # s
    BY <1>2, <1>4, <2>2
  <2> QED
    BY <2>1, <2>2
<1> QED
  BY <1>4, <1>6, <1>8

\* A freed block goes to the cache, behind the kernels that still use it.
LEMMA RecacheStep ==
    ASSUME IInv, NEW h \in Hosts, h \notin Carrying, NEW b \in live_blocks, Moves(h, "idle", Null),
           Recache(b), faults \subseteq faults', faults' \subseteq Calls,
           UNCHANGED <<world, max_cached_bytes, heap>>
    PROVE  IInv'
<1>0. TypeOK /\ Requesting /\ OnePlace /\ OwnMemory /\ NullMemory /\ StreamSafe /\ EventsFollow
  BY DEF IInv
<1>1. /\ b \in BlockDescriptors /\ b \in Blocks /\ b \notin cached_blocks
      /\ \A g \in Carrying : search_key[g] # b
  BY <1>0 DEF TypeOK, Blocks, OnePlace
<1>2. /\ Record(b.associated_stream, b.ready_event)
      /\ live_blocks' = live_blocks \ {b} /\ cached_blocks' = cached_blocks \union {b}
      /\ Account(b.device, b.bytes, -b.bytes) /\ held' = held \ {b.d_ptr}
  BY DEF Recache
<1> DEFINE s == b.associated_stream
           e == b.ready_event
<1>3. s \in Streams /\ e \in Events
  BY <1>0, <1>1 DEF OnePlace, BlockDescriptors
<1>4. /\ queue' \in [Streams -> Seq(Item)]
      /\ \A t \in Streams : Items(queue'[t]) \subseteq Items(queue[t]) \union {e}
      /\ \A x : x # e => Followed(queue'[s], x, e)
      /\ \A t \in Streams : \A x, f :
           x # e /\ f # e /\ Followed(queue[t], x, f) => Followed(queue'[t], x, f)
  BY <1>0, <1>2, <1>3, Recorded
<1>5. /\ pc' \in [Hosts -> Locations]
      /\ search_key' \in [Hosts -> BlockDescriptors \union {Null}]
      /\ \A g \in Hosts : g # h => pc'[g] = pc[g] /\ search_key'[g] = search_key[g]
      /\ Requesting' /\ Carrying' = Carrying \ {h}
  <2>1. "idle" \in Locations
    BY DEF Locations
  <2> QED
    BY <1>0, <2>1, HostMoves
<1>6. /\ Carrying' = Carrying /\ Carried' = Carried
      /\ \A g \in Carrying : search_key'[g] = search_key[g]
  BY <1>0, <1>5, CarriedMoves DEF Carrying
<1>7. Blocks' = Blocks
  <2>1. Blocks' = cached_blocks' \union live_blocks' \union Carried'
    BY DEF Blocks, Carried
  <2> QED
    BY <1>2, <1>6, <2>1, BlocksAre
<1>8. b.device \in Devices /\ b.bytes \in Nat /\ b.bytes \in Int /\ -b.bytes \in Int
  BY <1>1 DEF BlockDescriptors
<1>9. /\ cached_bytes' \in [Devices -> [free : Int, live : Int]]
      /\ \A d \in Devices :
           /\ cached_bytes'[d].free = IF d = b.device THEN cached_bytes[d].free + b.bytes ELSE cached_bytes[d].free
           /\ cached_bytes'[d].live = IF d = b.device THEN cached_bytes[d].live + (-b.bytes) ELSE cached_bytes[d].live
  BY <1>0, <1>2, <1>8, Accounts, Zenon
<1>10. TypeOK'
  <2>1. IsFiniteSet(live_blocks') /\ IsFiniteSet(cached_blocks')
    BY <1>0, <1>2, FS_RemoveElement, FS_AddElement DEF TypeOK
  <2> QED
    BY <1>0, <1>1, <1>2, <1>4, <1>5, <1>9, <2>1 DEF TypeOK, Locations, Item
<1>11. OnePlace'
  <2>1. cached_blocks' \intersect live_blocks' = {}
    BY <1>0, <1>2 DEF OnePlace
  <2>2. \A g \in Carrying' : /\ search_key'[g] \notin cached_blocks' \union live_blocks'
                             /\ \A f \in Carrying' : search_key'[f] = search_key'[g] => f = g
    BY <1>0, <1>1, <1>2, <1>6 DEF OnePlace
  <2> QED
    BY <1>7, <2>1, <2>2, MovedBlocks DEF OnePlace
<1>12. OwnMemory'
  <2>1. "EventDestroy" \notin faults => held \ {b.d_ptr} \subseteq {c.d_ptr : c \in live_blocks \ {b}} \union {Null}
    BY <1>0 DEF OwnMemory
  <2> QED
    BY <1>2, <1>7, <2>1, MovedBlocks DEF OwnMemory
<1>13. NullMemory'
  <2>1. "Malloc" \notin faults' => Null \notin {c.d_ptr : c \in Blocks'} /\ Null \notin held
    BY <1>7, MovedBlocks
  <2> QED
    BY <1>2, <2>1 DEF NullMemory
<1>14. StreamSafe'
  <2> SUFFICES ASSUME faults \intersect {"EventDestroy", "EventQuery"} = {}, NEW t \in Streams, NEW x \in Ptrs,
                      x \in Items(queue'[t])
               PROVE  x \in HeapPtrs /\ \A c \in Blocks : c.d_ptr = x => c.associated_stream = t
    BY <1>7 DEF StreamSafe, Queued, Items, HeapPtrs
  <2>1. x # e
    BY <1>3, HandlesAssumption
  <2>2. x \in Items(queue[t])
    BY <1>4, <2>1
  <2> QED
    BY <1>0, <2>2 DEF StreamSafe, Queued, Items
<1>15. EventsFollow'
  <2> SUFFICES ASSUME faults \intersect {"EventDestroy", "EventQuery"} = {}, NEW c \in cached_blocks', c.d_ptr # Null,
                      NEW t \in Streams
               PROVE  Followed(queue'[t], c.d_ptr, c.ready_event)
    BY DEF EventsFollow
  <2>1. c \in Blocks /\ c.d_ptr \in Ptrs /\ c.d_ptr # e
    <3>1. c \in Blocks
      BY <1>1, <1>2 DEF Blocks
    <3>2. c \in BlockDescriptors
      BY <1>0, <3>1 DEF OnePlace
    <3>3. c.d_ptr \in Ptrs
      BY <3>2 DEF BlockDescriptors
    <3> QED
      BY <1>3, <3>1, <3>3, HandlesAssumption
  <2>2. CASE c = b
    <3>1. CASE t = s
      BY <1>4, <2>1, <2>2, <3>1
    <3>2. CASE t # s
      <4>1. b.d_ptr \notin Items(queue[t])
        BY <1>0, <1>1, <2>1, <2>2, <3>2 DEF StreamSafe, Queued, Items
      <4>2. b.d_ptr \notin Items(queue'[t])
        BY <1>4, <2>1, <2>2, <4>1
      <4> QED
        BY <2>2, <4>2 DEF Followed, Items
    <3> QED
      BY <3>1, <3>2
  <2>3. CASE c # b
    <3>1. c.ready_event # e
      BY <1>0, <1>1, <2>1, <2>3 DEF OnePlace
    <3>2. Followed(queue[t], c.d_ptr, c.ready_event)
      BY <1>0, <1>2, <2>3 DEF EventsFollow
    <3> QED
      BY <1>4, <2>1, <3>1, <3>2
  <2> QED
    BY <2>2, <2>3
<1>16. NoLeak'
  BY <1>7, MovedBlocks
<1>17. BooksBalance'
  <2>0. /\ cached_blocks \in SUBSET BlockDescriptors /\ IsFiniteSet(cached_blocks)
        /\ live_blocks \in SUBSET BlockDescriptors /\ IsFiniteSet(live_blocks)
    BY <1>0 DEF TypeOK
  <2> SUFFICES ASSUME NEW d \in Devices
               PROVE  /\ cached_bytes'[d].free = Bytes(OnDevice(cached_blocks', d))
                      /\ cached_bytes'[d].live = Bytes(OnDevice(live_blocks', d))
    BY DEF BooksBalance, OnDevice
  <2>1. /\ cached_bytes[d].free = Bytes(OnDevice(cached_blocks, d))
        /\ cached_bytes[d].live = Bytes(OnDevice(live_blocks, d))
    BY BooksAre DEF IInv
  <2>2. /\ Bytes(OnDevice(live_blocks \ {b}, d)) = IF b.device = d THEN Bytes(OnDevice(live_blocks, d)) - b.bytes
                                                          ELSE Bytes(OnDevice(live_blocks, d))
        /\ Bytes(OnDevice(live_blocks, d)) \in Nat
    BY <2>0, BooksRemove
  <2>3. Bytes(OnDevice(cached_blocks \union {b}, d)) = IF b.device = d THEN Bytes(OnDevice(cached_blocks, d)) + b.bytes
                                                              ELSE Bytes(OnDevice(cached_blocks, d))
    BY <1>1, <2>0, BooksAdd
  <2>4. cached_bytes'[d].free = Bytes(OnDevice(cached_blocks', d))
    BY <1>2, <1>9, <2>1, <2>3
  <2>5. cached_bytes'[d].live = Bytes(OnDevice(live_blocks', d))
    BY <1>2, <1>8, <1>9, <2>1, <2>2
  <2> QED
    BY <2>4, <2>5
<1> QED
  BY <1>5, <1>10, <1>11, <1>12, <1>13, <1>14, <1>15, <1>16, <1>17 DEF IInv

\* Blocks are given back to the runtime: those in freed leave the allocator,
\* the memory of those in gone is freed, after everything on their devices has
\* been executed.
LEMMA FreedBlocks ==
    ASSUME IInv, NEW freed, NEW gone, freed \subseteq gone, gone \subseteq Blocks,
           gone = freed \/ "EventDestroy" \in faults', Blocks' = Blocks \ freed,
           heap' = {a \in heap : a.ptr \notin {b.d_ptr : b \in gone}},
           Synchronize({b.device : b \in gone}),
           UNCHANGED <<world, live_blocks, held>>, cached_blocks' \subseteq cached_blocks,
           faults \subseteq faults'
    PROVE  /\ queue' \in [Streams -> Seq(Item)]
           /\ heap' \subseteq [ptr : Ptrs, device : Devices, bytes : Nat]
           /\ OwnMemory' /\ NullMemory' /\ StreamSafe' /\ EventsFollow' /\ NoLeak'
<1>0. TypeOK /\ OnePlace /\ OwnMemory /\ NullMemory /\ StreamSafe /\ EventsFollow
  BY DEF IInv
<1>1. queue \in [Streams -> Seq(Item)]
  BY <1>0 DEF TypeOK, Item
<1>2. <<>> \in Seq(Item) /\ DOMAIN <<>> = {}
  OBVIOUS
<1>3. /\ queue' \in [Streams -> Seq(Item)]
      /\ \A s \in Streams : \/ queue'[s] = <<>>
                            \/ /\ queue'[s] = queue[s]
                               /\ world.stream_device[s] \notin {b.device : b \in gone}
  BY <1>1, <1>2 DEF Synchronize
<1>4. heap' \subseteq [ptr : Ptrs, device : Devices, bytes : Nat]
  BY <1>0 DEF TypeOK
<1>5. OwnMemory'
  <2> SUFFICES ASSUME "EventDestroy" \notin faults'
               PROVE  /\ \A b \in Blocks' : b.d_ptr # Null =>
                           /\ [ptr |-> b.d_ptr, device |-> b.device, bytes |-> b.bytes] \in heap'
                           /\ \A c \in Blocks' : c.d_ptr = b.d_ptr => c = b
                      /\ held' \subseteq {b.d_ptr : b \in live_blocks'} \union {Null}
    BY DEF OwnMemory
  <2>1. gone = freed
    OBVIOUS
  <2>2. ASSUME NEW b \in Blocks', b.d_ptr # Null
        PROVE  /\ [ptr |-> b.d_ptr, device |-> b.device, bytes |-> b.bytes] \in heap'
               /\ \A c \in Blocks' : c.d_ptr = b.d_ptr => c = b
    <3>1. b \in Blocks /\ b \notin gone
      BY <2>1
    <3>2. /\ [ptr |-> b.d_ptr, device |-> b.device, bytes |-> b.bytes] \in heap
          /\ \A c \in Blocks : c.d_ptr = b.d_ptr => c = b
      BY <1>0, <2>2, <3>1 DEF OwnMemory
    <3>3. b.d_ptr \notin {c.d_ptr : c \in gone}
      BY <3>1, <3>2
    <3> QED
      BY <3>2, <3>3
  <2>3. held' \subseteq {b.d_ptr : b \in live_blocks'} \union {Null}
    BY <1>0 DEF OwnMemory
  <2> QED
    BY <2>2, <2>3
<1>6. NullMemory'
  BY <1>0 DEF NullMemory
<1>7. StreamSafe'
  <2> SUFFICES ASSUME faults' \intersect {"EventDestroy", "EventQuery"} = {}, NEW s \in Streams, NEW x \in Ptrs,
                      NEW i \in DOMAIN queue'[s], queue'[s][i] = x
               PROVE  x \in HeapPtrs' /\ \A c \in Blocks' : c.d_ptr = x => c.associated_stream = s
    BY DEF StreamSafe, Queued
  <2>1. queue'[s] = queue[s] /\ world.stream_device[s] \notin {b.device : b \in gone}
    BY <1>2, <1>3
  <2>2. x \in Queued(s) /\ faults \intersect {"EventDestroy", "EventQuery"} = {}
    BY <2>1 DEF Queued
  <2>3. x \in HeapPtrs /\ \A c \in Blocks : c.d_ptr = x => c.associated_stream = s
    BY <1>0, <2>2 DEF StreamSafe
  <2>4. ASSUME NEW b \in gone, b.d_ptr = x PROVE FALSE
    <3>1. b \in Blocks /\ b.associated_stream = s
      BY <2>3, <2>4
    <3>2. b.device = world.stream_device[s]
      BY <1>0, <3>1 DEF OnePlace
    <3> QED
      BY <2>1, <3>2
  <2>5. x \in HeapPtrs'
    <3>1. PICK a \in heap : a.ptr = x
      BY <2>3 DEF HeapPtrs
    <3>2. a \in heap'
      BY <2>4, <3>1
    <3> QED
      BY <3>1, <3>2 DEF HeapPtrs
  <2> QED
    BY <2>3, <2>5
<1>8. EventsFollow'
  <2> SUFFICES ASSUME faults \intersect {"EventDestroy", "EventQuery"} = {}, NEW c \in cached_blocks, c.d_ptr # Null,
                      NEW t \in Streams
               PROVE  Followed(queue'[t], c.d_ptr, c.ready_event)
    BY DEF EventsFollow
  <2>1. Followed(queue[t], c.d_ptr, c.ready_event)
    BY <1>0 DEF EventsFollow
  <2>2. Followed(<<>>, c.d_ptr, c.ready_event)
    BY <1>2 DEF Followed
  <2> QED
    BY <1>3, <2>1, <2>2
<1>9. NoLeak'
  <2> SUFFICES ASSUME faults \intersect {"EventCreate", "Free"} = {}, NEW a \in heap'
               PROVE  \E b \in Blocks' : b.d_ptr = a.ptr
    BY DEF NoLeak
  <2>1. PICK b \in Blocks : b.d_ptr = a.ptr
    BY DEF IInv, NoLeak
  <2>2. b \notin freed
    BY <2>1
  <2> QED
    BY <2>1, <2>2
<1> QED
  BY <1>3, <1>4, <1>5, <1>6, <1>7, <1>8, <1>9

\* The loops over cached blocks.
LEMMA FreeCachedStep ==
    ASSUME IInv, NEW h \in Hosts, h \notin Carrying,
           NEW l \in Locations \ {"insert", "release"}, NEW k \in BlockDescriptors \union {Null},
           Moves(h, l, k), l # "idle" => IsRequest(k),
           NEW freed \in SUBSET cached_blocks, NEW gone \in SUBSET cached_blocks, freed \subseteq gone,
           gone = freed \/ "EventDestroy" \in faults', FreeCached(freed, gone),
           faults \subseteq faults', faults' \subseteq Calls,
           UNCHANGED <<world, live_blocks, max_cached_bytes, held>>
    PROVE  IInv'
<1>0. TypeOK /\ Requesting /\ OnePlace
  BY DEF IInv
<1>1. /\ heap' = {a \in heap : a.ptr \notin {b.d_ptr : b \in gone}}
      /\ cached_blocks' = cached_blocks \ freed
      /\ cached_bytes' = [d \in Devices |-> [cached_bytes[d] EXCEPT !.free = @ - Bytes(OnDevice(freed, d))]]
      /\ Synchronize({b.device : b \in gone})
  BY DEF FreeCached, OnDevice
<1>2. /\ pc' \in [Hosts -> Locations]
      /\ search_key' \in [Hosts -> BlockDescriptors \union {Null}]
      /\ \A g \in Hosts : g # h => pc'[g] = pc[g] /\ search_key'[g] = search_key[g]
      /\ Requesting' /\ Carrying' = Carrying \ {h}
  BY <1>0, HostMoves
<1>3. /\ Carrying' = Carrying /\ Carried' = Carried
      /\ \A g \in Carrying : search_key'[g] = search_key[g] /\ search_key[g] \notin cached_blocks
  BY <1>0, <1>2, CarriedMoves DEF Carrying, OnePlace
<1>4. Blocks' = Blocks \ freed /\ gone \subseteq Blocks
  <2>1. Blocks' = cached_blocks' \union live_blocks' \union Carried'
    BY DEF Blocks, Carried
  <2>2. freed \intersect live_blocks = {} /\ freed \intersect Carried = {}
    BY <1>0, <1>3 DEF OnePlace, Carried
  <2> QED
    BY <1>1, <1>3, <2>1, <2>2, BlocksAre
<1>5. /\ queue' \in [Streams -> Seq(Item)]
      /\ heap' \subseteq [ptr : Ptrs, device : Devices, bytes : Nat]
      /\ OwnMemory' /\ NullMemory' /\ StreamSafe' /\ EventsFollow' /\ NoLeak'
  <2>1. cached_blocks' \subseteq cached_blocks
    BY <1>1
  <2> QED
    BY <1>1, <1>4, <2>1, FreedBlocks
<1>6. cached_blocks \in SUBSET BlockDescriptors /\ IsFiniteSet(cached_blocks)
  BY <1>0 DEF TypeOK
<1>7. ASSUME NEW d \in Devices
      PROVE  /\ Bytes(OnDevice(cached_blocks', d)) = Bytes(OnDevice(cached_blocks, d)) - Bytes(OnDevice(freed, d))
             /\ Bytes(OnDevice(freed, d)) \in Nat /\ Bytes(OnDevice(cached_blocks, d)) \in Nat
  BY <1>1, <1>6, BooksWithout
<1>8. ASSUME NEW d \in Devices
      PROVE  /\ cached_bytes'[d] \in [free : Int, live : Int]
             /\ cached_bytes'[d].free = cached_bytes[d].free - Bytes(OnDevice(freed, d))
             /\ cached_bytes'[d].live = cached_bytes[d].live
  <2>1. cached_bytes[d] \in [free : Int, live : Int]
    BY <1>0 DEF TypeOK
  <2>2. cached_bytes'[d] = [cached_bytes[d] EXCEPT !.free = @ - Bytes(OnDevice(freed, d))]
    BY <1>1
  <2> QED
    BY <1>7, <2>1, <2>2
<1>9. TypeOK'
  <2>1. IsFiniteSet(cached_blocks')
    BY <1>1, <1>6, FS_Subset
  <2>2. cached_bytes' \in [Devices -> [free : Int, live : Int]]
    BY <1>1, <1>8
  <2> QED
    BY <1>0, <1>1, <1>2, <1>5, <2>1, <2>2 DEF TypeOK, Locations, Item
<1>10. OnePlace'
  BY <1>0, <1>1, <1>3, <1>4 DEF OnePlace
<1>11. BooksBalance'
  <2> SUFFICES ASSUME NEW d \in Devices
               PROVE  /\ cached_bytes'[d].free = Bytes(OnDevice(cached_blocks', d))
                      /\ cached_bytes'[d].live = Bytes(OnDevice(live_blocks', d))
    BY DEF BooksBalance, OnDevice
  <2>1. /\ cached_bytes[d].free = Bytes(OnDevice(cached_blocks, d))
        /\ cached_bytes[d].live = Bytes(OnDevice(live_blocks, d))
    BY BooksAre DEF IInv
  <2> QED
    BY <1>7, <1>8, <2>1
<1> QED
  BY <1>2, <1>5, <1>9, <1>10, <1>11 DEF IInv

\* The memory of a block that was not to be cached is freed, or could not be.
LEMMA ReleaseStep ==
    ASSUME IInv, NEW h \in Hosts, Release(h), UNCHANGED world
    PROVE  IInv'
<1>0. TypeOK /\ Requesting /\ OnePlace /\ OwnMemory /\ NullMemory /\ StreamSafe /\ EventsFollow
  BY DEF IInv
<1> DEFINE k == search_key[h]
<1>1. h \in Carrying
  BY DEF Release, Carrying
<1>2. /\ k \in Blocks /\ k \notin cached_blocks /\ k \notin live_blocks
      /\ \A g \in Carrying \ {h} : search_key[g] # k
  BY <1>0, <1>1 DEF OnePlace, Blocks
<1>3. /\ UNCHANGED <<cached_blocks, live_blocks, cached_bytes, max_cached_bytes, held>>
      /\ Moves(h, "idle", Null)
  BY DEF Release, Return, Moves, allocator
<1>4. faults \subseteq faults' /\ faults' \subseteq Calls
  BY <1>0, FaultsGrow DEF Release
<1>5. /\ pc' \in [Hosts -> Locations]
      /\ search_key' \in [Hosts -> BlockDescriptors \union {Null}]
      /\ \A g \in Hosts : g # h => pc'[g] = pc[g] /\ search_key'[g] = search_key[g]
      /\ Requesting' /\ Carrying' = Carrying \ {h}
  <2>1. "idle" \in Locations
    BY DEF Locations
  <2> QED
    BY <1>0, <1>3, <2>1, HostMoves
<1>6. /\ Carried = {search_key[g] : g \in Carrying \ {h}} \union {k}
      /\ Carried' = {search_key[g] : g \in Carrying \ {h}}
      /\ \A g \in Carrying' : g \in Carrying \ {h} /\ search_key'[g] = search_key[g]
  BY <1>0, <1>1, <1>5, CarriedMoves DEF Carrying
<1>7. Blocks' = Blocks \ {k}
  <2>1. Blocks' = cached_blocks' \union live_blocks' \union Carried'
    BY DEF Blocks, Carried
  <2> QED
    BY <1>2, <1>3, <1>6, <2>1, BlocksAre
<1>8. OnePlace'
  BY <1>0, <1>3, <1>6, <1>7 DEF OnePlace
<1>9. BooksBalance'
  BY <1>3 DEF IInv, BooksBalance
<1>10. /\ queue' \in [Streams -> Seq(Item)]
       /\ heap' \subseteq [ptr : Ptrs, device : Devices, bytes : Nat]
       /\ OwnMemory' /\ NullMemory' /\ StreamSafe' /\ EventsFollow' /\ NoLeak'
  <2>1. CASE /\ heap' = {a \in heap : a.ptr # k.d_ptr} /\ Synchronize({k.device})
    <3>1. heap' = {a \in heap : a.ptr \notin {b.d_ptr : b \in {k}}}
      BY <2>1
    <3>2. {b.device : b \in {k}} = {k.device} /\ {k} \subseteq Blocks /\ {k} \subseteq {k}
      BY <1>2
    <3>3. Synchronize({b.device : b \in {k}})
      BY <2>1, <3>2
    <3> HIDE DEF k
    <3> QED
      BY <1>3, <1>4, <1>7, <3>1, <3>2, <3>3, FreedBlocks
  <2>2. CASE UNCHANGED <<heap, queue>> /\ ((~Freeable(k) /\ Works) \/ Fails("Free"))
    <3> HIDE DEF k
    <3>1. queue' \in [Streams -> Seq(Item)] /\ heap' \subseteq [ptr : Ptrs, device : Devices, bytes : Nat]
      BY <1>0, <2>2 DEF TypeOK, Item
    <3>2. OwnMemory' /\ NullMemory'
      BY <1>0, <1>3, <1>4, <1>7, <2>2 DEF OwnMemory, NullMemory
    <3>3. StreamSafe' /\ EventsFollow'
      BY <1>0, <1>3, <1>4, <1>7, <2>2 DEF StreamSafe, EventsFollow, Queued, HeapPtrs
    <3>4. NoLeak'
      <4> SUFFICES ASSUME faults' \intersect {"EventCreate", "Free"} = {}, NEW a \in heap
                   PROVE  \E b \in Blocks' : b.d_ptr = a.ptr
        BY <2>2 DEF NoLeak
      <4>1. PICK b \in Blocks : b.d_ptr = a.ptr
        BY <1>4 DEF IInv, NoLeak
      <4>2. k.d_ptr \notin HeapPtrs
        BY <2>2 DEF Fails, Freeable
      <4>3. b # k
        BY <4>1, <4>2 DEF HeapPtrs
      <4> QED
        BY <1>7, <4>1, <4>3
    <3> QED
      BY <3>1, <3>2, <3>3, <3>4
  <2> QED
    BY <2>1, <2>2 DEF Release
<1>11. TypeOK'
  BY <1>0, <1>3, <1>4, <1>5, <1>10 DEF TypeOK, Locations, Item
<1> QED
  BY <1>5, <1>8, <1>9, <1>10, <1>11 DEF IInv

-----------------------------------------------------------------------------
(* The actions.                                                            *)

\* A host outside insert and release carries no block.
LEMMA NotCarrying ==
    ASSUME NEW h \in Hosts, pc[h] \in {"idle", "malloc", "free_cached", "malloc_again"}
    PROVE  h \notin Carrying
BY DEF Carrying

\* A host that stays with its search key.
LEMMA KeepsKey ==
    ASSUME TypeOK, NEW h \in Hosts, NEW l, Goto(h, l), UNCHANGED search_key
    PROVE  Moves(h, l, search_key[h])
BY DEF TypeOK, Goto, Moves

LEMMA AllocateCachedStep ==
    ASSUME IInv, NEW h \in Hosts, NEW s \in Streams, NEW n \in world.sizes,
           AllocateCached(h, world.stream_device[s], n, s), UNCHANGED world
    PROVE  IInv'
<1> DEFINE k == SearchKey(world.stream_device[s], n, s)
<1>1. k \in BlockDescriptors /\ k.associated_stream = s /\ k.device = world.stream_device[s]
  BY SearchKeyType DEF IInv, TypeOK
<1>2. PICK b \in SameBin(k) : Takes(k, b) /\ TakeCached(k, b) /\ held' = held \union {b.d_ptr}
  BY DEF AllocateCached
<1>3. /\ b \in cached_blocks /\ k.device = b.device
      /\ \/ Works /\ (b.associated_stream = k.associated_stream \/ Ready(b.ready_event))
         \/ Fails("EventQuery")
  BY <1>2 DEF SameBin, Reusable, Takes
<1>4. /\ h \notin Carrying /\ Moves(h, "idle", Null)
      /\ UNCHANGED <<world, max_cached_bytes, heap, queue>>
  BY NotCarrying DEF AllocateCached, Return, Moves
<1> HIDE DEF k
<1>5. k.device = world.stream_device[k.associated_stream]
  BY <1>1
<1> QED
  BY <1>1, <1>2, <1>3, <1>4, <1>5, TakeCachedStep

LEMMA AllocateNewStep ==
    ASSUME IInv, NEW h \in Hosts, NEW s \in Streams, NEW n \in world.sizes,
           AllocateNew(h, world.stream_device[s], n, s), UNCHANGED world
    PROVE  IInv'
<1> DEFINE k == SearchKey(world.stream_device[s], n, s)
<1>1. /\ k \in BlockDescriptors /\ k.d_ptr = Null
      /\ k.associated_stream = s /\ k.device = world.stream_device[s]
  BY SearchKeyType DEF IInv, TypeOK
<1>2. /\ h \notin Carrying
      /\ \/ Works /\ Moves(h, "malloc", k)
         \/ Fails("SetDevice") /\ Moves(h, "idle", Null)
      /\ UNCHANGED <<world, cached_blocks, live_blocks, cached_bytes, max_cached_bytes, heap, queue, held>>
  BY NotCarrying DEF AllocateNew, Return, Use, Goto, Moves, allocator
<1> HIDE DEF k
<1>3. IsRequest(k)
  BY <1>1 DEF IsRequest
<1>4. TypeOK /\ max_cached_bytes' \in Nat
  BY <1>2 DEF IInv, TypeOK
<1>5. faults \subseteq faults' /\ faults' \subseteq Calls
  BY <1>2, <1>4, FaultsGrow
<1>6. CASE Moves(h, "malloc", k)
  <2>1. "malloc" \in Locations \ {"insert", "release"}
    BY DEF Locations
  <2> QED
    BY <1>1, <1>2, <1>3, <1>4, <1>5, <1>6, <2>1, SameBlocks
<1>7. CASE Moves(h, "idle", Null)
  <2>1. "idle" \in Locations \ {"insert", "release"}
    BY DEF Locations
  <2> QED
    BY <1>2, <1>4, <1>5, <1>7, <2>1, SameBlocks
<1> QED
  BY <1>2, <1>6, <1>7

LEMMA MallocedStep ==
    ASSUME IInv, NEW h \in Hosts, pc[h] \in {"malloc", "malloc_again"}, Malloced(h),
           UNCHANGED <<world, allocator, queue, held>>
    PROVE  IInv'
<1> DEFINE k == search_key[h]
<1>0. TypeOK /\ Requesting
  BY DEF IInv
<1>1. /\ h \notin Carrying /\ k \in BlockDescriptors
      /\ k.device = world.stream_device[k.associated_stream]
  BY <1>0, NotCarrying DEF Requesting
<1>2. PICK p \in Ptrs \ HeapPtrs :
        /\ heap' = heap \union {[ptr |-> p, device |-> k.device, bytes |-> k.bytes]}
        /\ CreateEvent(h, p)
  BY DEF Malloced
<1>3. faults \subseteq faults' /\ faults' \subseteq Calls
  BY <1>0, <1>2, FaultsGrow DEF CreateEvent
<1>4. CASE Fails("EventCreate") /\ Return(h, "cudaErrorUnknown")
  <2>1. Moves(h, "idle", Null) /\ "EventCreate" \in faults'
    BY <1>4 DEF Return, Moves, Fails
  <2>2. heap \subseteq heap' /\ heap' \subseteq [ptr : Ptrs, device : Devices, bytes : Nat]
    BY <1>0, <1>1, <1>2 DEF TypeOK, BlockDescriptors
  <2> QED
    BY <1>1, <1>3, <2>1, <2>2, LostBlock
<1>5. ASSUME NEW e \in Events \ UsedEvents, Goto(h, "insert"),
             search_key' = [search_key EXCEPT ![h] = [@ EXCEPT !.d_ptr = p, !.ready_event = e]]
      PROVE  IInv'
  <2> DEFINE m == [k EXCEPT !.d_ptr = p, !.ready_event = e]
  <2>1. Moves(h, "insert", m)
    BY <1>5 DEF Goto, Moves
  <2>2. /\ m \in BlockDescriptors /\ m.ready_event = e /\ m.d_ptr = p
        /\ m.device = k.device /\ m.bytes = k.bytes /\ m.associated_stream = k.associated_stream
    BY <1>1 DEF BlockDescriptors
  <2>3. e \in Events \ {b.ready_event : b \in Blocks}
    BY DEF UsedEvents
  <2> HIDE DEF m
  <2>4. /\ m.d_ptr \in Ptrs \ HeapPtrs
        /\ heap' = heap \union {[ptr |-> m.d_ptr, device |-> m.device, bytes |-> m.bytes]}
        /\ m.device = world.stream_device[m.associated_stream]
        /\ m.ready_event \in Events \ {b.ready_event : b \in Blocks}
    BY <1>1, <1>2, <2>2, <2>3
  <2> QED
    BY <1>1, <1>3, <2>1, <2>2, <2>4, NewBlock
<1> QED
  BY <1>2, <1>4, <1>5 DEF CreateEvent

LEMMA FailsThenCreatesEventStep ==
    ASSUME IInv, NEW h \in Hosts, pc[h] = "malloc", FailsThenCreatesEvent(h),
           UNCHANGED <<world, allocator, queue, held, heap>>
    PROVE  IInv'
<1> DEFINE k == search_key[h]
<1>0. TypeOK /\ Requesting
  BY DEF IInv
<1>1. /\ h \notin Carrying /\ k \in BlockDescriptors /\ k.d_ptr = Null
      /\ k.device = world.stream_device[k.associated_stream]
  BY <1>0, NotCarrying DEF Requesting
<1>2. faults \subseteq faults' /\ faults' \subseteq Calls /\ "Malloc" \in faults'
  BY <1>0, FaultsGrow DEF FailsThenCreatesEvent, Fails
<1>3. PICK e \in Events \ UsedEvents : search_key' = [search_key EXCEPT ![h] = [@ EXCEPT !.ready_event = e]]
  BY DEF FailsThenCreatesEvent
<1> DEFINE m == [k EXCEPT !.ready_event = e]
<1>4. Moves(h, "insert", m)
  BY <1>3 DEF FailsThenCreatesEvent, Goto, Moves
<1>5. /\ m \in BlockDescriptors /\ m.ready_event = e /\ m.d_ptr = Null
      /\ m.device = k.device /\ m.associated_stream = k.associated_stream
  BY <1>1 DEF BlockDescriptors
<1>6. e \in Events \ {b.ready_event : b \in Blocks}
  BY DEF UsedEvents
<1> HIDE DEF m
<1>7. /\ m.device = world.stream_device[m.associated_stream]
      /\ m.ready_event \in Events \ {b.ready_event : b \in Blocks}
  BY <1>1, <1>5, <1>6
<1> QED
  BY <1>1, <1>2, <1>4, <1>5, <1>7, NewBlock

\* A host that goes on with its request, or gives it up, and nothing else.
LEMMA RequestStep ==
    ASSUME IInv, NEW h \in Hosts, pc[h] \in {"malloc", "free_cached", "malloc_again"},
           NEW l \in {"malloc", "free_cached", "malloc_again"},
           (Goto(h, l) /\ UNCHANGED search_key) \/ Moves(h, "idle", Null),
           faults \subseteq faults', faults' \subseteq Calls,
           UNCHANGED <<world, allocator, heap, queue, held>>
    PROVE  IInv'
<1>0. TypeOK /\ Requesting
  BY DEF IInv
<1>1. h \notin Carrying /\ search_key[h] \in BlockDescriptors /\ IsRequest(search_key[h])
  BY <1>0, NotCarrying DEF Requesting, IsRequest
<1>2. /\ max_cached_bytes' \in Nat
      /\ UNCHANGED <<world, cached_blocks, live_blocks, cached_bytes, heap, queue, held>>
  BY <1>0 DEF TypeOK, allocator
<1>3. l \in Locations \ {"insert", "release"} /\ "idle" \in Locations \ {"insert", "release"}
  BY DEF Locations
<1>4. CASE Goto(h, l) /\ UNCHANGED search_key
  <2>1. Moves(h, l, search_key[h])
    BY <1>0, <1>4, KeepsKey
  <2> QED
    BY <1>1, <1>2, <1>3, <2>1, SameBlocks
<1>5. CASE Moves(h, "idle", Null)
  BY <1>1, <1>2, <1>3, <1>5, SameBlocks
<1> QED
  BY <1>4, <1>5

LEMMA MallocStep ==
    ASSUME IInv, NEW h \in Hosts, Malloc(h), UNCHANGED world
    PROVE  IInv'
<1>0. TypeOK /\ pc[h] = "malloc" /\ UNCHANGED <<world, allocator, queue, held>>
  BY DEF IInv, Malloc
<1>1. CASE Malloced(h)
  BY <1>0, <1>1, MallocedStep
<1>2. CASE Works /\ Goto(h, "free_cached") /\ UNCHANGED <<heap, search_key>>
  <2>1. faults \subseteq faults' /\ faults' \subseteq Calls
    BY <1>0, <1>2, FaultsGrow
  <2> QED
    BY <1>0, <1>2, <2>1, RequestStep
<1>3. CASE FailsThenCreatesEvent(h) /\ UNCHANGED heap
  BY <1>0, <1>3, FailsThenCreatesEventStep
<1> QED
  BY <1>1, <1>2, <1>3 DEF Malloc

LEMMA MallocAgainStep ==
    ASSUME IInv, NEW h \in Hosts, MallocAgain(h), UNCHANGED world
    PROVE  IInv'
<1>0. TypeOK /\ pc[h] = "malloc_again" /\ UNCHANGED <<world, allocator, queue, held>>
  BY DEF IInv, MallocAgain
<1>1. CASE Malloced(h)
  BY <1>0, <1>1, MallocedStep
<1>2. CASE (Works \/ Fails("Malloc")) /\ Moves(h, "idle", Null) /\ UNCHANGED heap
  <2>1. faults \subseteq faults' /\ faults' \subseteq Calls
    BY <1>0, <1>2, FaultsGrow
  <2> QED
    BY <1>0, <1>2, <2>1, RequestStep
<1> QED
  BY <1>1, <1>2 DEF MallocAgain, Return, Moves

\* What a loop that was stopped has freed.
LEMMA FreedUpTo ==
    ASSUME NEW blocks \in SUBSET cached_blocks, NEW b \in blocks, NEW switches,
           FreeCachedUpTo(blocks, b, switches), TypeOK
    PROVE  /\ \E freed \in SUBSET cached_blocks, gone \in SUBSET cached_blocks :
                /\ freed \subseteq gone
                /\ gone = freed \/ "EventDestroy" \in faults'
                /\ FreeCached(freed, gone)
           /\ faults \subseteq faults' /\ faults' \subseteq Calls
<1>1. PICK freed \in SUBSET (blocks \ {b}) :
        \/ Works /\ FreeCached(freed, freed)
        \/ Fails("Free") /\ FreeCached(freed, freed)
        \/ Fails("SetDevice") /\ FreeCached(freed, freed)
        \/ Fails("EventDestroy") /\ FreeCached(freed, freed \union {b})
  BY DEF FreeCachedUpTo
<1>2. faults \subseteq faults' /\ faults' \subseteq Calls
  BY <1>1, FaultsGrow
<1>3. freed \in SUBSET cached_blocks /\ freed \union {b} \in SUBSET cached_blocks
  OBVIOUS
<1>4. CASE FreeCached(freed, freed)
  BY <1>2, <1>3, <1>4
<1>5. CASE Fails("EventDestroy") /\ FreeCached(freed, freed \union {b})
  <2>1. "EventDestroy" \in faults' /\ freed \subseteq freed \union {b}
    BY <1>5 DEF Fails
  <2> QED
    BY <1>2, <1>3, <1>5, <2>1
<1> QED
  BY <1>1, <1>4, <1>5

LEMMA FreeDeviceCacheStep ==
    ASSUME IInv, NEW h \in Hosts, FreeDeviceCache(h), UNCHANGED world
    PROVE  IInv'
<1> DEFINE blocks == {b \in cached_blocks : b.device = search_key[h].device}
<1>0. /\ TypeOK /\ Requesting /\ pc[h] = "free_cached"
      /\ UNCHANGED <<world, live_blocks, max_cached_bytes, held>>
  BY DEF IInv, FreeDeviceCache
<1>1. h \notin Carrying /\ search_key[h] \in BlockDescriptors /\ IsRequest(search_key[h])
  BY <1>0, NotCarrying DEF Requesting, IsRequest
<1>2. blocks \in SUBSET cached_blocks /\ blocks \subseteq blocks
  OBVIOUS
<1>3. "malloc_again" \in Locations \ {"insert", "release"} /\ "idle" \in Locations \ {"insert", "release"}
  BY DEF Locations
<1>4. \/ Works /\ FreeCached(blocks, blocks) /\ Goto(h, "malloc_again") /\ UNCHANGED search_key
      \/ (\E b \in blocks : FreeCachedUpTo(blocks, b, FALSE)) /\ Moves(h, "idle", Null)
  BY DEF FreeDeviceCache, Return, Moves
<1> HIDE DEF blocks
<1>5. CASE Works /\ FreeCached(blocks, blocks) /\ Goto(h, "malloc_again") /\ UNCHANGED search_key
  <2>1. Moves(h, "malloc_again", search_key[h])
    BY <1>0, <1>5, KeepsKey
  <2>2. faults \subseteq faults' /\ faults' \subseteq Calls
    BY <1>0, <1>5, FaultsGrow
  <2> QED
    BY <1>0, <1>1, <1>2, <1>3, <1>5, <2>1, <2>2, FreeCachedStep
<1>6. CASE (\E b \in blocks : FreeCachedUpTo(blocks, b, FALSE)) /\ Moves(h, "idle", Null)
  <2>1. PICK b \in blocks : FreeCachedUpTo(blocks, b, FALSE)
    BY <1>6
  <2>2. /\ \E freed \in SUBSET cached_blocks, gone \in SUBSET cached_blocks :
             freed \subseteq gone /\ (gone = freed \/ "EventDestroy" \in faults') /\ FreeCached(freed, gone)
        /\ faults \subseteq faults' /\ faults' \subseteq Calls
    BY <1>0, <1>2, <2>1, FreedUpTo
  <2>3. PICK freed \in SUBSET cached_blocks, gone \in SUBSET cached_blocks :
             freed \subseteq gone /\ (gone = freed \/ "EventDestroy" \in faults') /\ FreeCached(freed, gone)
    BY <2>2
  <2> QED
    BY <1>0, <1>1, <1>3, <1>6, <2>2, <2>3, FreeCachedStep
<1> QED
  BY <1>4, <1>5, <1>6

LEMMA FreeAllCachedStep ==
    ASSUME IInv, NEW h \in Hosts, FreeAllCached(h), UNCHANGED world
    PROVE  IInv'
<1>0. /\ TypeOK /\ h \notin Carrying /\ Moves(h, "idle", Null)
      /\ UNCHANGED <<world, live_blocks, max_cached_bytes, held>>
  BY NotCarrying DEF IInv, FreeAllCached, Return, Moves
<1>1. "idle" \in Locations \ {"insert", "release"}
  BY DEF Locations
<1>2. \/ (Works \/ Fails("SetDevice")) /\ FreeCached(cached_blocks, cached_blocks)
      \/ \E b \in cached_blocks : FreeCachedUpTo(cached_blocks, b, TRUE)
  BY DEF FreeAllCached
<1>3. /\ \E freed \in SUBSET cached_blocks, gone \in SUBSET cached_blocks :
           freed \subseteq gone /\ (gone = freed \/ "EventDestroy" \in faults') /\ FreeCached(freed, gone)
      /\ faults \subseteq faults' /\ faults' \subseteq Calls
  <2>1. CASE (Works \/ Fails("SetDevice")) /\ FreeCached(cached_blocks, cached_blocks)
    <3>1. faults \subseteq faults' /\ faults' \subseteq Calls
      BY <1>0, <2>1, FaultsGrow
    <3>2. cached_blocks \in SUBSET cached_blocks
      OBVIOUS
    <3> QED
      BY <2>1, <3>1, <3>2
  <2>2. CASE \E b \in cached_blocks : FreeCachedUpTo(cached_blocks, b, TRUE)
    <3>1. PICK b \in cached_blocks : FreeCachedUpTo(cached_blocks, b, TRUE)
      BY <2>2
    <3>2. cached_blocks \in SUBSET cached_blocks
      OBVIOUS
    <3> QED
      BY <1>0, <3>1, <3>2, FreedUpTo
  <2> QED
    BY <1>2, <2>1, <2>2
<1>4. PICK freed \in SUBSET cached_blocks, gone \in SUBSET cached_blocks :
        freed \subseteq gone /\ (gone = freed \/ "EventDestroy" \in faults') /\ FreeCached(freed, gone)
  BY <1>3
<1>5. Null \in BlockDescriptors \union {Null} /\ ("idle" # "idle" => IsRequest(Null))
  OBVIOUS
<1> QED
  BY <1>0, <1>1, <1>3, <1>4, <1>5, FreeCachedStep

LEMMA FreeToCacheStep ==
    ASSUME IInv, NEW h \in Hosts, NEW b \in live_blocks, FreeToCache(h, b), UNCHANGED world
    PROVE  IInv'
<1>0. /\ TypeOK /\ h \notin Carrying /\ Moves(h, "idle", Null)
      /\ UNCHANGED <<world, max_cached_bytes, heap>>
  BY NotCarrying DEF IInv, FreeToCache, Return, Moves
<1>1. faults \subseteq faults' /\ faults' \subseteq Calls
  BY <1>0, FaultsGrow DEF FreeToCache
<1>2. CASE Recache(b)
  BY <1>0, <1>1, <1>2, RecacheStep
<1>3. CASE UNCHANGED <<live_blocks, cached_blocks, cached_bytes, queue, held>>
  <2>1. "idle" \in Locations \ {"insert", "release"}
    BY DEF Locations
  <2>2. max_cached_bytes' \in Nat
    BY <1>0 DEF TypeOK
  <2>3. UNCHANGED <<world, cached_blocks, live_blocks, cached_bytes, heap, queue, held>>
    BY <1>0, <1>3
  <2> QED
    BY <1>0, <1>1, <2>1, <2>2, <2>3, SameBlocks
<1> QED
  BY <1>2, <1>3 DEF FreeToCache

LEMMA FreeUncachedActionStep ==
    ASSUME IInv, NEW h \in Hosts, NEW b \in live_blocks, FreeUncached(h, b), UNCHANGED world
    PROVE  IInv'
<1>0. /\ TypeOK /\ h \notin Carrying
      /\ UNCHANGED <<world, cached_blocks, max_cached_bytes, heap, queue>>
  BY NotCarrying DEF IInv, FreeUncached
<1>1. CASE /\ Works /\ Use(h, b, b.device) /\ Goto(h, "release")
           /\ live_blocks' = live_blocks \ {b}
           /\ Account(b.device, 0, -b.bytes)
           /\ held' = held \ {b.d_ptr}
  <2>1. Moves(h, "release", b) /\ UNCHANGED faults
    BY <1>1 DEF Use, Goto, Moves, Works
  <2>2. UNCHANGED <<world, cached_blocks, max_cached_bytes, heap, queue, faults>>
    BY <1>0, <2>1
  <2> QED
    BY <1>0, <1>1, <2>1, <2>2, FreeUncachedStep
<1>2. CASE /\ Fails("SetDevice") /\ Return(h, "cudaErrorUnknown")
           /\ UNCHANGED <<live_blocks, cached_bytes, held, current_device>>
  <2>1. Moves(h, "idle", Null) /\ "idle" \in Locations \ {"insert", "release"}
    BY <1>2 DEF Return, Moves, Locations
  <2>2. max_cached_bytes' \in Nat
    BY <1>0 DEF TypeOK
  <2>3. UNCHANGED <<world, cached_blocks, live_blocks, cached_bytes, heap, queue, held>>
    BY <1>0, <1>2
  <2>4. faults \subseteq faults' /\ faults' \subseteq Calls
    BY <1>0, <1>2, FaultsGrow
  <2> QED
    BY <1>0, <2>1, <2>2, <2>3, <2>4, SameBlocks
<1> QED
  BY <1>1, <1>2 DEF FreeUncached

LEMMA SetMaxCachedBytesStep ==
    ASSUME IInv, NEW h \in Hosts, NEW n \in world.ceilings, SetMaxCachedBytes(h, n), UNCHANGED world
    PROVE  IInv'
<1>0. /\ TypeOK /\ h \notin Carrying /\ Moves(h, "idle", Null)
      /\ UNCHANGED <<world, cached_blocks, live_blocks, cached_bytes, heap, queue, held, faults>>
  BY NotCarrying DEF IInv, SetMaxCachedBytes, Return, Moves
<1>1. max_cached_bytes' \in Nat
  BY <1>0, WorldAssumption DEF SetMaxCachedBytes, TypeOK
<1>2. faults \subseteq faults' /\ faults' \subseteq Calls
  BY <1>0 DEF TypeOK
<1>3. "idle" \in Locations \ {"insert", "release"}
  BY DEF Locations
<1>4. UNCHANGED <<world, cached_blocks, live_blocks, cached_bytes, heap, queue, held>>
  BY <1>0
<1> QED
  BY <1>0, <1>1, <1>2, <1>3, <1>4, SameBlocks

-----------------------------------------------------------------------------
(* The inductive invariant.                                                *)

LEMMA InitIInv ==
    ASSUME Init
    PROVE  IInv
<1>1. /\ Carrying = {} /\ Blocks = {}
      /\ \A s \in Streams : queue[s] = <<>>
  BY DEF Init, Carrying, Blocks
<1>2. TypeOK
  <2>1. IsFiniteSet({})
    BY FS_EmptySet
  <2>2. max_cached_bytes \in Nat
    BY WorldAssumption DEF Init
  <2>3. queue \in [Streams -> Seq(Ptrs \union Events \union {Null})]
    BY DEF Init
  <2>4. cached_bytes \in [Devices -> [free : Int, live : Int]]
    BY DEF Init
  <2> QED
    BY <2>1, <2>2, <2>3, <2>4 DEF Init, TypeOK
<1>3. Requesting /\ OnePlace /\ NullMemory
  BY <1>1 DEF Init, Requesting, OnePlace, NullMemory
<1>4. OwnMemory /\ NoLeak /\ EventsFollow
  BY <1>1 DEF Init, OwnMemory, NoLeak, EventsFollow
<1>5. StreamSafe
  BY <1>1 DEF StreamSafe, Queued
<1>6. BooksBalance
  <2>1. Bytes({}) = 0
    <3>1. UNION {{b} \X (1 .. b.bytes) : b \in {}} = {}
      OBVIOUS
    <3> QED
      BY <3>1, FS_EmptySet DEF Bytes
  <2>2. \A d \in Devices : {b \in cached_blocks : b.device = d} = {} /\ {b \in live_blocks : b.device = d} = {}
    BY DEF Init
  <2> QED
    BY <2>1, <2>2 DEF Init, BooksBalance
<1> QED
  BY <1>2, <1>3, <1>4, <1>5, <1>6 DEF IInv

LEMMA StutterIInv ==
    ASSUME IInv, UNCHANGED vars
    PROVE  IInv'
<1>1. UNCHANGED <<allocator, heap, faults, locals, held, world, queue>>
  BY DEF vars, allocator, locals
<1>2. Blocks' = Blocks /\ (StreamSafe' /\ EventsFollow' => IInv')
  <2>1. queue' \in [Streams -> Seq(Item)]
    BY <1>1 DEF IInv, TypeOK, Item
  <2> QED
    BY <1>1, <2>1, QueueOnly
<1>3. StreamSafe' /\ EventsFollow'
  BY <1>1, <1>2 DEF IInv, StreamSafe, EventsFollow, Queued, HeapPtrs, allocator
<1> QED
  BY <1>2, <1>3

LEMMA NextIInv ==
    ASSUME IInv, [Next]_vars
    PROVE  IInv'
<1>0. world \in Worlds /\ world.hosts \subseteq Hosts
  BY WorldAssumption DEF IInv, TypeOK
<1>1. ASSUME NEW h \in world.hosts, Host(h), UNCHANGED world PROVE IInv'
  <2>0. h \in Hosts
    BY <1>0
  <2>1. ASSUME NEW s \in Streams, NEW n \in world.sizes,
               AllocateCached(h, world.stream_device[s], n, s) \/ AllocateNew(h, world.stream_device[s], n, s)
        PROVE  IInv'
    BY <1>1, <2>0, <2>1, AllocateCachedStep, AllocateNewStep
  <2>2. CASE Malloc(h) \/ MallocAgain(h) \/ InsertLive(h)
    BY <1>1, <2>0, <2>2, MallocStep, MallocAgainStep, InsertLiveStep
  <2>3. CASE FreeDeviceCache(h) \/ FreeAllCached(h)
    BY <1>1, <2>0, <2>3, FreeDeviceCacheStep, FreeAllCachedStep
  <2>4. ASSUME NEW b \in live_blocks, FreeToCache(h, b) \/ FreeUncached(h, b) PROVE IInv'
    BY <1>1, <2>0, <2>4, FreeToCacheStep, FreeUncachedActionStep
  <2>5. CASE Release(h)
    BY <1>1, <2>0, <2>5, ReleaseStep
  <2>6. ASSUME NEW n \in world.ceilings, SetMaxCachedBytes(h, n) PROVE IInv'
    BY <1>1, <2>0, <2>6, SetMaxCachedBytesStep
  <2> QED
    BY <1>1, <2>1, <2>2, <2>3, <2>4, <2>5, <2>6 DEF Host
<1>2. ASSUME NEW b \in live_blocks, Launch(b), UNCHANGED world PROVE IInv'
  BY <1>2, LaunchStep
<1>3. ASSUME NEW s \in Streams, Execute(s), UNCHANGED world PROVE IInv'
  BY <1>3, ExecuteStep
<1>4. CASE UNCHANGED vars
  BY <1>4, StutterIInv
<1> QED
  BY <1>1, <1>2, <1>3, <1>4 DEF Next

\* The parts of IInv hold in every reachable state of the allocator, for any
\* threads, devices, streams, sizes, ceilings and failing runtime calls.
THEOREM AllocatorInvariant == Spec => []IInv
<1>1. Init => IInv
  BY InitIInv
<1>2. IInv /\ [Next]_vars => IInv'
  BY NextIInv
<1> QED
  BY <1>1, <1>2, PTL DEF Spec

\* "The allocator is thread-safe": between the critical sections of any number
\* of threads no memory has two owners, and what the client holds is live,
\* unless an event's destruction has failed or a cudaMalloc for another reason
\* than lack of memory.
THEOREM AllocatorOneOwner == Spec => []OneOwner
<1>1. IInv => OneOwner
  <2> SUFFICES ASSUME IInv, faults \intersect {"EventDestroy", "Malloc"} = {}
               PROVE  OneOwner
    BY DEF OneOwner
  <2>1. OnePlace /\ OwnMemory /\ NullMemory
    BY DEF IInv
  <2>2. "EventDestroy" \notin faults /\ "Malloc" \notin faults
    OBVIOUS
  <2>3. Null \notin held /\ \A b \in Blocks : b.d_ptr # Null
    BY <2>1, <2>2 DEF NullMemory
  <2>4. /\ \A b \in Blocks : [ptr |-> b.d_ptr, device |-> b.device, bytes |-> b.bytes] \in heap
        /\ \A b, c \in Blocks : b.d_ptr = c.d_ptr => b = c
        /\ held \subseteq {b.d_ptr : b \in live_blocks}
    BY <2>1, <2>2, <2>3 DEF OwnMemory
  <2> QED
    BY <2>1, <2>4 DEF OneOwner, OnePlace
<1> QED
  BY <1>1, AllocatorInvariant, PTL

\* No device memory is lost on any path through the calls, but for a block
\* whose event could not be created or that could not be freed.
THEOREM AllocatorNoLeak == Spec => []NoLeak
<1>1. IInv => NoLeak
  BY DEF IInv
<1> QED
  BY <1>1, AllocatorInvariant, PTL

\* "... and stream-safe": the memory of a kernel that has yet to execute is
\* not handed to another stream, nor freed, unless an event's destruction or
\* query has failed.
THEOREM AllocatorStreamSafe == Spec => []StreamSafe
<1>1. IInv => StreamSafe
  BY DEF IInv
<1> QED
  BY <1>1, AllocatorInvariant, PTL

\* cached_bytes are the sizes of the blocks in the two sets, always.
THEOREM AllocatorBooks == Spec => []BooksBalance
<1>1. IInv => BooksBalance
  BY DEF IInv
<1> QED
  BY <1>1, AllocatorInvariant, PTL

-----------------------------------------------------------------------------
(* The ceiling.                                                            *)

\* Taking blocks out of the cache does not raise what is cached.
LEMMA FreeCachedLowers ==
    ASSUME IInv, NEW freed \in SUBSET cached_blocks, NEW gone, FreeCached(freed, gone), NEW d \in Devices
    PROVE  ~(cached_bytes'[d].free > cached_bytes[d].free)
<1>1. cached_blocks \in SUBSET BlockDescriptors /\ IsFiniteSet(cached_blocks)
  BY DEF IInv, TypeOK
<1>2. Bytes(OnDevice(freed, d)) \in Nat
  BY <1>1, BooksWithout
<1>3. cached_bytes[d] \in [free : Int, live : Int]
  BY DEF IInv, TypeOK
<1>4. cached_bytes'[d] = [cached_bytes[d] EXCEPT !.free = @ - Bytes(OnDevice(freed, d))]
  BY DEF FreeCached, OnDevice
<1> QED
  BY <1>2, <1>3, <1>4

\* Only DeviceFree raises what is cached, by a block that fits.
LEMMA OnlyRecacheRaises ==
    ASSUME IInv, Next, NEW d \in Devices, cached_bytes'[d].free > cached_bytes[d].free
    PROVE  \E b \in live_blocks : Cacheable(b) /\ Recache(b)
<1>0. TypeOK /\ world \in Worlds /\ world.hosts \subseteq Hosts
  BY WorldAssumption DEF IInv, TypeOK
<1>1. cached_bytes[d] \in [free : Int, live : Int] /\ cached_bytes' # cached_bytes
  BY <1>0 DEF TypeOK
<1>2. ASSUME NEW h \in Hosts, Host(h)
      PROVE  \E b \in live_blocks : Cacheable(b) /\ Recache(b)
  <2>1. ASSUME NEW s \in Streams, NEW n \in world.sizes, AllocateCached(h, world.stream_device[s], n, s)
        PROVE  FALSE
    <3> DEFINE k == SearchKey(world.stream_device[s], n, s)
    <3>1. PICK b \in SameBin(k) : TakeCached(k, b)
      BY <2>1 DEF AllocateCached
    <3>2. k.device \in Devices
      BY <1>0, SearchKeyType DEF BlockDescriptors
    <3> HIDE DEF k
    <3>3. b.bytes \in Nat
      BY <1>0 DEF SameBin, TypeOK, BlockDescriptors
    <3>4. Account(k.device, -b.bytes, b.bytes) /\ -b.bytes \in Int /\ b.bytes \in Int
      BY <3>1, <3>3 DEF TakeCached
    <3>5. cached_bytes'[d].free = IF d = k.device THEN cached_bytes[d].free + (-b.bytes) ELSE cached_bytes[d].free
      BY <1>0, <3>2, <3>4, Accounts
    <3> QED
      BY <1>1, <3>3, <3>5
  <2>2. ASSUME NEW s \in Streams, NEW n \in world.sizes, AllocateNew(h, world.stream_device[s], n, s)
        PROVE  FALSE
    BY <1>1, <2>2 DEF AllocateNew, allocator
  <2>3. CASE Malloc(h) \/ MallocAgain(h) \/ Release(h)
    BY <1>1, <2>3 DEF Malloc, MallocAgain, Release, allocator
  <2>4. CASE InsertLive(h)
    <3>1. search_key[h] \in BlockDescriptors
      <4>1. h \in Carrying
        BY <2>4 DEF InsertLive, Carrying
      <4> QED
        BY <4>1 DEF IInv, OnePlace, Blocks
    <3>2. search_key[h].device \in Devices /\ search_key[h].bytes \in Int /\ 0 \in Int
      BY <3>1 DEF BlockDescriptors
    <3>3. Account(search_key[h].device, 0, search_key[h].bytes)
      BY <2>4 DEF InsertLive
    <3>4. cached_bytes'[d].free = IF d = search_key[h].device THEN cached_bytes[d].free + 0 ELSE cached_bytes[d].free
      BY <1>0, <3>2, <3>3, Accounts, Zenon
    <3> QED
      BY <1>1, <3>4
  <2>5. CASE FreeDeviceCache(h) \/ FreeAllCached(h)
    <3>1. \E freed \in SUBSET cached_blocks, gone \in SUBSET cached_blocks : FreeCached(freed, gone)
      <4>1. ASSUME NEW blocks \in SUBSET cached_blocks, NEW b \in blocks, NEW switches,
                   FreeCachedUpTo(blocks, b, switches)
            PROVE  \E freed \in SUBSET cached_blocks, gone \in SUBSET cached_blocks : FreeCached(freed, gone)
        BY <1>0, <4>1, FreedUpTo
      <4> DEFINE own == {b \in cached_blocks : b.device = search_key[h].device}
      <4>2. own \in SUBSET cached_blocks /\ cached_blocks \in SUBSET cached_blocks
        OBVIOUS
      <4>3. \E blocks \in SUBSET cached_blocks :
               FreeCached(blocks, blocks) \/ \E b \in blocks, switches \in BOOLEAN : FreeCachedUpTo(blocks, b, switches)
        <5>1. CASE FreeDeviceCache(h)
          <6>1. FreeCached(own, own) \/ \E b \in own : FreeCachedUpTo(own, b, FALSE)
            BY <5>1 DEF FreeDeviceCache
          <6> HIDE DEF own
          <6> QED
            BY <4>2, <6>1
        <5>2. CASE FreeAllCached(h)
          <6>1. \/ FreeCached(cached_blocks, cached_blocks)
                \/ \E b \in cached_blocks : FreeCachedUpTo(cached_blocks, b, TRUE)
            BY <5>2 DEF FreeAllCached
          <6> QED
            BY <4>2, <6>1
        <5> QED
          BY <2>5, <5>1, <5>2
      <4> QED
        BY <4>1, <4>3
    <3> QED
      BY <3>1, FreeCachedLowers
  <2>6. ASSUME NEW b \in live_blocks, FreeToCache(h, b)
        PROVE  Cacheable(b) /\ Recache(b)
    BY <1>1, <2>6 DEF FreeToCache
  <2>7. ASSUME NEW b \in live_blocks, FreeUncached(h, b)
        PROVE  FALSE
    <3>1. b.device \in Devices /\ b.bytes \in Nat
      BY <1>0 DEF TypeOK, BlockDescriptors
    <3>2. Account(b.device, 0, -b.bytes) /\ -b.bytes \in Int /\ 0 \in Int
      BY <1>1, <2>7, <3>1 DEF FreeUncached
    <3>3. cached_bytes'[d].free = IF d = b.device THEN cached_bytes[d].free + 0 ELSE cached_bytes[d].free
      BY <1>0, <3>1, <3>2, Accounts, Zenon
    <3> QED
      BY <1>1, <3>3
  <2>8. ASSUME NEW n \in world.ceilings, SetMaxCachedBytes(h, n) PROVE FALSE
    BY <1>1, <2>8 DEF SetMaxCachedBytes
  <2> QED
    BY <1>2, <2>1, <2>2, <2>3, <2>4, <2>5, <2>6, <2>7, <2>8 DEF Host
<1>3. ASSUME NEW b \in live_blocks, Launch(b) PROVE FALSE
  BY <1>1, <1>3 DEF Launch, allocator
<1>4. ASSUME NEW s \in Streams, Execute(s) PROVE FALSE
  BY <1>1, <1>4 DEF Execute, allocator
<1> QED
  BY <1>0, <1>2, <1>3, <1>4 DEF Next

\* No step takes the cache of a device beyond the ceiling in force.
LEMMA CeilingStep ==
    ASSUME IInv, IInv', Next, NEW d \in Devices, cached_bytes'[d].free > cached_bytes[d].free
    PROVE  Bytes({b \in cached_blocks' : b.device = d}) <= max_cached_bytes
<1>0. TypeOK
  BY DEF IInv
<1>1. PICK b \in live_blocks : Cacheable(b) /\ Recache(b)
  BY OnlyRecacheRaises
<1>2. b.device \in Devices /\ b.bytes \in Nat
  BY <1>0 DEF TypeOK, BlockDescriptors
<1>3. Account(b.device, b.bytes, -b.bytes) /\ -b.bytes \in Int /\ b.bytes \in Int
  BY <1>1, <1>2 DEF Recache
<1>4. cached_bytes'[d].free = IF d = b.device THEN cached_bytes[d].free + b.bytes ELSE cached_bytes[d].free
  BY <1>0, <1>2, <1>3, Accounts
<1>5. cached_bytes[d] \in [free : Int, live : Int]
  BY <1>0 DEF TypeOK
<1>6. d = b.device /\ cached_bytes'[d].free <= max_cached_bytes
  BY <1>1, <1>4, <1>5 DEF Cacheable
<1>7. cached_bytes'[d].free = Bytes({c \in cached_blocks' : c.device = d})
  BY DEF IInv, BooksBalance
<1> QED
  BY <1>6, <1>7

\* Whatever is freed, by any number of threads, and however the ceiling is
\* moved, the cache of a device does not grow beyond the ceiling in force.
THEOREM AllocatorCeiling == Spec => CeilingRespected
<1> DEFINE Respects == \A d \in Devices :
                         cached_bytes'[d].free > cached_bytes[d].free =>
                            Bytes({b \in cached_blocks' : b.device = d}) <= max_cached_bytes
<1>1. IInv /\ IInv' /\ [Next]_vars => [Respects]_vars
  BY CeilingStep
<1>2. Spec => [][Respects]_vars
  BY <1>1, AllocatorInvariant, PTL DEF Spec
<1> QED
  BY <1>2, PTL DEF CeilingRespected
=============================================================================
