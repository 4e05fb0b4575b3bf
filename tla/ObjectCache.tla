----------------------------- MODULE ObjectCache ---------------------------
(***************************************************************************)
(* The packet cache (object_cache.hpp) as the dispatcher uses it: a ring   *)
(* of Capacity (1024) ids over a rocksdb table.  set() serialises a packet *)
(* and caches the object; get() hands out the cached object or caches one  *)
(* made from the table.  The stream thread amends the object it was handed *)
(* (dispatcher.cpp) and the table never learns of it.                      *)
(*                                                                         *)
(* The dispatcher calls the cache under its mutex, so a call is atomic;    *)
(* between StreamTake and StreamPublish it is not held.  remove() is not   *)
(* called.  Each id is set once (OnePlacePerPacket of Dispatcher).         *)
(***************************************************************************)
EXTENDS Integers

CONSTANTS Capacity,   \* slots of cacheBuffer
          MaxId,      \* bound on the packets
          MaxLoads    \* bound on the objects made from the table, per id

ASSUME CacheAssumption ==
    /\ Capacity \in Nat \ {0}
    /\ MaxId \in Nat
    /\ MaxLoads \in Nat

VARIABLES
    table,      \* the ids in the table
    ring,       \* cacheBuffer; 0 is no packet's id
    index,      \* cacheIndex
    cache,      \* cache: id -> object
    loads,      \* how many objects were made from the table, per id
    amended,    \* the objects with the layers of the stream dissectors
    visiting,   \* the object in the hands of the stream thread
    published,  \* streamMaxID
    evicted     \* the ids the ring has dropped at some time

cacheVars == <<ring, index, cache, loads, evicted>>
vars == <<table, cacheVars, amended, visiting, published>>

Ids     == 1..MaxId
Slots   == 0..(Capacity - 1)
Objects == Ids \X (0..MaxLoads)   \* the n-th object of an id
Nothing == <<0, 0>>

Init ==
    /\ table = {}
    /\ ring = [i \in Slots |-> 0]
    /\ index = 0
    /\ cache = [id \in {} |-> Nothing]
    /\ loads = [id \in Ids |-> 0]
    /\ amended = {} /\ visiting = Nothing /\ published = 0
    /\ evicted = {}

-----------------------------------------------------------------------------
\* Mutation: the entry in the slot stays in the map.
CachedAfterKeeping(id) == DOMAIN cache \cup {id}

\* The keys of the map after insert(): the slot's id is erased first.
CachedAfter(id) == (DOMAIN cache \ {ring[index]}) \cup {id}

NextIndex == (index + 1) % Capacity

\* insert()
Insert(id, object) ==
    /\ cache' = [k \in CachedAfter(id) |-> IF k = id THEN object ELSE cache[k]]
    /\ ring' = [ring EXCEPT ![index] = id]
    /\ index' = NextIndex
    /\ evicted' = evicted \cup (DOMAIN cache \ CachedAfter(id))

\* Mutation: get() replaces the cached object by one made from the table.
GetReloading(id) ==
    /\ id \in table
    /\ loads[id] < MaxLoads
    /\ loads' = [loads EXCEPT ![id] = @ + 1]
    /\ IF id \in DOMAIN cache
       THEN /\ cache' = [cache EXCEPT ![id] = <<id, loads[id] + 1>>]
            /\ UNCHANGED <<ring, index, evicted>>
       ELSE Insert(id, <<id, loads[id] + 1>>)

\* get(): afterwards the object handed out is the cached one.
Get(id) ==
    \/ /\ id \in DOMAIN cache
       /\ UNCHANGED cacheVars
    \/ /\ id \in table \ DOMAIN cache
       /\ loads[id] < MaxLoads
       /\ loads' = [loads EXCEPT ![id] = @ + 1]
       /\ Insert(id, <<id, loads[id] + 1>>)

-----------------------------------------------------------------------------
\* A dissector thread calls set() with a packet nobody else has amended.
Set(id) ==
    /\ id \notin table
    /\ table' = table \cup {id}
    /\ Insert(id, <<id, 0>>)
    /\ UNCHANGED <<loads, amended, visiting, published>>

\* A filter thread or the server thread (get_packets may ask for any id).
Read(id) ==
    /\ id \in table
    /\ Get(id)
    /\ UNCHANGED <<table, amended, visiting, published>>

\* Mutation: the stream thread works on an object of its own.
StreamTakeCopy ==
    /\ visiting = Nothing
    /\ 1..(published + 1) \subseteq table
    /\ loads[published + 1] < MaxLoads
    /\ loads' = [loads EXCEPT ![published + 1] = @ + 1]
    /\ visiting' = <<published + 1, loads[published + 1] + 1>>
    /\ UNCHANGED <<table, ring, index, cache, evicted, amended, published>>

StreamTake ==
    /\ visiting = Nothing
    /\ 1..(published + 1) \subseteq table
    /\ Get(published + 1)
    /\ visiting' = cache'[published + 1]
    /\ UNCHANGED <<table, amended, published>>

StreamAmend ==
    /\ visiting # Nothing /\ visiting \notin amended
    /\ amended' = amended \cup {visiting}
    /\ UNCHANGED <<table, cacheVars, visiting, published>>

StreamPublish ==
    /\ visiting \in amended
    /\ visiting' = Nothing
    /\ published' = published + 1
    /\ UNCHANGED <<table, cacheVars, amended>>

Next == \/ \E id \in Ids : Set(id)
        \/ \E id \in Ids : Read(id)
        \/ StreamTake
        \/ StreamAmend
        \/ StreamPublish

Spec == Init /\ [][Next]_vars

-----------------------------------------------------------------------------
TypeOK ==
    /\ table \subseteq Ids
    /\ ring \in [Slots -> 0..MaxId]
    /\ index \in Slots
    /\ DOMAIN cache \subseteq table
    /\ cache = [id \in DOMAIN cache |-> cache[id]]
    /\ \A id \in DOMAIN cache : cache[id] \in {id} \X (0..loads[id])
    /\ loads \in [Ids -> 0..MaxLoads]
    /\ amended \subseteq Objects
    /\ visiting \in Objects \cup {Nothing}
    /\ visiting # Nothing => visiting[1] = published + 1
    /\ published \in 0..MaxId
    /\ evicted \subseteq table

\* The map holds exactly the ids in the ring, each in one slot: an entry
\* leaves only when its slot is used again, and the map does not outgrow the
\* ring.
CacheMirrorsRing ==
    /\ DOMAIN cache = {ring[i] : i \in Slots} \ {0}
    /\ \A i, j \in Slots : ring[i] = ring[j] /\ ring[i] # 0 => i = j

\* What a reader is handed for a published packet carries the layers of the
\* stream dissectors, as long as the packet was not evicted before: up to
\* then all threads share one object.
PublishedIsAmended ==
    \A id \in 1..published : id \notin evicted =>
        id \in DOMAIN cache /\ cache[id] \in amended

\* The object of a cached id is never exchanged for another.
CachedIsShared ==
    [][\A id \in DOMAIN cache \cap DOMAIN cache' : cache'[id] = cache[id]]_vars
=============================================================================
