----------------------------- MODULE DataProofs ----------------------------
(***************************************************************************)
(* Proofs about what is stored: the packet cache (ObjectCache), for every  *)
(* capacity and any ids, the streams of bytes (BufferStream), for chunks   *)
(* and reads of any size and any number of them, and the byte buffers      *)
(* (Buffers), for arrays of any length over any even number of digits.     *)
(***************************************************************************)
EXTENDS MCData, SequencesExt, FiniteSetTheorems, WellFoundedInduction, TLAPS

-----------------------------------------------------------------------------
(* The packet cache.                                                       *)

\* What insert() does to the map, when the id was not in it.
LEMMA InsertFacts ==
    ASSUME TypeOK, CacheMirrorsRing, NEW id \in Ids, id \notin DOMAIN cache,
           NEW object, Insert(id, object)
    PROVE  /\ DOMAIN cache' = (DOMAIN cache \ {ring[index]}) \cup {id}
           /\ cache' = [k \in DOMAIN cache' |-> cache'[k]]
           /\ cache'[id] = object
           /\ \A k \in DOMAIN cache' : k # id => cache'[k] = cache[k]
           /\ ring' \in [Slots -> 0..MaxId]
           /\ index' \in Slots
           /\ evicted' = evicted \cup ({ring[index]} \cap DOMAIN cache)
<1> USE CacheAssumption DEF TypeOK, Ids
<1>1. cache' = [k \in (DOMAIN cache \ {ring[index]}) \cup {id} |->
                    IF k = id THEN object ELSE cache[k]]
  BY DEF Insert, CachedAfter
<1>2. DOMAIN cache' = (DOMAIN cache \ {ring[index]}) \cup {id}
  BY <1>1
<1>3. ring' \in [Slots -> 0..MaxId]
  <2>1. id \in 0..MaxId
    OBVIOUS
  <2> QED  BY <2>1 DEF Insert
<1>4. index' \in Slots
  <2>1. index' = (index + 1) % Capacity
    BY DEF Insert, NextIndex
  <2> QED  BY <2>1 DEF Slots
<1>5. evicted' = evicted \cup ({ring[index]} \cap DOMAIN cache)
  BY DEF Insert, CachedAfter
<1> QED  BY <1>1, <1>2, <1>3, <1>4, <1>5

\* Types and the ring are preserved together.
CacheInv == TypeOK /\ CacheMirrorsRing

\* The map mirrors the ring after insert().
LEMMA InsertMirrors ==
    ASSUME CacheInv, NEW id \in Ids, id \notin DOMAIN cache,
           NEW object, Insert(id, object)
    PROVE  CacheMirrorsRing'
<1> USE CacheAssumption DEF CacheInv, TypeOK, Ids
<1>1. DOMAIN cache' = (DOMAIN cache \ {ring[index]}) \cup {id}
  BY InsertFacts
<1>2. ring' = [ring EXCEPT ![index] = id] /\ index \in Slots
  BY DEF Insert
<1>3. id # 0 /\ \A i \in Slots : ring[i] # id
  BY DEF CacheMirrorsRing
<1>4. DOMAIN cache' = {ring'[i] : i \in Slots} \ {0}
  <2>1. ASSUME NEW k \in DOMAIN cache'  PROVE k \in {ring'[i] : i \in Slots} \ {0}
    <3>1. CASE k = id
      BY <1>2, <1>3, <3>1
    <3>2. CASE k # id
      <4>1. k \in DOMAIN cache /\ k # ring[index]
        BY <1>1, <2>1, <3>2
      <4>2. PICK i \in Slots : ring[i] = k /\ k # 0
        BY <4>1 DEF CacheMirrorsRing
      <4>3. i # index /\ ring'[i] = k
        BY <1>2, <4>1, <4>2
      <4> QED  BY <4>2, <4>3
    <3> QED  BY <3>1, <3>2
  <2>2. ASSUME NEW i \in Slots, ring'[i] # 0  PROVE ring'[i] \in DOMAIN cache'
    <3>1. CASE i = index
      BY <1>1, <1>2, <3>1
    <3>2. CASE i # index
      <4>1. ring'[i] = ring[i]
        BY <1>2, <3>2
      <4>2. ring[i] \in DOMAIN cache /\ ring[i] # ring[index]
        BY <2>2, <3>2, <4>1 DEF CacheMirrorsRing
      <4> QED  BY <1>1, <4>1, <4>2
    <3> QED  BY <3>1, <3>2
  <2>3. ASSUME NEW k \in {ring'[i] : i \in Slots} \ {0}  PROVE k \in DOMAIN cache'
    <3>1. PICK i \in Slots : k = ring'[i]
      BY <2>3
    <3> QED  BY <2>2, <2>3, <3>1
  <2> HIDE DEF TypeOK
  <2> QED  BY <2>1, <2>3
<1>5. ASSUME NEW i \in Slots, NEW j \in Slots, ring'[i] = ring'[j], ring'[i] # 0
      PROVE  i = j
  BY <1>2, <1>3, <1>5 DEF CacheMirrorsRing
<1> QED  BY <1>4, <1>5 DEF CacheMirrorsRing

-----------------------------------------------------------------------------
(* What set() and get() leave of the map.                                  *)

\* What every call leaves: a map of the same kind, in which an id that was
\* cached keeps its object unless it is noted as evicted.
Kept ==
    /\ ring' \in [Slots -> 0..MaxId]
    /\ index' \in Slots
    /\ cache' = [k \in DOMAIN cache' |-> cache'[k]]
    /\ CacheMirrorsRing'
    /\ evicted \subseteq evicted' /\ evicted' \subseteq evicted \cup DOMAIN cache
    /\ \A k \in DOMAIN cache \cap DOMAIN cache' : cache'[k] = cache[k]
    /\ \A k \in DOMAIN cache : k \notin evicted' => k \in DOMAIN cache'

\* insert() of an id that is not cached.
LEMMA InsertKeeps ==
    ASSUME CacheInv, NEW id \in Ids, id \notin DOMAIN cache,
           NEW object, Insert(id, object)
    PROVE  /\ Kept
           /\ DOMAIN cache' \subseteq DOMAIN cache \cup {id}
           /\ id \in DOMAIN cache' /\ cache'[id] = object
BY InsertFacts, InsertMirrors DEF CacheInv, Kept

\* get() of a stored id, with the objects it has made from the table.
LEMMA GetKeeps ==
    ASSUME CacheInv, NEW id \in table, Get(id)
    PROVE  /\ Kept
           /\ DOMAIN cache' \subseteq DOMAIN cache \cup {id}
           /\ id \in DOMAIN cache'
           /\ loads' \in [Ids -> 0..MaxLoads]
           /\ \A k \in Ids : loads[k] <= loads'[k]
           /\ \A k \in DOMAIN cache' : cache'[k] \in {k} \X (0..loads'[k])
<1> USE CacheAssumption DEF CacheInv
<1>1. id \in Ids
  BY DEF TypeOK
<1>2. CASE id \in DOMAIN cache /\ UNCHANGED cacheVars
  <2>1. /\ ring' = ring /\ index' = index /\ cache' = cache
        /\ loads' = loads /\ evicted' = evicted
    BY <1>2 DEF cacheVars
  <2>2. CacheMirrorsRing'
    BY <2>1 DEF CacheMirrorsRing
  <2>3. Kept
    BY <2>1, <2>2 DEF Kept, TypeOK
  <2>4. loads \in [Ids -> 0..MaxLoads] /\ \A k \in Ids : loads[k] <= loads[k]
    BY DEF TypeOK
  <2>5. \A k \in DOMAIN cache : cache[k] \in {k} \X (0..loads[k])
    BY DEF TypeOK
  <2> QED  BY <1>2, <2>1, <2>3, <2>4, <2>5
<1>3. CASE id \notin DOMAIN cache
  <2> DEFINE object == <<id, loads[id] + 1>>
  <2>1. /\ loads[id] < MaxLoads
        /\ loads' = [loads EXCEPT ![id] = @ + 1]
        /\ Insert(id, object)
    BY <1>3 DEF Get
  <2>2. /\ Kept
        /\ DOMAIN cache' \subseteq DOMAIN cache \cup {id}
        /\ id \in DOMAIN cache' /\ cache'[id] = object
    BY <1>1, <1>3, <2>1, InsertKeeps
  <2>3. loads \in [Ids -> 0..MaxLoads]
    BY DEF TypeOK
  <2>4. loads' \in [Ids -> 0..MaxLoads] /\ loads'[id] = loads[id] + 1
        /\ \A k \in Ids : loads[k] <= loads'[k]
    BY <1>1, <2>1, <2>3
  <2>5. ASSUME NEW k \in DOMAIN cache'  PROVE cache'[k] \in {k} \X (0..loads'[k])
    <3>1. CASE k = id
      <4>1. cache'[k] = <<k, loads[k] + 1>> /\ loads'[k] = loads[k] + 1 /\ loads[k] \in Nat
        BY <1>1, <2>2, <2>3, <2>4, <3>1
      <4> QED  BY <4>1
    <3>2. CASE k # id
      <4>1. k \in DOMAIN cache /\ cache'[k] = cache[k] /\ k \in Ids
        BY <2>2, <2>5, <3>2 DEF Kept, TypeOK
      <4>2. cache[k] \in {k} \X (0..loads[k])
        BY <4>1 DEF TypeOK
      <4>3. loads[k] <= loads'[k] /\ loads[k] \in Nat /\ loads'[k] \in Nat
        BY <2>3, <2>4, <4>1
      <4> QED  BY <4>1, <4>2, <4>3
    <3> QED  BY <3>1, <3>2
  <2> QED  BY <2>2, <2>4, <2>5
<1> QED  BY <1>2, <1>3 DEF Get

-----------------------------------------------------------------------------
(* The invariants.                                                         *)

\* Why published packets are complete: an id that was stored is cached until
\* it is evicted, and until then the stream thread works on the cached object.
AmendedInv ==
    /\ \A id \in table : id \notin evicted => id \in DOMAIN cache
    /\ 1..published \subseteq table
    /\ visiting # Nothing =>
          /\ 1..(published + 1) \subseteq table
          /\ published + 1 \notin evicted => cache[published + 1] = visiting
    /\ PublishedIsAmended

Inv == CacheInv /\ AmendedInv

LEMMA InitInv == Init => Inv
<1> SUFFICES ASSUME Init  PROVE Inv
  OBVIOUS
<1> USE CacheAssumption DEF Init
<1>1. DOMAIN cache = {} /\ cache = [id \in DOMAIN cache |-> cache[id]]
  OBVIOUS
<1>2. index \in Slots /\ ring \in [Slots -> 0..MaxId]
  BY DEF Slots
<1>3. TypeOK
  BY <1>1, <1>2 DEF TypeOK, Ids, Nothing, Objects
<1>4. CacheMirrorsRing
  BY <1>1 DEF CacheMirrorsRing
<1>5. AmendedInv
  BY DEF AmendedInv, PublishedIsAmended
<1> QED  BY <1>3, <1>4, <1>5 DEF Inv, CacheInv

\* The parts of AmendedInv that a change of the map could break.
LEMMA KeptAmended ==
    ASSUME Inv, Kept, UNCHANGED <<amended, visiting, published>>,
           table \subseteq table',
           \A k \in table' \ table : k \in DOMAIN cache'
    PROVE  AmendedInv'
<1>1. \A k \in table' : k \notin evicted' => k \in DOMAIN cache'
  BY DEF Inv, AmendedInv, Kept
<1>2. \A k \in table : k \notin evicted' => cache'[k] = cache[k]
  BY DEF Inv, AmendedInv, Kept
<1>3. 1..published' \subseteq table'
  BY DEF Inv, AmendedInv
<1>4. visiting' # Nothing =>
          /\ 1..(published' + 1) \subseteq table'
          /\ published' + 1 \notin evicted' => cache'[published' + 1] = visiting'
  <2> SUFFICES ASSUME visiting # Nothing
               PROVE  /\ 1..(published + 1) \subseteq table'
                      /\ published + 1 \notin evicted' => cache'[published + 1] = visiting
    OBVIOUS
  <2>1. 1..(published + 1) \subseteq table /\ published \in Nat
    BY DEF Inv, AmendedInv, CacheInv, TypeOK
  <2>2. published + 1 \in table
    BY <2>1
  <2> QED  BY <1>2, <2>1, <2>2 DEF Inv, AmendedInv, Kept
<1>5. PublishedIsAmended'
  BY <1>1, <1>2 DEF Inv, AmendedInv, PublishedIsAmended, Kept
<1> QED  BY <1>1, <1>3, <1>4, <1>5 DEF AmendedInv

LEMMA NextInv == Inv /\ [Next]_vars => Inv'
<1> SUFFICES ASSUME Inv, [Next]_vars  PROVE Inv'
  OBVIOUS
<1> USE CacheAssumption
<1>t. TypeOK /\ CacheMirrorsRing /\ CacheInv
  BY DEF Inv, CacheInv
<1>1. ASSUME NEW id \in Ids, Set(id)  PROVE Inv'
  <2>1. /\ id \notin table /\ table' = table \cup {id} /\ Insert(id, <<id, 0>>)
        /\ loads' = loads /\ amended' = amended
        /\ visiting' = visiting /\ published' = published
    BY <1>1 DEF Set
  <2>2. id \notin DOMAIN cache
    BY <1>t, <2>1 DEF TypeOK
  <2>3. /\ Kept
        /\ DOMAIN cache' \subseteq DOMAIN cache \cup {id}
        /\ id \in DOMAIN cache' /\ cache'[id] = <<id, 0>>
    BY <1>t, <2>1, <2>2, InsertKeeps
  <2>4. \A k \in DOMAIN cache' : cache'[k] \in {k} \X (0..loads'[k])
    <3>1. loads[id] \in Nat
      BY <1>t DEF TypeOK
    <3> QED  BY <1>t, <2>1, <2>3, <3>1 DEF Kept, TypeOK
  <2>5. TypeOK'
    <3>1. evicted' \subseteq table'
      BY <1>t, <2>1, <2>3 DEF Kept, TypeOK
    <3>2. DOMAIN cache' \subseteq table' /\ table' \subseteq Ids
      BY <1>t, <2>1, <2>3 DEF Kept, TypeOK
    <3> QED  BY <1>t, <2>1, <2>3, <2>4, <3>1, <3>2 DEF Kept, TypeOK
  <2>6. AmendedInv'
    BY <2>1, <2>3, KeptAmended
  <2> QED  BY <2>3, <2>5, <2>6 DEF Inv, CacheInv, Kept
<1>2. ASSUME NEW id \in Ids, Read(id)  PROVE Inv'
  <2>1. /\ id \in table /\ Get(id) /\ table' = table
        /\ amended' = amended /\ visiting' = visiting /\ published' = published
    BY <1>2 DEF Read
  <2>2. TypeOK'
    BY <1>t, <2>1, GetKeeps DEF Kept, TypeOK
  <2>3. Kept
    BY <1>t, <2>1, GetKeeps
  <2>4. AmendedInv'
    BY <2>1, <2>3, KeptAmended
  <2> QED  BY <2>2, <2>3, <2>4 DEF Inv, CacheInv, Kept
<1>3. CASE StreamTake
  <2> DEFINE id == published + 1
  <2>1. /\ visiting = Nothing /\ 1..id \subseteq table
        /\ Get(id) /\ visiting' = cache'[id]
        /\ table' = table /\ amended' = amended /\ published' = published
    BY <1>3 DEF StreamTake
  <2>2. published \in Nat /\ id \in table /\ id \in Ids
    <3>1. published \in Nat
      BY <1>t DEF TypeOK
    <3> QED  BY <1>t, <2>1, <3>1 DEF TypeOK
  <2> HIDE DEF id
  <2>3. /\ Kept /\ DOMAIN cache' \subseteq DOMAIN cache \cup {id}
        /\ id \in DOMAIN cache' /\ loads' \in [Ids -> 0..MaxLoads]
        /\ \A k \in DOMAIN cache' : cache'[k] \in {k} \X (0..loads'[k])
    BY <1>t, <2>1, <2>2, GetKeeps
  <2>4. visiting' \in Objects /\ visiting'[1] = id
    <3>1. visiting' \in {id} \X (0..loads'[id])
      BY <2>1, <2>3
    <3>2. loads'[id] \in 0..MaxLoads
      BY <2>2, <2>3
    <3> QED  BY <2>2, <3>1, <3>2 DEF Objects
  <2>5. TypeOK'
    BY <1>t, <2>1, <2>2, <2>3, <2>4 DEF Kept, TypeOK, id
  <2>6. AmendedInv'
    <3>1. \A k \in table' : k \notin evicted' => k \in DOMAIN cache'
      BY <2>1, <2>3 DEF Inv, AmendedInv, Kept
    <3>2. \A k \in table : k \notin evicted' /\ k \in DOMAIN cache => cache'[k] = cache[k]
      BY <2>3 DEF Kept
    <3>3. PublishedIsAmended'
      <4>1. \A k \in 1..published : k \in table
        BY DEF Inv, AmendedInv
      <4>2. \A k \in 1..published : k \notin evicted => k \in DOMAIN cache /\ cache[k] \in amended
        BY DEF Inv, AmendedInv, PublishedIsAmended
      <4>3. evicted \subseteq evicted'
        BY <2>3 DEF Kept
      <4>4. \A k \in 1..published :
               k \notin evicted' => k \in DOMAIN cache' /\ cache'[k] \in amended
        BY <2>1, <3>1, <3>2, <4>1, <4>2, <4>3
      <4> QED  BY <2>1, <4>4 DEF PublishedIsAmended
    <3> QED  BY <2>1, <3>1, <3>3 DEF Inv, AmendedInv, id
  <2> QED  BY <2>3, <2>5, <2>6 DEF Inv, CacheInv, Kept
<1>4. CASE StreamAmend
  <2>1. /\ visiting # Nothing /\ amended' = amended \cup {visiting}
        /\ table' = table /\ ring' = ring /\ index' = index /\ cache' = cache
        /\ loads' = loads /\ evicted' = evicted
        /\ visiting' = visiting /\ published' = published
    BY <1>4 DEF StreamAmend, cacheVars
  <2>2. TypeOK'
    BY <1>t, <2>1 DEF TypeOK
  <2>3. CacheMirrorsRing'
    BY <1>t, <2>1 DEF CacheMirrorsRing
  <2>4. AmendedInv'
    BY <2>1 DEF Inv, AmendedInv, PublishedIsAmended
  <2> QED  BY <2>2, <2>3, <2>4 DEF Inv, CacheInv
<1>5. CASE StreamPublish
  <2>1. /\ visiting \in amended /\ visiting' = Nothing /\ published' = published + 1
        /\ table' = table /\ ring' = ring /\ index' = index /\ cache' = cache
        /\ loads' = loads /\ evicted' = evicted /\ amended' = amended
    BY <1>5 DEF StreamPublish, cacheVars
  <2>2. visiting # Nothing /\ published \in Nat
    BY <1>t, <2>1 DEF TypeOK, Objects, Nothing, Ids
  <2>3. 1..(published + 1) \subseteq table
    BY <2>2 DEF Inv, AmendedInv
  <2>4. published + 1 \in Ids
    BY <1>t, <2>2, <2>3 DEF TypeOK
  <2>5. TypeOK'
    <3>1. published' \in 0..MaxId
      BY <2>1, <2>2, <2>4 DEF Ids
    <3>2. visiting' \in Objects \cup {Nothing} /\ ~(visiting' # Nothing)
      BY <2>1
    <3> QED  BY <1>t, <2>1, <3>1, <3>2 DEF TypeOK
  <2>6. CacheMirrorsRing'
    BY <1>t, <2>1 DEF CacheMirrorsRing
  <2>7. PublishedIsAmended'
    <3> SUFFICES ASSUME NEW k \in 1..(published + 1), k \notin evicted
                 PROVE  k \in DOMAIN cache /\ cache[k] \in amended
      BY <2>1 DEF PublishedIsAmended
    <3>1. CASE k = published + 1
      BY <2>1, <2>2, <2>3, <3>1 DEF Inv, AmendedInv
    <3>2. CASE k # published + 1
      <4>1. k \in 1..published
        BY <2>2, <3>2
      <4> QED  BY <4>1 DEF Inv, AmendedInv, PublishedIsAmended
    <3> QED  BY <3>1, <3>2
  <2>8. AmendedInv'
    BY <2>1, <2>3, <2>7 DEF Inv, AmendedInv
  <2> QED  BY <2>5, <2>6, <2>8 DEF Inv, CacheInv
<1>6. CASE UNCHANGED vars
  <2>1. /\ table' = table /\ ring' = ring /\ index' = index /\ cache' = cache
        /\ loads' = loads /\ evicted' = evicted /\ amended' = amended
        /\ visiting' = visiting /\ published' = published
    BY <1>6 DEF vars, cacheVars
  <2> QED  BY <1>t, <2>1 DEF Inv, CacheInv, TypeOK, CacheMirrorsRing, AmendedInv, PublishedIsAmended
<1> QED  BY <1>1, <1>2, <1>3, <1>4, <1>5, <1>6 DEF Next

\* The invariant holds in every reachable state.
THEOREM Invariance == Spec => []Inv
BY InitInv, NextInv, PTL DEF Spec

\* Every variable of the cache keeps its type, for any capacity.
THEOREM TypeCorrect == Spec => []TypeOK
<1>1. Inv => TypeOK
  BY DEF Inv, CacheInv
<1> QED  BY <1>1, Invariance, PTL

\* The map and the ring of object_cache.hpp hold the same ids.
THEOREM MapMirrorsRing == Spec => []CacheMirrorsRing
<1>1. Inv => CacheMirrorsRing
  BY DEF Inv, CacheInv
<1> QED  BY <1>1, Invariance, PTL

\* Until it is evicted, a published packet is read with the layers that the
\* stream thread of dispatcher.cpp has added.
THEOREM ReadersSeeAmendments == Spec => []PublishedIsAmended
<1>1. Inv => PublishedIsAmended
  BY DEF Inv, AmendedInv
<1> QED  BY <1>1, Invariance, PTL

\* A step never exchanges the object of an id that stays cached.
LEMMA StepKeepsObjects ==
    Inv /\ [Next]_vars =>
        \A id \in DOMAIN cache \cap DOMAIN cache' : cache'[id] = cache[id]
<1> SUFFICES ASSUME Inv, [Next]_vars
             PROVE  \A id \in DOMAIN cache \cap DOMAIN cache' : cache'[id] = cache[id]
  OBVIOUS
<1>t. CacheInv /\ TypeOK
  BY DEF Inv, CacheInv
<1>1. CASE UNCHANGED cache
  BY <1>1
<1>2. ASSUME NEW id \in Ids, Set(id)  PROVE Kept
  <2>1. id \notin DOMAIN cache /\ Insert(id, <<id, 0>>)
    BY <1>t, <1>2 DEF Set, TypeOK
  <2> QED  BY <1>t, <2>1, InsertKeeps
<1>3. ASSUME NEW id \in Ids, Read(id)  PROVE Kept
  BY <1>t, <1>3, GetKeeps DEF Read
<1>4. CASE StreamTake
  <2>1. published + 1 \in table /\ Get(published + 1)
    BY <1>t, <1>4 DEF StreamTake, TypeOK
  <2>2. Kept
    BY <1>t, <2>1, GetKeeps
  <2> QED  BY <2>2 DEF Kept
<1>5. CASE StreamAmend \/ StreamPublish \/ UNCHANGED vars
  BY <1>1, <1>5 DEF StreamAmend, StreamPublish, vars, cacheVars
<1> QED  BY <1>2, <1>3, <1>4, <1>5 DEF Next, Kept

\* While an id is cached all its readers share one object.
THEOREM ObjectsShared == Spec => CachedIsShared
BY StepKeepsObjects, Invariance, PTL DEF Spec, CachedIsShared

-----------------------------------------------------------------------------
(* The streams of bytes.                                                   *)

\* The last byte of a sequence, and of the first k chunks of the table; the
\* n-th byte written is the number n, and 0 stands for none.
LastByte(bytes) == IF bytes = <<>> THEN 0 ELSE bytes[Len(bytes)]
EndOf(k)        == IF k = 0 THEN 0 ELSE LastByte(stored[k])

\* Each chunk goes on where the one before it ends.
TableInv ==
    /\ \A k \in DOMAIN stored :
          /\ stored[k] # <<>>
          /\ \A j \in DOMAIN stored[k] : stored[k][j] = EndOf(k - 1) + j
    /\ Streams!BytesStored = 1..EndOf(Len(stored))

\* What the Puts of a write leave to do.
WriterInv ==
    /\ writing = <<>> => puts = 0
    /\ \A j \in DOMAIN writing : writing[j] = length + j
    /\ chunks = Len(stored) - (IF puts = 1 THEN 1 ELSE 0)
    /\ EndOf(Len(stored)) = length + (IF puts = 0 THEN 0 ELSE Len(writing))
    /\ Len(stored) <= MaxChunks
    /\ writing # <<>> /\ puts = 0 => Len(stored) < MaxChunks

\* A script has read the chunks before its index.
ScriptInv ==
    /\ scriptIndex <= Len(stored)
    /\ Len(scriptRead) = EndOf(scriptIndex)
    /\ Streams!Sequential(scriptRead)

\* What the user interface has got, with what the read() under way has.
Got == delivered \o buffer

Gapless(bytes) ==
    \A i \in DOMAIN bytes : bytes[i] <= 1 + (IF i = 1 THEN 0 ELSE bytes[i - 1])

\* Where read() goes on is at most one byte behind what it has got; while it
\* reads, nothing is written.
ReaderInv ==
    /\ reads > 0 => writing = <<>>
    /\ reads = 0 => readPc = "none" /\ readerIndex = 0 /\ offset = 0 /\ delivered = <<>>
    /\ readPc = "none" => buffer = <<>>
    /\ readPc # "answered" => answer = <<>>
    /\ size # All => Len(buffer) <= size
    /\ readPc # "answered" /\ readerIndex < Len(stored) =>
          EndOf(readerIndex) + offset <= LastByte(Got)
    /\ readPc = "answered" =>
          /\ readerIndex > 0 /\ answer = Streams!Chunk(readerIndex - 1)
          /\ answer # <<>> => EndOf(readerIndex - 1) + offset <= LastByte(Got)
    /\ Gapless(Got)

StreamInv == Streams!TypeOK /\ TableInv /\ WriterInv /\ ScriptInv /\ ReaderInv

-----------------------------------------------------------------------------
(* Sequences of bytes.                                                     *)

LEMMA Concatenated ==
    ASSUME NEW s \in Seq(Nat), NEW t \in Seq(Nat)
    PROVE  /\ s \o t \in Seq(Nat) /\ Len(s \o t) = Len(s) + Len(t)
           /\ \A i \in 1..Len(s) : (s \o t)[i] = s[i]
           /\ \A i \in (Len(s) + 1)..(Len(s) + Len(t)) : (s \o t)[i] = t[i - Len(s)]
OBVIOUS

LEMMA ConcatenatedEmpty ==
    ASSUME NEW s \in Seq(Nat)  PROVE s \o <<>> = s /\ <<>> \o s = s
OBVIOUS

LEMMA FirstBytes ==
    ASSUME NEW s \in Seq(Nat), NEW m \in Nat, m <= Len(s)
    PROVE  /\ SubSeq(s, 1, m) \in Seq(Nat) /\ Len(SubSeq(s, 1, m)) = m
           /\ \A i \in 1..m : SubSeq(s, 1, m)[i] = s[i]
OBVIOUS

LEMMA LastByteIsByte == ASSUME NEW s \in Seq(Nat)  PROVE LastByte(s) \in Nat
<1>1. s = <<>> \/ Len(s) \in DOMAIN s
  OBVIOUS
<1> QED  BY <1>1 DEF LastByte

\* Bytes that follow from n, when n is at most the last one, leave no gap.
LEMMA GaplessGrows ==
    ASSUME NEW s \in Seq(Nat), NEW t \in Seq(Nat), NEW n \in Nat,
           Gapless(s), n <= LastByte(s), \A j \in 1..Len(t) : t[j] = n + j
    PROVE  /\ Gapless(s \o t)
           /\ t = <<>> => LastByte(s \o t) = LastByte(s)
           /\ t # <<>> => LastByte(s \o t) = n + Len(t)
<1>1. /\ s \o t \in Seq(Nat) /\ Len(s \o t) = Len(s) + Len(t)
      /\ \A i \in 1..Len(s) : (s \o t)[i] = s[i]
      /\ \A i \in (Len(s) + 1)..(Len(s) + Len(t)) : (s \o t)[i] = t[i - Len(s)]
  BY Concatenated
<1>2. Len(s) \in Nat /\ Len(t) \in Nat /\ DOMAIN (s \o t) = 1..(Len(s) + Len(t))
  BY <1>1
<1>3. ASSUME NEW i \in 1..(Len(s) + Len(t))
      PROVE  (s \o t)[i] <= 1 + (IF i = 1 THEN 0 ELSE (s \o t)[i - 1])
  <2>1. CASE i <= Len(s)
    <3>1. i \in DOMAIN s /\ (s \o t)[i] = s[i]
      BY <1>1, <1>2, <2>1
    <3>2. i # 1 => (s \o t)[i - 1] = s[i - 1]
      BY <1>1, <1>2, <2>1
    <3> QED  BY <3>1, <3>2 DEF Gapless
  <2>2. CASE i = Len(s) + 1
    <3>1. (s \o t)[i] = n + 1
      <4>1. 1 \in 1..Len(t) /\ (s \o t)[i] = t[1]
        BY <1>1, <1>2, <2>2
      <4> QED  BY <4>1
    <3>2. CASE i = 1
      <4>1. s = <<>>
        BY <1>2, <2>2, <3>2
      <4> QED  BY <3>1, <3>2, <4>1 DEF LastByte
    <3>3. CASE i # 1
      <4>1. s # <<>> /\ (s \o t)[i - 1] = s[Len(s)]
        BY <1>1, <1>2, <2>2, <3>3
      <4>2. s[Len(s)] \in Nat
        BY <1>2, <2>2, <3>3
      <4> QED  BY <3>1, <3>3, <4>1, <4>2 DEF LastByte
    <3> QED  BY <3>2, <3>3
  <2>3. CASE i > Len(s) + 1
    <3>1. i - Len(s) \in 1..Len(t) /\ i - 1 - Len(s) \in 1..Len(t)
      BY <1>2, <2>3
    <3>2. (s \o t)[i] = t[i - Len(s)] /\ (s \o t)[i - 1] = t[i - 1 - Len(s)]
      BY <1>1, <1>2, <2>3
    <3>3. (s \o t)[i] = n + (i - Len(s)) /\ (s \o t)[i - 1] = n + (i - 1 - Len(s))
      BY <3>1, <3>2
    <3> QED  BY <1>2, <2>3, <3>3
  <2> QED  BY <1>2, <2>1, <2>2, <2>3
<1>4. Gapless(s \o t)
  BY <1>2, <1>3 DEF Gapless
<1>5. t = <<>> => LastByte(s \o t) = LastByte(s)
  BY ConcatenatedEmpty
<1>6. t # <<>> => LastByte(s \o t) = n + Len(t)
  <2> SUFFICES ASSUME t # <<>>  PROVE LastByte(s \o t) = n + Len(t)
    OBVIOUS
  <2>1. Len(t) \in 1..Len(t) /\ Len(s \o t) = Len(s) + Len(t) /\ s \o t # <<>>
    BY <1>1, <1>2
  <2>2. (s \o t)[Len(s) + Len(t)] = t[Len(t)]
    BY <1>1, <1>2, <2>1
  <2> QED  BY <2>1, <2>2 DEF LastByte
<1> QED  BY <1>4, <1>5, <1>6

LEMMA JoinedInOrder ==
    ASSUME NEW s \in Seq(Nat), NEW t \in Seq(Nat), NEW u \in Seq(Nat)
    PROVE  s \o (t \o u) = (s \o t) \o u
<1> DEFINE st == s \o t
           tu == t \o u
           x == s \o tu
           y == st \o u
           a == Len(s)
           b == Len(t)
           c == Len(u)
<1>1. a \in Nat /\ b \in Nat /\ c \in Nat
  OBVIOUS
<1>2. /\ st \in Seq(Nat) /\ Len(st) = a + b
      /\ \A i \in 1..a : st[i] = s[i]
      /\ \A i \in (a + 1)..(a + b) : st[i] = t[i - a]
  BY Concatenated
<1>3. /\ tu \in Seq(Nat) /\ Len(tu) = b + c
      /\ \A i \in 1..b : tu[i] = t[i]
      /\ \A i \in (b + 1)..(b + c) : tu[i] = u[i - b]
  BY Concatenated
<1> HIDE DEF st, tu
<1>4. /\ x \in Seq(Nat) /\ Len(x) = a + (b + c)
      /\ \A i \in 1..a : x[i] = s[i]
      /\ \A i \in (a + 1)..(a + (b + c)) : x[i] = tu[i - a]
  <2>1. /\ x \in Seq(Nat) /\ Len(x) = a + Len(tu)
        /\ \A i \in 1..a : x[i] = s[i]
        /\ \A i \in (a + 1)..(a + Len(tu)) : x[i] = tu[i - a]
    BY <1>3, Concatenated
  <2> QED  BY <1>3, <2>1
<1>5. /\ y \in Seq(Nat) /\ Len(y) = (a + b) + c
      /\ \A i \in 1..(a + b) : y[i] = st[i]
      /\ \A i \in (a + b + 1)..((a + b) + c) : y[i] = u[i - (a + b)]
  <2>1. /\ y \in Seq(Nat) /\ Len(y) = Len(st) + c
        /\ \A i \in 1..Len(st) : y[i] = st[i]
        /\ \A i \in (Len(st) + 1)..(Len(st) + c) : y[i] = u[i - Len(st)]
    BY <1>2, Concatenated
  <2> QED  BY <1>2, <2>1
<1> HIDE DEF x, y, a, b, c
<1>6. ASSUME NEW i \in 1..(a + b + c)  PROVE x[i] = y[i]
  <2>1. CASE i <= a
    BY <1>1, <1>2, <1>4, <1>5, <2>1
  <2>2. CASE i > a /\ i <= a + b
    <3>1. i - a \in 1..b /\ i \in 1..(a + b) /\ i \in (a + 1)..(a + b)
          /\ i \in (a + 1)..(a + (b + c))
      BY <1>1, <2>2
    <3> QED  BY <1>2, <1>3, <1>4, <1>5, <3>1
  <2>3. CASE i > a + b
    <3>1. i - a \in (b + 1)..(b + c) /\ i \in (a + b + 1)..((a + b) + c)
          /\ i \in (a + 1)..(a + (b + c)) /\ (i - a) - b = i - (a + b)
      BY <1>1, <2>3
    <3> QED  BY <1>3, <1>4, <1>5, <3>1
  <2> QED  BY <1>1, <2>1, <2>2, <2>3
<1>7. x = y
  BY <1>1, <1>4, <1>5, <1>6
<1> QED  BY <1>7 DEF x, y, st, tu

\* The first m bytes of two parts, when that is all of the first.
LEMMA JoinedUpTo ==
    ASSUME NEW s \in Seq(Nat), NEW t \in Seq(Nat), NEW m \in Nat,
           Len(s) <= m, m <= Len(s) + Len(t)
    PROVE  SubSeq(s \o t, 1, m) = s \o SubSeq(t, 1, m - Len(s))
<1> DEFINE x == SubSeq(s \o t, 1, m)
           u == SubSeq(t, 1, m - Len(s))
           y == s \o u
<1>1. Len(s) \in Nat /\ Len(t) \in Nat /\ m - Len(s) \in Nat
  OBVIOUS
<1>2. x \in Seq(Nat) /\ Len(x) = m /\ \A i \in 1..m : x[i] = (s \o t)[i]
  <2> DEFINE st == s \o t
  <2>1. st \in Seq(Nat) /\ Len(st) = Len(s) + Len(t)
    OBVIOUS
  <2> HIDE DEF st
  <2> SUFFICES /\ SubSeq(st, 1, m) \in Seq(Nat) /\ Len(SubSeq(st, 1, m)) = m
               /\ \A i \in 1..m : SubSeq(st, 1, m)[i] = st[i]
    BY DEF st
  <2> QED  BY <1>1, <2>1
<1>3. u \in Seq(Nat) /\ Len(u) = m - Len(s) /\ \A i \in 1..(m - Len(s)) : u[i] = t[i]
  BY <1>1
<1>4. y \in Seq(Nat) /\ Len(y) = m
  BY <1>1, <1>3
<1>5. ASSUME NEW i \in 1..m  PROVE x[i] = y[i]
  <2>1. x[i] = (s \o t)[i]
    BY <1>2
  <2>2. CASE i <= Len(s)
    <3>1. i \in 1..Len(s)
      BY <1>1, <2>2
    <3>2. (s \o t)[i] = s[i] /\ y[i] = s[i]
      BY <1>3, <3>1, Concatenated
    <3> QED  BY <2>1, <3>2
  <2>3. CASE i > Len(s)
    <3>1. i \in (Len(s) + 1)..(Len(s) + Len(t)) /\ i \in (Len(s) + 1)..(Len(s) + (m - Len(s)))
          /\ i - Len(s) \in 1..(m - Len(s))
      BY <1>1, <2>3
    <3>2. (s \o t)[i] = t[i - Len(s)] /\ y[i] = u[i - Len(s)]
      <4> HIDE DEF u
      <4> QED  BY <1>3, <3>1, Concatenated
    <3> QED  BY <1>3, <2>1, <3>1, <3>2
  <2> QED  BY <1>1, <2>2, <2>3
<1> HIDE DEF x, y
<1>6. x = y
  BY <1>2, <1>4, <1>5
<1> QED  BY <1>6 DEF x, y

-----------------------------------------------------------------------------
(* The table.                                                              *)

LEMMA Appended ==
    ASSUME NEW S, NEW s \in Seq(S), NEW x \in S
    PROVE  /\ Append(s, x) \in Seq(S) /\ Len(Append(s, x)) = Len(s) + 1
           /\ DOMAIN Append(s, x) = 1..(Len(s) + 1)
           /\ \A i \in 1..Len(s) : Append(s, x)[i] = s[i]
           /\ Append(s, x)[Len(s) + 1] = x
OBVIOUS

LEMMA EndIsByte ==
    ASSUME stored \in Seq(Seq(Nat)), NEW k \in Nat, k <= Len(stored)
    PROVE  EndOf(k) \in Nat
<1>1. CASE k = 0
  BY <1>1 DEF EndOf
<1>2. CASE k # 0
  <2>1. stored[k] \in Seq(Nat)
    BY <1>2
  <2> QED  BY <1>2, <2>1, LastByteIsByte DEF EndOf
<1> QED  BY <1>1, <1>2

LEMMA ChunkFacts ==
    ASSUME stored \in Seq(Seq(Nat)), TableInv, NEW i \in Nat
    PROVE  /\ Streams!Chunk(i) \in Seq(Nat)
           /\ i >= Len(stored) => Streams!Chunk(i) = <<>>
           /\ i < Len(stored) =>
                 /\ Streams!Chunk(i) # <<>>
                 /\ \A j \in 1..Len(Streams!Chunk(i)) : Streams!Chunk(i)[j] = EndOf(i) + j
                 /\ EndOf(i + 1) = EndOf(i) + Len(Streams!Chunk(i))
<1>2. CASE i >= Len(stored)
  <2>1. Streams!Chunk(i) = <<>>
    BY <1>2 DEF Streams!Chunk
  <2>2. <<>> \in Seq(Nat)
    OBVIOUS
  <2>3. ~(i < Len(stored))
    BY <1>2
  <2> QED  BY <2>1, <2>2, <2>3
<1>3. CASE i < Len(stored)
  <2> DEFINE chunk == stored[i + 1]
  <2>1. Streams!Chunk(i) = chunk
    BY <1>3 DEF Streams!Chunk
  <2>2. i + 1 \in DOMAIN stored /\ chunk \in Seq(Nat)
    BY <1>3
  <2>3. chunk # <<>> /\ \A j \in DOMAIN chunk : chunk[j] = EndOf((i + 1) - 1) + j
    BY <2>2 DEF TableInv
  <2>4. EndOf((i + 1) - 1) = EndOf(i)
    <3>1. (i + 1) - 1 = i
      OBVIOUS
    <3> QED  BY <3>1
  <2>5. EndOf(i + 1) = chunk[Len(chunk)]
    BY <2>3 DEF EndOf, LastByte
  <2>6. DOMAIN chunk = 1..Len(chunk) /\ Len(chunk) \in DOMAIN chunk
    BY <2>2, <2>3
  <2> HIDE DEF chunk
  <2>7. EndOf(i + 1) = EndOf(i) + Len(chunk)
    BY <2>3, <2>4, <2>5, <2>6
  <2>8. \A j \in 1..Len(chunk) : chunk[j] = EndOf(i) + j
    BY <2>3, <2>4, <2>6
  <2>9. ~(i >= Len(stored))
    BY <1>3
  <2> QED  BY <2>1, <2>2, <2>3, <2>7, <2>8, <2>9
<1>4. i >= Len(stored) \/ i < Len(stored)
  OBVIOUS
<1> QED  BY <1>2, <1>3, <1>4

\* A chunk that follows the last one.
LEMMA TableGrows ==
    ASSUME stored \in Seq(Seq(Nat)), TableInv, NEW chunk \in Seq(Nat), chunk # <<>>,
           \A j \in DOMAIN chunk : chunk[j] = EndOf(Len(stored)) + j,
           stored' = Append(stored, chunk)
    PROVE  /\ stored' \in Seq(Seq(Nat)) /\ Len(stored') = Len(stored) + 1
           /\ \A k \in 0..Len(stored) : EndOf(k)' = EndOf(k)
           /\ EndOf(Len(stored))' = EndOf(Len(stored)) + Len(chunk)
           /\ TableInv'
<1> DEFINE N == Len(stored)
<1>1. N \in Nat /\ DOMAIN stored = 1..N
  OBVIOUS
<1>2. /\ stored' \in Seq(Seq(Nat)) /\ Len(stored') = N + 1 /\ DOMAIN stored' = 1..(N + 1)
      /\ \A k \in 1..N : stored'[k] = stored[k]
      /\ stored'[N + 1] = chunk
  BY Appended
<1>3. DOMAIN chunk = 1..Len(chunk) /\ Len(chunk) \in 1..Len(chunk)
  OBVIOUS
<1>4. EndOf(N) \in Nat
  <2>1. Len(stored) <= Len(stored)
    BY <1>1
  <2> QED  BY <1>1, <2>1, EndIsByte
<1> HIDE DEF N
<1>5. \A k \in 0..N : EndOf(k)' = EndOf(k)
  BY <1>1, <1>2 DEF EndOf
<1>6. EndOf(Len(stored))' = EndOf(N) + Len(chunk)
  <2>1. EndOf(Len(stored))' = LastByte(chunk)
    <3>1. Len(stored') # 0 /\ stored'[Len(stored')] = chunk
      BY <1>1, <1>2
    <3> QED  BY <3>1 DEF EndOf, LastByte
  <2>2. LastByte(chunk) = chunk[Len(chunk)]
    BY DEF LastByte
  <2> QED  BY <1>3, <2>1, <2>2 DEF N
<1>7. ASSUME NEW k \in 1..(N + 1)
      PROVE  stored'[k] # <<>> /\ \A j \in DOMAIN stored'[k] : stored'[k][j] = EndOf(k - 1)' + j
  <2>1. k - 1 \in 0..N
    BY <1>1
  <2>2. EndOf(k - 1)' = EndOf(k - 1)
    BY <1>5, <2>1
  <2>3. CASE k \in 1..N
    <3>1. stored[k] # <<>> /\ \A j \in DOMAIN stored[k] : stored[k][j] = EndOf(k - 1) + j
      BY <1>1, <2>3 DEF TableInv
    <3>2. stored'[k] = stored[k]
      BY <1>2, <2>3
    <3> QED  BY <2>2, <3>1, <3>2
  <2>4. CASE k = N + 1
    <3>1. k - 1 = N
      BY <1>1, <2>4
    <3> QED  BY <1>2, <2>2, <2>4, <3>1 DEF N
  <2> QED  BY <1>1, <2>3, <2>4
<1>8. Streams!BytesStored' = 1..(EndOf(N) + Len(chunk))
  <2>1. Streams!BytesStored' = Streams!BytesStored \cup Streams!ToSet(chunk)
    <3>1. Streams!BytesStored' = UNION {Streams!ToSet(stored'[k]) : k \in 1..(N + 1)}
      BY <1>2 DEF Streams!BytesStored
    <3>2. Streams!BytesStored = UNION {Streams!ToSet(stored[k]) : k \in 1..N}
      BY <1>1 DEF Streams!BytesStored
    <3>3. 1..(N + 1) = 1..N \cup {N + 1}
      BY <1>1
    <3>4. {Streams!ToSet(stored'[k]) : k \in 1..(N + 1)} = {Streams!ToSet(stored[k]) : k \in 1..N} \cup {Streams!ToSet(chunk)}
      BY <1>2, <3>3
    <3> QED  BY <3>1, <3>2, <3>4
  <2>2. Streams!ToSet(chunk) = (EndOf(N) + 1)..(EndOf(N) + Len(chunk))
    <3>1. Streams!ToSet(chunk) = {chunk[j] : j \in DOMAIN chunk}
      BY DEF Streams!ToSet
    <3>2. \A j \in 1..Len(chunk) : chunk[j] = EndOf(N) + j
      BY <1>3 DEF N
    <3>3. \A n \in (EndOf(N) + 1)..(EndOf(N) + Len(chunk)) :
             n - EndOf(N) \in 1..Len(chunk) /\ n = EndOf(N) + (n - EndOf(N))
      BY <1>3, <1>4
    <3>4. ASSUME NEW n \in (EndOf(N) + 1)..(EndOf(N) + Len(chunk))  PROVE n \in Streams!ToSet(chunk)
      <4>1. n - EndOf(N) \in DOMAIN chunk /\ chunk[n - EndOf(N)] = n
        BY <1>3, <3>2, <3>3
      <4> QED  BY <3>1, <4>1
    <3>5. ASSUME NEW j \in 1..Len(chunk)
          PROVE  chunk[j] \in (EndOf(N) + 1)..(EndOf(N) + Len(chunk))
      <4>1. chunk[j] = EndOf(N) + j
        BY <3>2
      <4> QED  BY <1>3, <1>4, <4>1
    <3> QED  BY <1>3, <3>1, <3>4, <3>5
  <2>3. Streams!BytesStored = 1..EndOf(N)
    BY DEF TableInv, N
  <2> QED  BY <1>3, <1>4, <2>1, <2>2, <2>3
<1>9. TableInv'
  <2>1. \A k \in DOMAIN stored' :
           /\ stored'[k] # <<>>
           /\ \A j \in DOMAIN stored'[k] : stored'[k][j] = EndOf(k - 1)' + j
    BY <1>2, <1>7
  <2>2. Streams!BytesStored' = 1..EndOf(Len(stored))'
    BY <1>6, <1>8
  <2> QED  BY <2>1, <2>2 DEF TableInv
<1> QED  BY <1>2, <1>5, <1>6, <1>9 DEF N

-----------------------------------------------------------------------------
(* The types, by the actor that changes them.                              *)

TableType  == stored \in Seq(Seq(Nat)) /\ chunks \in 0..MaxChunks /\ length \in Nat
WriterType == writing \in Seq(Nat) /\ puts \in 0..2
ScriptType == scriptIndex \in 0..MaxChunks /\ scriptRead \in Seq(Nat)
ReaderType ==
    /\ readerIndex \in Nat /\ offset \in {0} \cup Streams!BytesStored
    /\ readPc \in {"none", "asked", "answered"}
    /\ size \in ReadSizes \cup {All}
    /\ answer \in Seq(Nat) /\ buffer \in Seq(Nat)
    /\ reads \in 0..MaxReads
    /\ delivered \in Seq(Nat)

LEMMA TypeParts ==
    /\ Streams!TypeOK <=> TableType /\ WriterType /\ ScriptType /\ ReaderType
    /\ Streams!TypeOK' <=> TableType' /\ WriterType' /\ ScriptType' /\ ReaderType'
BY DEF Streams!TypeOK, TableType, WriterType, ScriptType, ReaderType

\* An offset is a number.
LEMMA OffsetIsNat == ASSUME ReaderType, TableInv  PROVE offset \in Nat
<1>1. CASE offset = 0
  BY <1>1
<1>2. CASE offset \in Streams!BytesStored
  <2>1. offset \in 1..EndOf(Len(stored))
    BY <1>2 DEF TableInv
  <2> QED  BY <2>1
<1> QED  BY <1>1, <1>2 DEF ReaderType

LEMMA StreamInit == Streams!Init => StreamInv
<1> SUFFICES ASSUME Streams!Init  PROVE StreamInv
  OBVIOUS
<1> USE DEF Streams!Init
<1>1. <<>> \in Seq(Nat) /\ <<>> \in Seq(Seq(Nat)) /\ MaxChunks \in Nat /\ MaxReads \in Nat
  BY DataAssumption DEF Streams!StreamAssumption
<1>2. TableType /\ WriterType /\ ScriptType
  BY <1>1 DEF TableType, WriterType, ScriptType
<1>3. ReaderType
  BY <1>1 DEF ReaderType
<1>4. EndOf(Len(stored)) = 0 /\ EndOf(scriptIndex) = 0
  BY DEF EndOf
<1>5. TableInv
  <2>1. Streams!BytesStored = {}
    BY DEF Streams!BytesStored
  <2> QED  BY <1>4, <2>1 DEF TableInv
<1>6. WriterInv
  BY <1>1, <1>4 DEF WriterInv
<1>7. ScriptInv
  BY <1>4 DEF ScriptInv, Streams!Sequential
<1>8. Got = <<>>
  BY DEF Got
<1>9. ReaderInv
  BY <1>8 DEF ReaderInv, Gapless
<1> QED  BY <1>2, <1>3, <1>5, <1>6, <1>7, <1>9, TypeParts DEF StreamInv

-----------------------------------------------------------------------------
(* The writing script.                                                     *)

LEMMA WriteKeeps ==
    ASSUME StreamInv, NEW n \in ChunkSizes, Streams!Write(n)
    PROVE  StreamInv'
<1> USE DEF StreamInv
<1>1. /\ writing = <<>> /\ chunks < MaxChunks /\ reads = 0
      /\ writing' = [i \in 1..n |-> length + i]
      /\ stored' = stored /\ chunks' = chunks /\ length' = length /\ puts' = puts
  BY DEF Streams!Write, Streams!tableVars
<1>2. UNCHANGED <<Streams!scriptVars, Streams!readerVars>>
  BY DEF Streams!Write
<1>3. TableType /\ WriterType /\ ScriptType /\ ReaderType
  BY TypeParts
<1>4. n \in Nat \ {0} /\ MaxChunks \in Nat
  BY DataAssumption DEF Streams!StreamAssumption
<1>5. writing' \in Seq(Nat) /\ writing' # <<>> /\ DOMAIN writing' = 1..n
  <2> DEFINE chunk == [i \in 1..n |-> length + i]
  <2>1. \A i \in 1..n : length + i \in Nat
    BY <1>3, <1>4 DEF TableType
  <2>2. chunk \in [1..n -> Nat] /\ DOMAIN chunk = 1..n
    BY <2>1
  <2>3. writing' = chunk
    BY <1>1
  <2> HIDE DEF chunk
  <2>4. chunk \in Seq(Nat) /\ Len(chunk) = n
    BY <1>4, <2>2
  <2> QED  BY <1>4, <2>2, <2>3, <2>4
<1>6. TableType' /\ WriterType'
  BY <1>1, <1>3, <1>5 DEF TableType, WriterType
<1>7. TableInv'
  BY <1>1 DEF TableInv, EndOf, Streams!BytesStored
<1>8. WriterInv'
  <2>1. puts = 0 /\ EndOf(Len(stored)) = length /\ chunks = Len(stored)
        /\ Len(stored) \in Nat
    BY <1>1, <1>3 DEF WriterInv, TableType
  <2>2. EndOf(Len(stored))' = EndOf(Len(stored))
    BY <1>1 DEF EndOf
  <2> QED  BY <1>1, <1>4, <1>5, <2>1, <2>2 DEF WriterInv
<1>9. ScriptType' /\ ScriptInv'
  BY <1>1, <1>2, <1>3
     DEF ScriptType, ScriptInv, EndOf, Streams!scriptVars, Streams!Sequential
<1>10. ReaderType'
  BY <1>1, <1>2, <1>3 DEF ReaderType, Streams!readerVars, Streams!BytesStored
<1>11. ReaderInv'
  BY <1>1, <1>2 DEF ReaderInv, EndOf, Got, Gapless, Streams!readerVars, Streams!Chunk
<1> QED  BY <1>6, <1>7, <1>8, <1>9, <1>10, <1>11, TypeParts

\* A reader that is not reading has not started yet, or nothing changes for it.
LEMMA UnreadStays ==
    ASSUME StreamInv, reads = 0, UNCHANGED Streams!readerVars
    PROVE  ReaderInv'
<1>1. /\ readPc' = "none" /\ readerIndex' = 0 /\ offset' = 0 /\ delivered' = <<>>
      /\ buffer' = <<>> /\ answer' = <<>> /\ reads' = 0 /\ size' = size
  BY DEF StreamInv, ReaderInv, Streams!readerVars
<1>2. Got' = <<>>
  BY <1>1 DEF Got
<1>3. EndOf(0)' = 0
  BY DEF EndOf
<1>4. size' # All => 0 <= size'
  <2>1. size \in ReadSizes \cup {All}
    BY TypeParts DEF StreamInv, ReaderType
  <2> QED  BY <1>1, <2>1, DataAssumption DEF Streams!StreamAssumption
<1> QED  BY <1>1, <1>2, <1>3, <1>4 DEF ReaderInv, Gapless, LastByte

LEMMA PutKeeps ==
    ASSUME StreamInv, Streams!Put
    PROVE  StreamInv'
<1> USE DEF StreamInv
<1>1. writing # <<>> /\ UNCHANGED <<Streams!scriptVars, Streams!readerVars>>
  BY DEF Streams!Put
<1>2. TableType /\ WriterType /\ ScriptType /\ ReaderType
  BY TypeParts
<1>3. reads = 0
  BY <1>1, <1>2 DEF ReaderInv, ReaderType
<1>4. ReaderInv'
  BY <1>1, <1>3, UnreadStays
<1>5. MaxChunks \in Nat /\ Len(stored) \in Nat /\ Len(writing) \in Nat
  BY <1>2, DataAssumption DEF Streams!StreamAssumption, TableType, WriterType
<1>6. ReaderType'
  <2>1. offset' = 0
    BY <1>1, <1>3 DEF ReaderInv, Streams!readerVars
  <2> QED  BY <1>1, <1>2, <2>1 DEF ReaderType, Streams!readerVars
<1>7. CASE puts = 0
  <2>1. /\ stored' = Append(stored, writing) /\ chunks' = chunks /\ length' = length
        /\ puts' = 1 /\ writing' = writing
    BY <1>7 DEF Streams!Put, Streams!Puts
  <2>2. /\ EndOf(Len(stored)) = length /\ Len(stored) < MaxChunks /\ chunks = Len(stored)
        /\ \A j \in DOMAIN writing : writing[j] = EndOf(Len(stored)) + j
    BY <1>1, <1>2, <1>5, <1>7 DEF WriterInv, TableType
  <2>3. /\ stored' \in Seq(Seq(Nat)) /\ Len(stored') = Len(stored) + 1
        /\ \A k \in 0..Len(stored) : EndOf(k)' = EndOf(k)
        /\ EndOf(Len(stored))' = EndOf(Len(stored)) + Len(writing)
        /\ TableInv'
    BY <1>1, <1>2, <2>1, <2>2, TableGrows DEF TableType, WriterType
  <2>4. WriterInv'
    BY <1>1, <1>5, <2>1, <2>2, <2>3 DEF WriterInv
  <2>5. ScriptInv'
    <3>1. scriptIndex \in 0..Len(stored)
      BY <1>2, <1>5 DEF ScriptInv, ScriptType
    <3>2. scriptIndex' = scriptIndex /\ scriptRead' = scriptRead
      BY <1>1 DEF Streams!scriptVars
    <3>3. EndOf(scriptIndex)' = EndOf(scriptIndex)
      BY <2>3, <3>1, <3>2
    <3> QED  BY <1>5, <2>3, <3>1, <3>2, <3>3 DEF ScriptInv, Streams!Sequential
  <2>6. TableType' /\ WriterType' /\ ScriptType'
    BY <1>1, <1>2, <2>1, <2>3 DEF TableType, WriterType, ScriptType, Streams!scriptVars
  <2> QED  BY <1>4, <1>6, <2>3, <2>4, <2>5, <2>6, TypeParts
<1>8. CASE puts # 0
  <2>1. stored' = stored /\ \A k : EndOf(k)' = EndOf(k)
    <3>1. stored' = stored
      BY <1>2, <1>8 DEF Streams!Put, Streams!Puts, WriterType
    <3> QED  BY <3>1 DEF EndOf
  <2>2. EndOf(Len(stored))' = EndOf(Len(stored)) /\ EndOf(scriptIndex)' = EndOf(scriptIndex)
    BY <1>1, <2>1 DEF EndOf, Streams!scriptVars
  <2>3. TableInv'
    BY <2>1 DEF TableInv, EndOf, Streams!BytesStored
  <2>4. ScriptType' /\ ScriptInv'
    BY <1>1, <1>2, <2>1, <2>2 DEF ScriptType, ScriptInv, Streams!scriptVars, Streams!Sequential
  <2>5. CASE puts = 1
    <3>1. chunks' = chunks + 1 /\ length' = length /\ puts' = 2 /\ writing' = writing
      BY <2>5 DEF Streams!Put, Streams!Puts
    <3>2. WriterInv'
      BY <1>1, <1>5, <2>1, <2>2, <2>5, <3>1 DEF WriterInv
    <3>3. TableType' /\ WriterType'
      BY <1>2, <1>5, <2>1, <2>5, <3>1 DEF TableType, WriterType, WriterInv
    <3> QED  BY <1>4, <1>6, <2>3, <2>4, <3>2, <3>3, TypeParts
  <2>6. CASE puts = 2
    <3>1. chunks' = chunks /\ length' = length + Len(writing) /\ puts' = 0 /\ writing' = <<>>
      BY <2>6 DEF Streams!Put, Streams!Puts
    <3>2. WriterInv'
      BY <1>1, <1>5, <2>1, <2>2, <2>6, <3>1 DEF WriterInv
    <3>3. TableType' /\ WriterType'
      <4>1. <<>> \in Seq(Nat)
        OBVIOUS
      <4> QED  BY <1>2, <1>5, <2>1, <3>1, <4>1 DEF TableType, WriterType
    <3> QED  BY <1>4, <1>6, <2>3, <2>4, <3>2, <3>3, TypeParts
  <2> QED  BY <1>2, <1>8, <2>5, <2>6 DEF WriterType
<1> QED  BY <1>7, <1>8

-----------------------------------------------------------------------------
(* The reading script.                                                     *)

LEMMA ScriptReadKeeps ==
    ASSUME StreamInv, Streams!ScriptRead
    PROVE  StreamInv'
<1> USE DEF StreamInv
<1> DEFINE chunk == Streams!Chunk(scriptIndex)
<1>1. /\ chunk # <<>> /\ scriptIndex' = scriptIndex + 1
      /\ scriptRead' = scriptRead \o chunk
      /\ UNCHANGED <<Streams!tableVars, Streams!writerVars, Streams!readerVars>>
  BY DEF Streams!ScriptRead
<1>2. TableType /\ WriterType /\ ScriptType /\ ReaderType
  BY TypeParts
<1>3. stored \in Seq(Seq(Nat)) /\ Len(stored) \in Nat /\ scriptIndex \in Nat
      /\ scriptRead \in Seq(Nat) /\ MaxChunks \in Nat
  BY <1>2, DataAssumption DEF TableType, ScriptType, Streams!StreamAssumption
<1>4. ~(scriptIndex >= Len(stored))
  BY <1>1, <1>3, ChunkFacts
<1>5. /\ chunk \in Seq(Nat)
      /\ \A j \in 1..Len(chunk) : chunk[j] = EndOf(scriptIndex) + j
      /\ EndOf(scriptIndex + 1) = EndOf(scriptIndex) + Len(chunk)
  <2>1. scriptIndex < Len(stored)
    BY <1>3, <1>4
  <2> QED  BY <1>3, <2>1, ChunkFacts
<1> HIDE DEF chunk
<1>6. Len(scriptRead) = EndOf(scriptIndex) /\ \A i \in DOMAIN scriptRead : scriptRead[i] = i
  BY DEF ScriptInv, Streams!Sequential
<1>7. /\ scriptRead' \in Seq(Nat) /\ Len(scriptRead') = Len(scriptRead) + Len(chunk)
      /\ \A i \in 1..Len(scriptRead) : scriptRead'[i] = scriptRead[i]
      /\ \A i \in (Len(scriptRead) + 1)..(Len(scriptRead) + Len(chunk)) :
            scriptRead'[i] = chunk[i - Len(scriptRead)]
  BY <1>1, <1>3, <1>5, Concatenated
<1>8. ASSUME NEW i \in DOMAIN scriptRead'  PROVE scriptRead'[i] = i
  <2>1. i \in 1..(Len(scriptRead) + Len(chunk)) /\ Len(scriptRead) \in Nat /\ Len(chunk) \in Nat
    BY <1>3, <1>5, <1>7
  <2>2. CASE i <= Len(scriptRead)
    <3>1. i \in DOMAIN scriptRead /\ scriptRead'[i] = scriptRead[i]
      BY <1>3, <1>7, <2>1, <2>2
    <3> QED  BY <1>6, <3>1
  <2>3. CASE i > Len(scriptRead)
    <3> DEFINE j == i - Len(scriptRead)
    <3>1. j \in 1..Len(chunk) /\ scriptRead'[i] = chunk[j]
      <4>1. i \in (Len(scriptRead) + 1)..(Len(scriptRead) + Len(chunk)) /\ j \in 1..Len(chunk)
        BY <2>1, <2>3
      <4> QED  BY <1>7, <4>1
    <3>2. i = Len(scriptRead) + j
      BY <2>1
    <3> HIDE DEF j
    <3>3. chunk[j] = EndOf(scriptIndex) + j
      BY <1>5, <3>1
    <3>4. EndOf(scriptIndex) = Len(scriptRead)
      BY <1>6
    <3> QED  BY <3>1, <3>2, <3>3, <3>4
  <2> QED  BY <2>1, <2>2, <2>3
<1>9. TableInv' /\ WriterInv'
  BY <1>1 DEF TableInv, WriterInv, EndOf, Streams!BytesStored, Streams!tableVars, Streams!writerVars
<1>10. ScriptInv'
  <2>1. scriptIndex' <= Len(stored)'
    BY <1>1, <1>3, <1>4 DEF Streams!tableVars
  <2>2. EndOf(scriptIndex)' = EndOf(scriptIndex + 1)
    BY <1>1 DEF EndOf, Streams!tableVars
  <2> QED  BY <1>5, <1>6, <1>7, <1>8, <2>1, <2>2 DEF ScriptInv, Streams!Sequential
<1>11. ReaderInv'
  BY <1>1 DEF ReaderInv, EndOf, Got, Gapless, Streams!Chunk,
              Streams!readerVars, Streams!tableVars, Streams!writerVars
<1>12. TableType' /\ WriterType' /\ ReaderType'
  BY <1>1, <1>2 DEF TableType, WriterType, ReaderType, Streams!BytesStored,
                    Streams!readerVars, Streams!tableVars, Streams!writerVars
<1>13. ScriptType'
  BY <1>1, <1>3, <1>4, <1>7 DEF ScriptType, WriterInv
<1> QED  BY <1>9, <1>10, <1>11, <1>12, <1>13, TypeParts

-----------------------------------------------------------------------------
(* The reader of the user interface.                                       *)

\* What it leaves alone.
Frame == UNCHANGED <<Streams!tableVars, Streams!writerVars, Streams!scriptVars>>

LEMMA FrameKeeps ==
    ASSUME StreamInv, Frame
    PROVE  /\ TableType' /\ WriterType' /\ ScriptType'
           /\ TableInv' /\ WriterInv' /\ ScriptInv'
           /\ stored' = stored /\ writing' = writing
           /\ Streams!BytesStored' = Streams!BytesStored
           /\ \A k : EndOf(k)' = EndOf(k) /\ Streams!Chunk(k)' = Streams!Chunk(k)
<1> USE DEF StreamInv, Streams!tableVars, Streams!writerVars, Streams!scriptVars
<1>1. TableType' /\ WriterType' /\ ScriptType'
  BY TypeParts DEF Frame, TableType, WriterType, ScriptType
<1>2. TableInv' /\ WriterInv' /\ ScriptInv'
  BY DEF Frame, TableInv, WriterInv, ScriptInv, EndOf, Streams!BytesStored, Streams!Sequential
<1>3. stored' = stored /\ writing' = writing
  BY DEF Frame
<1> QED  BY <1>1, <1>2, <1>3 DEF EndOf, Streams!Chunk, Streams!BytesStored

\* The types that the steps of the reader need.
LEMMA ReaderTypes ==
    ASSUME StreamInv
    PROVE  /\ stored \in Seq(Seq(Nat)) /\ Len(stored) \in Nat
           /\ readerIndex \in Nat /\ offset \in Nat /\ reads \in Nat
           /\ answer \in Seq(Nat) /\ buffer \in Seq(Nat) /\ delivered \in Seq(Nat)
           /\ size # All => size \in Nat /\ size > 0
           /\ Got \in Seq(Nat) /\ LastByte(Got) \in Nat
<1> USE DEF StreamInv
<1>1. TableType /\ ReaderType
  BY TypeParts
<1>2. offset \in Nat
  BY <1>1, OffsetIsNat
<1>3. size # All => size \in Nat /\ size > 0
  BY <1>1, DataAssumption DEF ReaderType, Streams!StreamAssumption
<1>4. Got \in Seq(Nat)
  BY <1>1 DEF Got, ReaderType
<1>5. LastByte(Got) \in Nat
  BY <1>4, LastByteIsByte
<1> QED  BY <1>1, <1>2, <1>3, <1>4, <1>5 DEF TableType, ReaderType

LEMMA CallKeeps ==
    ASSUME StreamInv, NEW n \in ReadSizes, Streams!Call(n)
    PROVE  StreamInv'
<1> USE DEF StreamInv
<1>1. /\ readPc = "none" /\ reads < MaxReads /\ writing = <<>>
      /\ readPc' = "asked" /\ size' = n /\ reads' = reads + 1
      /\ readerIndex' = readerIndex /\ offset' = offset /\ answer' = answer
      /\ buffer' = buffer /\ delivered' = delivered /\ Frame
  BY DEF Streams!Call, Frame
<1>2. ReaderType /\ MaxReads \in Nat
  BY TypeParts, DataAssumption DEF Streams!StreamAssumption
<1>3. buffer = <<>> /\ answer = <<>>
  BY <1>1 DEF ReaderInv
<1>4. size' # All => 0 <= size'
  BY <1>1, DataAssumption DEF Streams!StreamAssumption
<1>5. ReaderType'
  BY <1>1, <1>2, FrameKeeps DEF ReaderType
<1>6. Got' = Got
  BY <1>1 DEF Got
<1>7. readerIndex < Len(stored) => EndOf(readerIndex) + offset <= LastByte(Got)
  BY <1>1 DEF ReaderInv
<1>8. EndOf(readerIndex)' = EndOf(readerIndex) /\ stored' = stored /\ writing' = <<>>
  <2>1. \A k : EndOf(k)' = EndOf(k)
    BY <1>1, FrameKeeps
  <2>2. stored' = stored /\ writing' = writing
    BY <1>1, FrameKeeps
  <2> QED  BY <1>1, <2>1, <2>2
<1>9. LastByte(Got)' = LastByte(Got) /\ Gapless(Got)'
  BY <1>6 DEF LastByte, Gapless, ReaderInv
<1>10. ReaderInv'
  <2>1. reads' # 0
    BY <1>1, ReaderTypes
  <2> QED  BY <1>1, <1>3, <1>4, <1>7, <1>8, <1>9, <2>1 DEF ReaderInv
<1> QED  BY <1>1, <1>5, <1>10, FrameKeeps, TypeParts

LEMMA ServeKeeps ==
    ASSUME StreamInv, Streams!Serve
    PROVE  StreamInv'
<1> USE DEF StreamInv
<1>1. /\ readPc = "asked" /\ readPc' = "answered"
      /\ answer' = Streams!Chunk(readerIndex) /\ readerIndex' = readerIndex + 1
      /\ offset' = offset /\ size' = size /\ buffer' = buffer
      /\ reads' = reads /\ delivered' = delivered /\ Frame
  BY DEF Streams!Serve, Frame
<1>2. ReaderType
  BY TypeParts
<1>3. readerIndex \in Nat /\ reads \in Nat /\ Len(stored) \in Nat
  BY ReaderTypes
<1>4. answer' \in Seq(Nat) /\ (readerIndex >= Len(stored) => answer' = <<>>)
  BY <1>1, <1>3, ReaderTypes, ChunkFacts
<1>5. ReaderType'
  BY <1>1, <1>2, <1>3, <1>4, FrameKeeps DEF ReaderType
<1>6. Got' = Got
  BY <1>1 DEF Got
<1>7. readerIndex < Len(stored) => EndOf(readerIndex) + offset <= LastByte(Got)
  BY <1>1 DEF ReaderInv
<1>8. readerIndex' - 1 = readerIndex
  BY <1>1, <1>3
<1>9. EndOf(readerIndex - 1)' = EndOf(readerIndex)
      /\ Streams!Chunk(readerIndex - 1)' = Streams!Chunk(readerIndex) /\ writing' = writing
  <2>1. \A k : EndOf(k)' = EndOf(k) /\ Streams!Chunk(k)' = Streams!Chunk(k)
    BY <1>1, FrameKeeps
  <2>2. writing' = writing /\ stored' = stored
    BY <1>1, FrameKeeps
  <2> QED  BY <1>8, <2>1, <2>2 DEF EndOf, Streams!Chunk
<1>10. LastByte(Got)' = LastByte(Got) /\ Gapless(Got)'
  BY <1>6 DEF LastByte, Gapless, ReaderInv
<1>11. reads > 0 /\ writing = <<>> /\ (size # All => Len(buffer) <= size)
  BY <1>1, <1>3 DEF ReaderInv
<1>12. readerIndex' > 0 /\ (answer' # <<>> => EndOf(readerIndex) + offset <= LastByte(Got))
  BY <1>1, <1>3, <1>4, <1>7
<1>13. ReaderInv'
  <2>1. reads' # 0
    BY <1>1, <1>11
  <2> QED  BY <1>1, <1>9, <1>10, <1>11, <1>12, <2>1 DEF ReaderInv
<1> QED  BY <1>1, <1>5, <1>13, FrameKeeps, TypeParts

LEMMA ResumeAtEndKeeps ==
    ASSUME StreamInv, Streams!ResumeAtEnd
    PROVE  StreamInv'
<1> USE DEF StreamInv
<1>1. /\ readPc = "answered" /\ answer = <<>>
      /\ delivered' = Got /\ readPc' = "none" /\ buffer' = <<>> /\ answer' = <<>>
      /\ readerIndex' = readerIndex /\ offset' = offset
      /\ size' = size /\ reads' = reads /\ Frame
  BY DEF Streams!ResumeAtEnd, Streams!Return, Frame, Got
<1>2. ReaderType
  BY TypeParts
<1>3. readerIndex \in Nat /\ reads \in Nat /\ Len(stored) \in Nat /\ Got \in Seq(Nat)
      /\ stored \in Seq(Seq(Nat))
  BY ReaderTypes
<1>4. <<>> \in Seq(Nat)
  OBVIOUS
<1>5. ReaderType'
  BY <1>1, <1>2, <1>3, <1>4, FrameKeeps DEF ReaderType
<1>6. Got' = Got
  BY <1>1, <1>3, ConcatenatedEmpty DEF Got
<1>7. readerIndex >= Len(stored)
  <2>1. readerIndex > 0 /\ Streams!Chunk(readerIndex - 1) = <<>>
    BY <1>1 DEF ReaderInv
  <2>2. readerIndex - 1 \in Nat
    BY <1>3, <2>1
  <2>3. ~(readerIndex - 1 < Len(stored))
    BY <1>3, <2>1, <2>2, ChunkFacts
  <2> QED  BY <1>3, <2>3
<1>8. stored' = stored /\ writing' = writing
  BY <1>1, FrameKeeps
<1>9. reads > 0 /\ writing = <<>> /\ Gapless(Got)'
  BY <1>1, <1>3, <1>6 DEF ReaderInv, Gapless
<1>10. size' # All => 0 <= size'
  BY <1>1, ReaderTypes
<1>11. ReaderInv'
  <2>1. reads' # 0 /\ ~(readerIndex' < Len(stored'))
    BY <1>1, <1>3, <1>7, <1>8, <1>9
  <2> QED  BY <1>1, <1>8, <1>9, <1>10, <2>1 DEF ReaderInv
<1> QED  BY <1>1, <1>5, <1>11, FrameKeeps, TypeParts

\* What an answered chunk adds to the bytes so far.
LEMMA AnsweredFacts ==
    ASSUME StreamInv, readPc = "answered", answer # <<>>
    PROVE  /\ readerIndex - 1 \in Nat /\ readerIndex - 1 < Len(stored)
           /\ EndOf(readerIndex - 1) + offset \in Nat
           /\ EndOf(readerIndex - 1) \in Nat
           /\ EndOf(readerIndex) = EndOf(readerIndex - 1) + Len(answer)
           /\ EndOf(readerIndex - 1) + offset <= LastByte(Got)
           /\ Streams!Rest \in Seq(Nat)
           /\ Len(Streams!Rest) = IF offset < Len(answer) THEN Len(answer) - offset ELSE 0
           /\ \A j \in 1..Len(Streams!Rest) :
                 Streams!Rest[j] = EndOf(readerIndex - 1) + offset + j
           /\ Streams!Joined \in Seq(Nat)
           /\ Len(Streams!Joined) = Len(buffer) + Len(Streams!Rest)
           /\ reads > 0 /\ writing = <<>>
<1> DEFINE k == readerIndex - 1
<1>1. /\ stored \in Seq(Seq(Nat)) /\ Len(stored) \in Nat /\ readerIndex \in Nat
      /\ offset \in Nat /\ answer \in Seq(Nat) /\ buffer \in Seq(Nat) /\ reads \in Nat
  BY ReaderTypes
<1>2. readerIndex > 0 /\ answer = Streams!Chunk(k) /\ EndOf(k) + offset <= LastByte(Got)
  BY DEF StreamInv, ReaderInv
<1>3. k \in Nat /\ k + 1 = readerIndex
  BY <1>1, <1>2
<1> HIDE DEF k
<1>4. k < Len(stored)
  <2>1. ~(k >= Len(stored))
    BY <1>1, <1>2, <1>3, ChunkFacts DEF StreamInv
  <2> QED  BY <1>1, <1>3, <2>1
<1>5. /\ \A j \in 1..Len(answer) : answer[j] = EndOf(k) + j
      /\ EndOf(k + 1) = EndOf(k) + Len(answer)
  BY <1>1, <1>2, <1>3, <1>4, ChunkFacts DEF StreamInv
<1>6. EndOf(k) \in Nat
  <2>1. k <= Len(stored)
    BY <1>1, <1>3, <1>4
  <2> QED  BY <1>1, <1>3, <2>1, EndIsByte
<1>7. /\ Streams!Rest \in Seq(Nat)
      /\ Len(Streams!Rest) = IF offset < Len(answer) THEN Len(answer) - offset ELSE 0
      /\ \A j \in 1..Len(Streams!Rest) : Streams!Rest[j] = EndOf(k) + offset + j
  <2>1. CASE offset < Len(answer)
    <3>1. /\ Streams!Rest \in Seq(Nat)
          /\ Len(Streams!Rest) = Len(answer) - offset
          /\ \A j \in 1..(Len(answer) - offset) : Streams!Rest[j] = answer[offset + j]
      BY <1>1, <2>1 DEF Streams!Rest
    <3>2. \A j \in 1..(Len(answer) - offset) : answer[offset + j] = EndOf(k) + offset + j
      <4> SUFFICES ASSUME NEW j \in 1..(Len(answer) - offset)
                   PROVE  answer[offset + j] = EndOf(k) + offset + j
        OBVIOUS
      <4>1. offset + j \in 1..Len(answer)
        BY <1>1, <2>1
      <4>2. answer[offset + j] = EndOf(k) + (offset + j)
        BY <1>5, <4>1
      <4> QED  BY <1>1, <1>6, <4>2
    <3> QED  BY <2>1, <3>1, <3>2
  <2>2. CASE ~(offset < Len(answer))
    <3>1. Streams!Rest = <<>>
      BY <1>1, <2>2 DEF Streams!Rest
    <3>2. <<>> \in Seq(Nat) /\ Len(<<>>) = 0
      OBVIOUS
    <3>3. \A j \in 1..0 : Streams!Rest[j] = EndOf(k) + offset + j
      OBVIOUS
    <3> QED  BY <2>2, <3>1, <3>2, <3>3
  <2> QED  BY <2>1, <2>2
<1>8. Streams!Joined \in Seq(Nat) /\ Len(Streams!Joined) = Len(buffer) + Len(Streams!Rest)
  BY <1>1, <1>7, Concatenated DEF Streams!Joined
<1>9. reads > 0 /\ writing = <<>>
  <2>1. reads # 0
    BY DEF StreamInv, ReaderInv
  <2> QED  BY <1>1, <2>1 DEF StreamInv, ReaderInv
<1>10. EndOf(k + 1) = EndOf(readerIndex) /\ EndOf(k) + offset \in Nat
  BY <1>1, <1>3, <1>6
<1> QED  BY <1>2, <1>3, <1>4, <1>5, <1>6, <1>7, <1>8, <1>9, <1>10 DEF k

LEMMA ResumeMoreKeeps ==
    ASSUME StreamInv, Streams!ResumeMore
    PROVE  StreamInv'
<1> DEFINE n == EndOf(readerIndex - 1) + offset
           rest == Streams!Rest
<1>1. /\ readPc = "answered" /\ answer # <<>> /\ ~Streams!Enough
      /\ buffer' = buffer \o rest /\ offset' = 0
      /\ readPc' = "asked" /\ answer' = <<>>
      /\ readerIndex' = readerIndex /\ size' = size /\ reads' = reads
      /\ delivered' = delivered /\ Frame
  BY DEF Streams!ResumeMore, Streams!Joined, Frame
<1>2. /\ n \in Nat /\ n <= LastByte(Got)
      /\ EndOf(readerIndex - 1) \in Nat
      /\ EndOf(readerIndex) = EndOf(readerIndex - 1) + Len(answer)
      /\ rest \in Seq(Nat)
      /\ Len(rest) = IF offset < Len(answer) THEN Len(answer) - offset ELSE 0
      /\ \A j \in 1..Len(rest) : rest[j] = n + j
      /\ Streams!Joined \in Seq(Nat) /\ Len(Streams!Joined) = Len(buffer) + Len(rest)
      /\ reads > 0 /\ writing = <<>>
  BY <1>1, AnsweredFacts
<1>3. /\ offset \in Nat /\ answer \in Seq(Nat) /\ Len(answer) \in Nat /\ Got \in Seq(Nat)
      /\ buffer \in Seq(Nat) /\ delivered \in Seq(Nat) /\ LastByte(Got) \in Nat
      /\ (size # All => size \in Nat)
  BY ReaderTypes
<1>4. buffer' = Streams!Joined
  BY <1>1 DEF Streams!Joined
<1>5. size' # All => Len(buffer') <= size'
  <2>1. Len(Streams!Joined) \in Nat
    BY <1>2
  <2>2. size # All => ~(Len(Streams!Joined) > size)
    BY <1>1 DEF Streams!Enough
  <2>3. size # All => Len(Streams!Joined) <= size
    BY <1>3, <2>1, <2>2
  <2> QED  BY <1>1, <1>4, <2>3
<1> HIDE DEF rest
<1>6. Got' = Got \o rest
  BY <1>1, <1>2, <1>3, JoinedInOrder DEF Got
<1>7. /\ Gapless(Got \o rest)
      /\ rest = <<>> => LastByte(Got \o rest) = LastByte(Got)
      /\ rest # <<>> => LastByte(Got \o rest) = n + Len(rest)
  <2>1. Gapless(Got)
    BY DEF StreamInv, ReaderInv
  <2>2. /\ Got \in Seq(Nat) /\ rest \in Seq(Nat) /\ n \in Nat /\ n <= LastByte(Got)
        /\ \A j \in 1..Len(rest) : rest[j] = n + j
    BY <1>2, <1>3
  <2> HIDE DEF n
  <2> QED  BY <2>1, <2>2, GaplessGrows
<1>8. EndOf(readerIndex) <= LastByte(Got \o rest)
  <2>1. CASE offset < Len(answer)
    <3>1. rest # <<>>
      BY <1>2, <1>3, <2>1
    <3> QED  BY <1>2, <1>3, <1>7, <2>1, <3>1
  <2>2. CASE ~(offset < Len(answer))
    <3>1. rest = <<>>
      BY <1>2, <1>3, <2>2
    <3> QED  BY <1>2, <1>3, <1>7, <2>2, <3>1
  <2> QED  BY <2>1, <2>2
<1>9. EndOf(readerIndex)' = EndOf(readerIndex) /\ stored' = stored /\ writing' = writing
  <2>1. /\ \A k : EndOf(k)' = EndOf(k)
        /\ stored' = stored /\ writing' = writing
    BY <1>1, FrameKeeps
  <2> QED  BY <1>1, <2>1 DEF EndOf
<1>10. LastByte(Got)' = LastByte(Got \o rest) /\ Gapless(Got)'
  BY <1>6, <1>7 DEF LastByte, Gapless
<1>11. EndOf(readerIndex) + 0 = EndOf(readerIndex)
  BY <1>2, <1>3
<1>12. ReaderInv'
  <2>1. reads' # 0
    BY <1>1, <1>2
  <2> QED  BY <1>1, <1>2, <1>5, <1>8, <1>9, <1>10, <1>11, <2>1 DEF ReaderInv
<1>13. ReaderType'
  <2>1. <<>> \in Seq(Nat)
    OBVIOUS
  <2>2. ReaderType
    BY TypeParts DEF StreamInv
  <2> QED  BY <1>1, <1>2, <1>4, <2>1, <2>2 DEF ReaderType
<1> QED  BY <1>1, <1>12, <1>13, FrameKeeps, TypeParts DEF StreamInv

LEMMA ResumeEnoughKeeps ==
    ASSUME StreamInv, Streams!ResumeEnough
    PROVE  StreamInv'
<1> DEFINE k == readerIndex - 1
           n == EndOf(k) + offset
           rest == Streams!Rest
           m == size - Len(buffer)
           taken == SubSeq(rest, 1, m)
<1>1. /\ readPc = "answered" /\ answer # <<>> /\ Streams!Enough
      /\ offset' = Streams!OffsetIn /\ readerIndex' = readerIndex - 1
      /\ delivered' = delivered \o SubSeq(Streams!Joined, 1, size)
      /\ readPc' = "none" /\ buffer' = <<>> /\ answer' = <<>>
      /\ size' = size /\ reads' = reads /\ Frame
  BY DEF Streams!ResumeEnough, Streams!Return, Frame
<1>2. /\ k \in Nat /\ n \in Nat /\ n <= LastByte(Got)
      /\ EndOf(k) \in Nat
      /\ EndOf(readerIndex) = EndOf(k) + Len(answer)
      /\ rest \in Seq(Nat)
      /\ Len(rest) = IF offset < Len(answer) THEN Len(answer) - offset ELSE 0
      /\ \A j \in 1..Len(rest) : rest[j] = n + j
      /\ Len(Streams!Joined) = Len(buffer) + Len(rest)
      /\ reads > 0 /\ writing = <<>>
  BY <1>1, AnsweredFacts
<1>3. /\ offset \in Nat /\ answer \in Seq(Nat) /\ Len(answer) \in Nat /\ Got \in Seq(Nat)
      /\ buffer \in Seq(Nat) /\ delivered \in Seq(Nat) /\ LastByte(Got) \in Nat
      /\ size # All /\ size \in Nat /\ Len(buffer) \in Nat /\ Len(rest) \in Nat
  <2>1. size # All
    BY <1>1 DEF Streams!Enough
  <2>2. /\ offset \in Nat /\ answer \in Seq(Nat) /\ Got \in Seq(Nat)
        /\ buffer \in Seq(Nat) /\ delivered \in Seq(Nat) /\ LastByte(Got) \in Nat
        /\ size \in Nat
    BY <2>1, ReaderTypes
  <2>3. Len(answer) \in Nat /\ Len(buffer) \in Nat
    BY <2>2
  <2>4. Len(rest) \in Nat
    BY <1>2
  <2> QED  BY <2>1, <2>2, <2>3, <2>4
<1>4. Len(buffer) <= size /\ size < Len(buffer) + Len(rest)
  BY <1>1, <1>2, <1>3 DEF StreamInv, ReaderInv, Streams!Enough
<1>5. m \in Nat /\ m < Len(rest) /\ m < Len(answer) - offset /\ Len(rest) = Len(answer) - offset
  <2>1. m \in Nat /\ m < Len(rest)
    <3> HIDE DEF rest
    <3> QED  BY <1>3, <1>4
  <2>2. Len(rest) # 0
    BY <1>3, <2>1
  <2>3. offset < Len(answer)
    BY <1>2, <2>2
  <2>4. Len(rest) = Len(answer) - offset
    BY <1>2, <2>3
  <2> QED  BY <2>1, <2>4
<1>6. offset' = m
  BY <1>1, <1>2, <1>3 DEF Streams!OffsetIn
<1> HIDE DEF rest
<1>7. taken \in Seq(Nat) /\ Len(taken) = m /\ \A j \in 1..m : taken[j] = rest[j]
  <2>1. rest \in Seq(Nat) /\ m \in Nat /\ m <= Len(rest)
    BY <1>2, <1>3, <1>5
  <2> HIDE DEF m
  <2> QED  BY <2>1, FirstBytes
<1>8. \A j \in 1..Len(taken) : taken[j] = n + j
  <2>1. /\ m \in Nat /\ Len(rest) \in Nat /\ m < Len(rest)
        /\ \A j \in 1..Len(rest) : rest[j] = n + j
    BY <1>2, <1>3, <1>5
  <2> HIDE DEF m, n, taken
  <2>2. \A j \in 1..m : j \in 1..Len(rest)
    BY <2>1
  <2> QED  BY <1>7, <2>1, <2>2
<1> HIDE DEF taken
<1>9. Got' = Got \o taken
  <2>1. SubSeq(Streams!Joined, 1, size) = buffer \o taken
    <3>1. Streams!Joined = buffer \o rest
      BY DEF Streams!Joined, rest
    <3>2. Len(buffer) <= size /\ size <= Len(buffer) + Len(rest)
      BY <1>3, <1>4
    <3> QED  BY <1>2, <1>3, <3>1, <3>2, JoinedUpTo DEF taken
  <2>2. delivered' = Got \o taken
    <3>1. delivered' = delivered \o (buffer \o taken)
      BY <1>1, <2>1
    <3>2. delivered \in Seq(Nat) /\ buffer \in Seq(Nat) /\ taken \in Seq(Nat)
      BY <1>3, <1>7
    <3> QED  BY <3>1, <3>2, JoinedInOrder DEF Got
  <2>3. Got \o taken \in Seq(Nat)
    BY <1>3, <1>7, Concatenated
  <2> QED  BY <1>1, <2>2, <2>3, ConcatenatedEmpty DEF Got
<1>10. /\ Gapless(Got \o taken)
       /\ taken = <<>> => LastByte(Got \o taken) = LastByte(Got)
       /\ taken # <<>> => LastByte(Got \o taken) = n + Len(taken)
  <2>1. Gapless(Got)
    BY DEF StreamInv, ReaderInv
  <2>2. /\ Got \in Seq(Nat) /\ taken \in Seq(Nat) /\ n \in Nat /\ n <= LastByte(Got)
        /\ \A j \in 1..Len(taken) : taken[j] = n + j
    BY <1>2, <1>3, <1>7, <1>8
  <2> HIDE DEF n
  <2> QED  BY <2>1, <2>2, GaplessGrows
<1>11. EndOf(k) + m <= LastByte(Got \o taken)
  <2> HIDE DEF k
  <2>0. EndOf(k) \in Nat /\ offset \in Nat /\ m \in Nat /\ LastByte(Got) \in Nat
        /\ n <= LastByte(Got) /\ n = EndOf(k) + offset
    BY <1>2, <1>3, <1>5
  <2> HIDE DEF m, n
  <2>1. CASE m = 0
    <3>1. taken = <<>>
      BY <1>7, <2>1
    <3>2. LastByte(Got \o taken) = LastByte(Got)
      BY <1>10, <3>1
    <3> QED  BY <2>0, <2>1, <3>2
  <2>2. CASE m # 0
    <3>1. taken # <<>>
      BY <1>7, <2>0, <2>2
    <3>2. LastByte(Got \o taken) = n + m
      BY <1>7, <1>10, <3>1
    <3> QED  BY <2>0, <3>2
  <2> QED  BY <2>1, <2>2
<1>12. EndOf(readerIndex)' = EndOf(k) /\ stored' = stored /\ writing' = writing
  <2>1. /\ \A i : EndOf(i)' = EndOf(i)
        /\ stored' = stored /\ writing' = writing
    BY <1>1, FrameKeeps
  <2> QED  BY <1>1, <2>1 DEF EndOf
<1>13. LastByte(Got)' = LastByte(Got \o taken) /\ Gapless(Got)'
  BY <1>9, <1>10 DEF LastByte, Gapless
<1>14. ReaderInv'
  <2>1. reads' # 0
    BY <1>1, <1>2
  <2>2. EndOf(readerIndex)' + offset' <= LastByte(Got)'
    BY <1>6, <1>11, <1>12, <1>13
  <2>3. size' # All => Len(buffer') <= size'
    BY <1>1, <1>3
  <2> QED  BY <1>1, <1>2, <1>12, <1>13, <2>1, <2>2, <2>3 DEF ReaderInv
<1>15. ReaderType'
  <2>1. <<>> \in Seq(Nat)
    OBVIOUS
  <2>2. ReaderType
    BY TypeParts DEF StreamInv
  <2>3. offset' \in {0} \cup Streams!BytesStored
    <3>1. CASE m = 0
      BY <1>6, <3>1
    <3>2. CASE m # 0
      <4>1. k + 1 \in DOMAIN stored /\ answer = stored[k + 1]
        <5>1. k < Len(stored) /\ answer = Streams!Chunk(k) /\ stored \in Seq(Seq(Nat))
          BY <1>1, AnsweredFacts, ReaderTypes DEF StreamInv, ReaderInv
        <5> QED  BY <1>2, <5>1 DEF Streams!Chunk
      <4>2. EndOf(Len(stored)) \in Nat /\ EndOf(k) + Len(answer) \in Streams!BytesStored
        <5>1. Len(answer) \in DOMAIN answer
          BY <1>1, <1>3
        <5>2. answer[Len(answer)] = EndOf(k) + Len(answer)
          <6>1. EndOf(k + 1) = answer[Len(answer)] /\ k + 1 = readerIndex
            BY <1>1, <1>2, <4>1, ReaderTypes DEF EndOf, LastByte
          <6> QED  BY <1>2, <6>1
        <5>3. answer[Len(answer)] \in Streams!BytesStored
          BY <4>1, <5>1 DEF Streams!BytesStored, Streams!ToSet
        <5>4. Len(stored) \in Nat /\ Len(stored) <= Len(stored) /\ stored \in Seq(Seq(Nat))
          BY ReaderTypes
        <5> QED  BY <5>2, <5>3, <5>4, EndIsByte
      <4>3. Streams!BytesStored = 1..EndOf(Len(stored))
        BY DEF StreamInv, TableInv
      <4> DEFINE last == EndOf(Len(stored))
      <4> HIDE DEF k, last
      <4>4. m \in 1..last
        <5>1. last \in Nat /\ EndOf(k) + Len(answer) <= last
          BY <4>2, <4>3 DEF last
        <5>2. /\ EndOf(k) \in Nat /\ Len(answer) \in Nat /\ offset \in Nat
              /\ m \in Nat /\ m < Len(answer) - offset
          BY <1>2, <1>3, <1>5
        <5> HIDE DEF m
        <5> QED  BY <3>2, <5>1, <5>2
      <4> QED  BY <1>1, <1>6, <4>3, <4>4, FrameKeeps DEF last
    <3> QED  BY <3>1, <3>2
  <2>4. delivered' \in Seq(Nat)
    <3>1. Streams!Joined \in Seq(Nat)
      BY <1>1, AnsweredFacts
    <3>2. SubSeq(Streams!Joined, 1, size) \in Seq(Nat)
      <4>1. size \in Nat /\ size <= Len(Streams!Joined)
        BY <1>2, <1>3, <1>4
      <4> QED  BY <3>1, <4>1, FirstBytes
    <3> QED  BY <1>1, <1>3, <3>2, Concatenated
  <2>5. readerIndex' \in Nat
    BY <1>1, <1>2
  <2> QED  BY <1>1, <2>1, <2>2, <2>3, <2>4, <2>5, FrameKeeps DEF ReaderType
<1> QED  BY <1>1, <1>14, <1>15, FrameKeeps, TypeParts DEF StreamInv

LEMMA StutterKeeps ==
    ASSUME StreamInv, UNCHANGED streamVars
    PROVE  StreamInv'
<1>1. Frame /\ UNCHANGED Streams!readerVars
  BY DEF Frame, streamVars, Streams!tableVars, Streams!writerVars, Streams!scriptVars,
         Streams!readerVars
<1>2. ReaderType' /\ ReaderInv'
  BY <1>1, TypeParts
     DEF StreamInv, ReaderType, ReaderInv, EndOf, Got, Gapless, Frame, Streams!Chunk,
         Streams!BytesStored, Streams!readerVars, Streams!tableVars, Streams!writerVars
<1> QED  BY <1>1, <1>2, FrameKeeps, TypeParts DEF StreamInv

-----------------------------------------------------------------------------
LEMMA StreamNext == StreamInv /\ [DataNext]_allVars => StreamInv'
<1> SUFFICES ASSUME StreamInv, [DataNext]_allVars  PROVE StreamInv'
  OBVIOUS
<1>1. CASE UNCHANGED streamVars
  BY <1>1, StutterKeeps
<1>2. CASE Streams!Next
  <2>1. CASE Streams!Terminated
    <3>1. UNCHANGED streamVars
      BY <2>1 DEF Streams!Terminated, Streams!vars, Streams!tableVars, Streams!writerVars,
                  Streams!scriptVars, Streams!readerVars, streamVars
    <3> QED  BY <3>1, StutterKeeps
  <2> QED  BY <1>2, <2>1, WriteKeeps, PutKeeps, ScriptReadKeeps, CallKeeps, ServeKeeps,
              ResumeAtEndKeeps, ResumeEnoughKeeps, ResumeMoreKeeps
           DEF Streams!Next, Streams!Reader
<1> QED  BY <1>1, <1>2 DEF DataNext, allVars

\* What a stream promises follows: its Puts are in the order of
\* BufferStream::write, and no reader of it leaves out a byte.
LEMMA StreamInvSound == StreamInv => StreamIsSound
<1> SUFFICES ASSUME StreamInv  PROVE StreamIsSound
  OBVIOUS
<1>1. TableType /\ WriterType /\ ReaderType /\ Streams!TypeOK
  BY TypeParts DEF StreamInv
<1>2. Streams!LengthIsBacked
  <2>1. chunks <= Len(stored) /\ length <= EndOf(Len(stored))
    BY <1>1 DEF StreamInv, WriterInv, TableType, WriterType
  <2>2. Len(stored) \in Nat /\ stored \in Seq(Seq(Nat)) /\ length \in Nat
    BY <1>1 DEF TableType
  <2>3. EndOf(Len(stored)) \in Nat
    <3>1. Len(stored) <= Len(stored)
      BY <2>2
    <3> QED  BY <2>2, <3>1, EndIsByte
  <2>4. Streams!BytesStored = 1..EndOf(Len(stored))
    BY DEF StreamInv, TableInv
  <2> QED  BY <2>1, <2>2, <2>3, <2>4 DEF Streams!LengthIsBacked
<1>3. Streams!ScriptReadsInOrder
  BY DEF StreamInv, ScriptInv, Streams!ScriptReadsInOrder
<1>4. Streams!NothingSkipped
  <2> SUFFICES ASSUME NEW i \in DOMAIN delivered
               PROVE  delivered[i] <= 1 + (IF i = 1 THEN 0 ELSE delivered[i - 1])
    BY DEF Streams!NothingSkipped
  <2>1. delivered \in Seq(Nat) /\ buffer \in Seq(Nat)
    BY <1>1 DEF ReaderType
  <2>2. /\ Got \in Seq(Nat) /\ Len(Got) = Len(delivered) + Len(buffer)
        /\ \A j \in 1..Len(delivered) : Got[j] = delivered[j]
    BY <2>1, Concatenated DEF Got
  <2>3. i \in 1..Len(delivered) /\ i \in DOMAIN Got /\ (i # 1 => i - 1 \in 1..Len(delivered))
    BY <2>1, <2>2
  <2>4. Got[i] <= 1 + (IF i = 1 THEN 0 ELSE Got[i - 1])
    BY <2>3 DEF StreamInv, ReaderInv, Gapless
  <2> QED  BY <2>2, <2>3, <2>4
<1> QED  BY <1>1, <1>2, <1>3, <1>4 DEF StreamIsSound

\* However the bytes were cut into chunks and whatever is asked for: what
\* ".chunks" and ".length" promise is stored, a script reads each byte once
\* and in order, and stream.es leaves none out.
THEOREM StreamsSound == DataSpec => []StreamIsSound
<1>1. DataInit => StreamInv
  BY StreamInit DEF DataInit
<1> QED  BY <1>1, StreamNext, StreamInvSound, PTL DEF DataSpec

-----------------------------------------------------------------------------
(* Byte buffers.                                                           *)

\* The array stays as short as it may be.
BytesInv == Payloads!TypeOK /\ Payloads!StaysInside /\ Len(vec) <= MaxLen

LEMMA BufferBounds ==
    /\ Digits \in Nat /\ Digits > 0 /\ Digits % 2 = 0
    /\ MaxLen \in Nat /\ MaxLen > 0 /\ Word \in Nat /\ Word >= 3 * MaxLen + 4
BY DataAssumption DEF Payloads!BoundsAssumption

LEMMA InsideFacts ==
    ASSUME BytesInv
    PROVE  /\ vec \in Seq(Payloads!Bytes) /\ Len(vec) \in Nat /\ Len(vec) <= MaxLen
           /\ start \in Nat /\ end \in Nat /\ start <= end /\ end <= Len(vec)
           /\ Payloads!length = end - start
<1>1. /\ vec \in Seq(Payloads!Bytes) /\ Len(vec) \in Nat /\ Len(vec) <= MaxLen
      /\ start \in Nat /\ end \in Nat /\ start <= end /\ end <= Len(vec)
  BY BufferBounds DEF BytesInv, Payloads!TypeOK, Payloads!StaysInside, Payloads!Sizes
<1> QED  BY <1>1 DEF Payloads!length, Payloads!Minus

\* A stretch of an array.
LEMMA StretchIs ==
    ASSUME NEW S, NEW s \in Seq(S), NEW a \in Nat, NEW b \in Nat, a <= b, b <= Len(s),
           NEW t, t = SubSeq(s, a + 1, b)
    PROVE  /\ t \in Seq(S) /\ Len(t) = b - a
           /\ \A i \in 1..(b - a) : t[i] = s[a + i]
<1>1. t = [i \in 1..(b - a) |-> s[a + i]]
  OBVIOUS
<1>2. \A i \in 1..(b - a) : s[a + i] \in S
  OBVIOUS
<1>3. b - a \in Nat
  OBVIOUS
<1> QED  BY <1>1, <1>2, <1>3

LEMMA DataIs ==
    ASSUME BytesInv
    PROVE  /\ Payloads!data \in Seq(Payloads!Bytes) /\ Len(Payloads!data) = end - start
           /\ \A i \in 1..(end - start) : Payloads!data[i] = vec[start + i]
BY InsideFacts, StretchIs DEF Payloads!data

\* Equal lengths and equal bytes make equal sequences.
LEMMA SameSequence ==
    ASSUME NEW S, NEW s \in Seq(S), NEW t \in Seq(S), Len(s) = Len(t),
           \A i \in 1..Len(s) : s[i] = t[i]
    PROVE  s = t
<1>1. s = [i \in 1..Len(s) |-> s[i]] /\ t = [i \in 1..Len(t) |-> t[i]]
  OBVIOUS
<1> QED  BY <1>1

\* An array of its own from the bytes of the buffer.
LEMMA OwnArray ==
    ASSUME BytesInv, vec' = Payloads!data, start' = 0, end' = Payloads!length,
           kind' \in Payloads!Kinds
    PROVE  BytesInv' /\ Payloads!data' = Payloads!data
<1>1. /\ Payloads!data \in Seq(Payloads!Bytes) /\ Len(Payloads!data) = end - start
      /\ end' = end - start /\ end - start \in Nat /\ end - start <= MaxLen
  <2>1. /\ start \in Nat /\ end \in Nat /\ start <= end /\ end <= MaxLen
        /\ Payloads!length = end - start
    BY InsideFacts, BufferBounds
  <2>2. end - start \in Nat /\ end - start <= MaxLen
    BY <2>1, BufferBounds
  <2>3. /\ Payloads!data \in Seq(Payloads!Bytes) /\ Len(Payloads!data) = end - start
    BY DataIs
  <2>4. end' = end - start
    BY <2>1
  <2> QED  BY <2>2, <2>3, <2>4
<1>2. end' \in Payloads!Sizes /\ 0 \in Payloads!Sizes
  BY <1>1, BufferBounds DEF Payloads!Sizes
<1>3. BytesInv'
  BY <1>1, <1>2 DEF BytesInv, Payloads!TypeOK, Payloads!StaysInside
<1>4. /\ Payloads!data' \in Seq(Payloads!Bytes) /\ Len(Payloads!data') = end - start
      /\ \A i \in 1..(end - start) : Payloads!data'[i] = Payloads!data[i]
  <2> DEFINE whole == Payloads!data
  <2>1. Payloads!data' = SubSeq(whole, 0 + 1, end - start)
    BY <1>1 DEF Payloads!data
  <2>2. whole \in Seq(Payloads!Bytes) /\ end - start <= Len(whole)
    BY <1>1
  <2> HIDE DEF whole
  <2>3. /\ Payloads!data' \in Seq(Payloads!Bytes) /\ Len(Payloads!data') = (end - start) - 0
        /\ \A i \in 1..((end - start) - 0) : Payloads!data'[i] = whole[0 + i]
    BY <1>1, <2>1, <2>2, StretchIs
  <2> QED  BY <1>1, <2>3 DEF whole
<1>5. Payloads!data' = Payloads!data
  BY <1>1, <1>4, SameSequence
<1> QED  BY <1>3, <1>5

LEMMA SliceKeeps ==
    ASSUME BytesInv, Payloads!Slice
    PROVE  BytesInv'
<1>1. PICK s \in Payloads!Sizes, e \in Payloads!Sizes :
         Payloads!SliceTo(s, e) /\ kind' = kind /\ vec' = vec
  BY DEF Payloads!Slice
<1>2. /\ start \in Nat /\ end \in Nat /\ start <= end /\ end <= Len(vec) /\ Len(vec) <= MaxLen
      /\ Payloads!length = end - start /\ Len(vec) \in Nat
  BY InsideFacts
<1>3. s \in Nat /\ e \in Nat /\ s < Word /\ e < Word
  BY BufferBounds DEF Payloads!Sizes
<1> DEFINE upto == Payloads!Lesser(e, end - start)
           from == Payloads!Plus(start, s)
           far  == Payloads!Lesser(Payloads!Greater(s, upto), end - start)
<1>4. start' = Payloads!Lesser(from, end) /\ end' = Payloads!Plus(start, far)
  BY <1>1, <1>2 DEF Payloads!SliceTo, Payloads!sliceRange
<1>5. upto \in Nat /\ upto <= end - start
  BY <1>2, <1>3 DEF Payloads!Lesser
<1>6. from \in Nat /\ (from = start + s \/ from < start)
  BY <1>2, <1>3, BufferBounds DEF Payloads!Plus
<1> HIDE DEF upto, from
<1>7. far \in Nat /\ far <= end - start /\ (s <= far \/ far = end - start)
  BY <1>2, <1>3, <1>5 DEF Payloads!Lesser, Payloads!Greater
<1> HIDE DEF far
<1>8. end' = start + far
  BY <1>2, <1>4, <1>7, BufferBounds DEF Payloads!Plus
<1>9. start' \in Nat /\ start' <= end' /\ end' \in Nat /\ end' <= Len(vec)
  BY <1>2, <1>3, <1>4, <1>6, <1>7, <1>8 DEF Payloads!Lesser
<1>10. start' \in Payloads!Sizes /\ end' \in Payloads!Sizes
  BY <1>2, <1>9, BufferBounds DEF Payloads!Sizes
<1> QED  BY <1>1, <1>2, <1>9, <1>10 DEF BytesInv, Payloads!TypeOK, Payloads!StaysInside

\* Arithmetic of digits and of bytes.
LEMMA ProductGrows ==
    ASSUME NEW a \in Nat, NEW b \in Nat, NEW m \in Nat, a <= b
    PROVE  a * m \in Nat /\ b * m \in Nat /\ a * m <= b * m
OBVIOUS

LEMMA PlaceValue ==
    ASSUME NEW m \in Nat, NEW r \in Nat, NEW n \in Nat, NEW d \in Nat, n < m, d < r
    PROVE  n * r + d \in Nat /\ n * r + d < m * r
<1>1. n * r \in Nat /\ m * r \in Nat /\ (m - 1) * r = m * r - r
  OBVIOUS
<1>2. m - 1 \in Nat /\ n <= m - 1
  OBVIOUS
<1>3. n * r <= (m - 1) * r
  BY <1>2, ProductGrows
<1> QED  BY <1>1, <1>3

LEMMA BaseIs ==
    /\ Payloads!Base \in Nat /\ Payloads!Base > 0 /\ Payloads!Base >= Digits
    /\ Payloads!Base = Digits * Digits
<1>1. Payloads!Base = Digits * Digits /\ Digits \in Nat /\ Digits >= 1
  BY BufferBounds DEF Payloads!Base
<1>2. Digits * Digits \in Nat /\ 1 * Digits <= Digits * Digits /\ 1 * Digits = Digits
  BY <1>1, ProductGrows
<1> QED  BY <1>1, <1>2

LEMMA PairOfDigits ==
    ASSUME NEW c \in Nat, NEW d \in Nat
    PROVE  Payloads!Pair(c, d) = c * Digits + d
BY DEF Payloads!Pair, Payloads!Sign, Payloads!Blank

LEMMA PairIsByte ==
    ASSUME NEW c \in Payloads!Chars, NEW d \in Payloads!Chars
    PROVE  Payloads!Pair(c, d) \in Payloads!Bytes \cup {-1}
<1> DEFINE byte == Payloads!Pair(c, d)
<1>1. /\ c \in Int /\ d \in Int /\ c < Digits /\ d < Digits /\ Digits \in Nat
      /\ Digits <= Payloads!Base /\ Payloads!Base \in Nat /\ Payloads!Base > 0
  BY BufferBounds, BaseIs DEF Payloads!Chars, Payloads!Sign, Payloads!Blank, Payloads!Junk
<1>2. Payloads!Bytes = 0..(Payloads!Base - 1)
  BY DEF Payloads!Bytes
<1>3. CASE c >= 0 /\ d >= 0
  <2>1. byte = c * Digits + d
    BY <1>1, <1>3, PairOfDigits
  <2>2. c * Digits + d \in Nat /\ c * Digits + d < Digits * Digits
    BY <1>1, <1>3, PlaceValue
  <2> QED  BY <1>1, <1>2, <2>1, <2>2, BaseIs
<1>4. CASE c >= 0 /\ d < 0
  <2>1. byte = c
    BY <1>1, <1>4 DEF Payloads!Pair, Payloads!Sign, Payloads!Blank
  <2> QED  BY <1>1, <1>2, <1>4, <2>1
<1>5. CASE c < 0
  <2>1. \/ byte = (-d) % Payloads!Base
        \/ byte = d /\ d >= 0
        \/ byte = -1
    BY <1>1, <1>5 DEF Payloads!Pair, Payloads!Sign, Payloads!Blank
  <2>2. (-d) % Payloads!Base \in 0..(Payloads!Base - 1)
    BY <1>1
  <2> QED  BY <1>1, <1>2, <2>1, <2>2
<1> QED  BY <1>1, <1>3, <1>4, <1>5

\* The two digits of a byte.
LEMMA DigitsOf ==
    ASSUME NEW b \in Payloads!Bytes
    PROVE  /\ b \div Digits \in 0..(Digits - 1) /\ b % Digits \in 0..(Digits - 1)
           /\ Payloads!Pair(b \div Digits, b % Digits) = b
<1>1. b \in Nat /\ b < Digits * Digits /\ Digits \in Nat /\ Digits > 0
  BY BufferBounds, BaseIs DEF Payloads!Bytes
<1>2. /\ b \div Digits \in Nat /\ b % Digits \in 0..(Digits - 1)
      /\ b = Digits * (b \div Digits) + (b % Digits)
  <2>1. b % Digits \in 0..(Digits - 1)
    BY <1>1
  <2>2. b \div Digits \in Int
    BY <1>1
  <2>3. b = Digits * (b \div Digits) + (b % Digits)
    BY <1>1
  <2>4. b \div Digits >= 0
    BY <1>1
  <2> QED  BY <2>1, <2>2, <2>3, <2>4
<1> DEFINE q == b \div Digits
           r == b % Digits
<1>3. q < Digits
  <2> SUFFICES ASSUME q >= Digits  PROVE FALSE
    BY <1>1, <1>2
  <2>1. Digits * Digits <= q * Digits
    BY <1>1, <1>2, ProductGrows
  <2> HIDE DEF q, r
  <2>2. /\ q \in Nat /\ r \in Nat /\ b = Digits * q + r
        /\ Digits * q = q * Digits /\ q * Digits \in Nat
    BY <1>1, <1>2 DEF q, r
  <2> QED  BY <1>1, <2>1, <2>2
<1>4. q \in Nat /\ r \in Nat /\ b = q * Digits + r
  BY <1>1, <1>2
<1> HIDE DEF q, r
<1>5. Payloads!Pair(q, r) = q * Digits + r
  BY <1>4, PairOfDigits
<1>6. q \in 0..(Digits - 1)
  BY <1>1, <1>3, <1>4
<1> QED  BY <1>2, <1>4, <1>5, <1>6 DEF q, r

\* A hex string has two digits for each byte, and gives the bytes back.
LEMMA HexIs ==
    ASSUME NEW bytes \in Seq(Payloads!Bytes)
    PROVE  /\ Payloads!ToHex(bytes) \in Seq(Payloads!Chars)
           /\ Len(Payloads!ToHex(bytes)) = 2 * Len(bytes)
           /\ \A k \in 1..Len(bytes) :
                 Payloads!Pair(Payloads!ToHex(bytes)[2 * k - 1], Payloads!ToHex(bytes)[2 * k]) = bytes[k]
<1> DEFINE hex == Payloads!ToHex(bytes)
           m == Len(bytes)
<1>1. m \in Nat /\ \A k \in 1..m : bytes[k] \in Payloads!Bytes
  OBVIOUS
<1>2. hex = [i \in 1..(2 * m) |->
               IF i % 2 = 1 THEN bytes[(i + 1) \div 2] \div Digits ELSE bytes[i \div 2] % Digits]
  BY DEF Payloads!ToHex
<1> HIDE DEF hex, m
<1>3. \A i \in 1..(2 * m) :
         IF i % 2 = 1 THEN (i + 1) \div 2 \in 1..m ELSE i \div 2 \in 1..m
  BY <1>1
<1>4. \A i \in 1..(2 * m) : hex[i] \in 0..(Digits - 1)
  <2> SUFFICES ASSUME NEW i \in 1..(2 * m)  PROVE hex[i] \in 0..(Digits - 1)
    OBVIOUS
  <2>1. CASE i % 2 = 1
    <3>1. hex[i] = bytes[(i + 1) \div 2] \div Digits /\ (i + 1) \div 2 \in 1..m
      BY <1>2, <1>3, <2>1
    <3> QED  BY <1>1, <3>1, DigitsOf
  <2>2. CASE i % 2 # 1
    <3>1. hex[i] = bytes[i \div 2] % Digits /\ i \div 2 \in 1..m
      BY <1>2, <1>3, <2>2
    <3> QED  BY <1>1, <3>1, DigitsOf
  <2> QED  BY <2>1, <2>2
<1>5. \A i \in 1..(2 * m) : hex[i] \in Payloads!Chars
  BY <1>4 DEF Payloads!Chars
<1>6. hex \in Seq(Payloads!Chars) /\ Len(hex) = 2 * m
  <2>1. 2 * m \in Nat /\ hex = [i \in 1..(2 * m) |-> hex[i]]
    BY <1>1, <1>2
  <2> QED  BY <1>5, <2>1
<1>7. ASSUME NEW k \in 1..m
      PROVE  Payloads!Pair(hex[2 * k - 1], hex[2 * k]) = bytes[k]
  <2>1. /\ 2 * k - 1 \in 1..(2 * m) /\ (2 * k - 1) % 2 = 1 /\ (2 * k - 1 + 1) \div 2 = k
        /\ 2 * k \in 1..(2 * m) /\ (2 * k) % 2 = 0 /\ (2 * k) \div 2 = k
    BY <1>1
  <2>2. hex[2 * k - 1] = bytes[k] \div Digits /\ hex[2 * k] = bytes[k] % Digits
    BY <1>2, <2>1
  <2> QED  BY <1>1, <2>2, DigitsOf
<1> QED  BY <1>6, <1>7 DEF hex, m

LEMMA BoundedIs ==
    ASSUME NEW S, NEW m \in Nat, NEW s \in Payloads!BoundedSeq(S, m)
    PROVE  s \in Seq(S) /\ Len(s) <= m
<1>1. PICK k \in 0..m : s \in [1..k -> S]
  BY DEF Payloads!BoundedSeq, Payloads!SeqOf
<1>2. k \in Nat /\ k <= m
  OBVIOUS
<1> QED  BY <1>1, <1>2

LEMMA FromHexKeeps ==
    ASSUME BytesInv, Payloads!NewFromHex
    PROVE  BytesInv'
<1>1. PICK str \in Payloads!BoundedSeq(Payloads!Chars, 2) \cup {Payloads!ToHex(Payloads!data)} :
         /\ ~Payloads!Rejected(str)
         /\ kind' = "Buffer" /\ vec' = Payloads!FromHex(str)
         /\ start' = 0 /\ end' = Len(str) \div 2
  BY DEF Payloads!NewFromHex
<1>2. MaxLen \in Nat /\ MaxLen >= 1
  BY BufferBounds
<1>3. str \in Seq(Payloads!Chars) /\ (Len(str) <= 2 \/ Len(str) <= 2 * MaxLen)
  <2>1. CASE str \in Payloads!BoundedSeq(Payloads!Chars, 2)
    <3>1. 2 \in Nat
      OBVIOUS
    <3> QED  BY <2>1, <3>1, BoundedIs
  <2>2. CASE str = Payloads!ToHex(Payloads!data)
    <3>1. Payloads!data \in Seq(Payloads!Bytes) /\ Len(Payloads!data) <= MaxLen
      <4>1. /\ start \in Nat /\ end \in Nat /\ start <= end /\ end <= Len(vec)
            /\ Len(vec) \in Nat /\ Len(vec) <= MaxLen
        BY InsideFacts
      <4>2. end - start <= MaxLen
        BY <1>2, <4>1
      <4> QED  BY <4>2, DataIs
    <3>2. Len(Payloads!data) \in Nat
      BY <3>1
    <3>3. str \in Seq(Payloads!Chars) /\ Len(str) = 2 * Len(Payloads!data)
      BY <2>2, <3>1, HexIs
    <3> QED  BY <1>2, <3>1, <3>2, <3>3
  <2> QED  BY <2>1, <2>2
<1> DEFINE m == Len(str) \div 2
<1>4. /\ Len(str) \in Nat /\ m \in Nat /\ m <= MaxLen
      /\ \A i \in 1..m : 2 * i - 1 \in 1..Len(str) /\ 2 * i \in 1..Len(str)
  <2>1. Len(str) \in Nat
    BY <1>3
  <2> QED  BY <1>2, <1>3, <2>1
<1>5. vec' = [i \in 1..m |-> Payloads!Pair(str[2 * i - 1], str[2 * i])]
  BY <1>1 DEF Payloads!FromHex
<1>6. \A i \in 1..m : vec'[i] # -1
  BY <1>1 DEF Payloads!Rejected
<1> HIDE DEF m
<1>7. ASSUME NEW i \in 1..m
      PROVE  Payloads!Pair(str[2 * i - 1], str[2 * i]) \in Payloads!Bytes
  <2>1. str[2 * i - 1] \in Payloads!Chars /\ str[2 * i] \in Payloads!Chars
    BY <1>3, <1>4
  <2>2. Payloads!Pair(str[2 * i - 1], str[2 * i]) \in Payloads!Bytes \cup {-1}
    BY <2>1, PairIsByte
  <2> QED  BY <1>5, <1>6, <2>2
<1>8. vec' \in Seq(Payloads!Bytes) /\ Len(vec') = m
  BY <1>4, <1>5, <1>7
<1>9. start' = 0 /\ end' = m /\ 0 \in Payloads!Sizes /\ m \in Payloads!Sizes
  <2>1. start' = 0 /\ end' = m
    BY <1>1 DEF m
  <2>2. 0 \in Payloads!Sizes /\ m \in Payloads!Sizes
    BY <1>4, BufferBounds DEF Payloads!Sizes
  <2> QED  BY <2>1, <2>2
<1>10. kind' \in Payloads!Kinds
  BY <1>1 DEF Payloads!Kinds
<1> QED  BY <1>4, <1>8, <1>9, <1>10 DEF BytesInv, Payloads!TypeOK, Payloads!StaysInside

LEMMA CrossKeeps ==
    ASSUME BytesInv, Payloads!Cross \/ Payloads!Copy
    PROVE  BytesInv' /\ Payloads!data' = Payloads!data
<1>1. CASE UNCHANGED <<kind, vec, start, end>>
  BY <1>1 DEF BytesInv, Payloads!TypeOK, Payloads!StaysInside, Payloads!data
<1>2. CASE /\ vec' = Payloads!data /\ start' = 0 /\ end' = Payloads!length
           /\ kind' \in Payloads!Kinds
  BY <1>2, OwnArray
<1>3. kind \in Payloads!Kinds
  BY DEF BytesInv, Payloads!TypeOK
<1> QED  BY <1>1, <1>2, <1>3 DEF Payloads!Cross, Payloads!Copy, Payloads!vars

LEMMA BytesInit == DataInit => BytesInv
<1> SUFFICES ASSUME DataInit  PROVE BytesInv
  OBVIOUS
<1>1. MaxLen \in Nat /\ Word \in Nat /\ Word > MaxLen
  BY BufferBounds
<1>2. /\ kind \in Payloads!Kinds /\ start = 0 /\ end = Len(vec)
      /\ vec \in Payloads!BoundedSeq(Payloads!Bytes, MaxLen)
  BY DEF DataInit, Payloads!Init
<1>3. vec \in Seq(Payloads!Bytes) /\ Len(vec) <= MaxLen
  BY <1>1, <1>2, BoundedIs
<1>4. Len(vec) \in Nat
  BY <1>3
<1>5. 0 \in Payloads!Sizes /\ Len(vec) \in Payloads!Sizes
  BY <1>1, <1>3, <1>4 DEF Payloads!Sizes
<1> QED  BY <1>2, <1>3, <1>4, <1>5 DEF BytesInv, Payloads!TypeOK, Payloads!StaysInside

LEMMA BytesNext ==
    BytesInv /\ [DataNext]_allVars
      => BytesInv' /\ [Payloads!Cross \/ Payloads!Copy => Payloads!data' = Payloads!data]_payloadVars
<1> SUFFICES ASSUME BytesInv, [DataNext]_allVars
             PROVE  /\ BytesInv'
                    /\ \/ Payloads!Cross \/ Payloads!Copy => Payloads!data' = Payloads!data
                       \/ UNCHANGED payloadVars
  OBVIOUS
<1>1. Payloads!Next \/ UNCHANGED payloadVars
  BY DEF DataNext, allVars
<1>2. CASE UNCHANGED payloadVars
  BY <1>2 DEF payloadVars, BytesInv, Payloads!TypeOK, Payloads!StaysInside
<1>3. Payloads!Cross \/ Payloads!Copy => BytesInv' /\ Payloads!data' = Payloads!data
  BY CrossKeeps
<1>4. CASE Payloads!Slice
  BY <1>3, <1>4, SliceKeeps
<1>5. CASE Payloads!NewFromHex
  BY <1>3, <1>5, FromHexKeeps
<1> QED  BY <1>1, <1>2, <1>3, <1>4, <1>5 DEF Payloads!Next

\* A stretch of a stretch.
LEMMA StretchOfStretch ==
    ASSUME NEW S, NEW s \in Seq(S), NEW a \in Nat, NEW b \in Nat, a <= b, b <= Len(s),
           NEW c \in Nat, NEW d \in Nat, c <= d, d <= b - a
    PROVE  /\ SubSeq(SubSeq(s, a + 1, b), c + 1, d) = SubSeq(s, a + c + 1, a + d)
           /\ SubSeq(s, a + c + 1, a + d) \in Seq(S)
           /\ Len(SubSeq(s, a + c + 1, a + d)) = d - c
           /\ \A i \in 1..(d - c) : SubSeq(s, a + c + 1, a + d)[i] = s[a + c + i]
<1> DEFINE whole == SubSeq(s, a + 1, b)
           piece == SubSeq(whole, c + 1, d)
           same == SubSeq(s, a + c + 1, a + d)
<1>1. whole \in Seq(S) /\ Len(whole) = b - a /\ \A i \in 1..(b - a) : whole[i] = s[a + i]
  BY StretchIs
<1> HIDE DEF whole
<1>2. /\ piece \in Seq(S) /\ Len(piece) = d - c
      /\ \A i \in 1..(d - c) : piece[i] = whole[c + i]
  BY <1>1, StretchIs
<1>3. /\ same \in Seq(S) /\ Len(same) = (a + d) - (a + c)
      /\ \A i \in 1..((a + d) - (a + c)) : same[i] = s[a + c + i]
  <2>1. a + c \in Nat /\ a + d \in Nat /\ a + c <= a + d /\ a + d <= Len(s)
    BY <1>1
  <2>2. /\ SubSeq(s, (a + c) + 1, a + d) \in Seq(S)
        /\ Len(SubSeq(s, (a + c) + 1, a + d)) = (a + d) - (a + c)
        /\ \A i \in 1..((a + d) - (a + c)) : SubSeq(s, (a + c) + 1, a + d)[i] = s[(a + c) + i]
    BY <2>1, StretchIs
  <2> QED  BY <2>2
<1> HIDE DEF piece, same
<1>4. /\ same \in Seq(S) /\ Len(same) = d - c
      /\ \A i \in 1..(d - c) : same[i] = s[a + c + i]
  BY <1>3
<1>5. \A i \in 1..(d - c) : piece[i] = same[i]
  <2> SUFFICES ASSUME NEW i \in 1..(d - c)  PROVE piece[i] = same[i]
    OBVIOUS
  <2>1. c + i \in 1..(b - a) /\ a + (c + i) = a + c + i
    OBVIOUS
  <2>2. piece[i] = whole[c + i] /\ whole[c + i] = s[a + (c + i)]
    BY <1>1, <1>2, <2>1
  <2> QED  BY <1>4, <2>1, <2>2
<1>6. piece = same
  BY <1>2, <1>4, <1>5, SameSequence
<1> QED  BY <1>4, <1>6 DEF whole, piece, same

LEMMA NoStretch ==
    ASSUME NEW s, NEW a \in Int, NEW b \in Int, a > b
    PROVE  SubSeq(s, a, b) = <<>>
OBVIOUS

LEMMA SlicesRight ==
    ASSUME BytesInv
    PROVE  Payloads!SliceIsSubsequence
<1> SUFFICES ASSUME NEW s \in 0..(2 * MaxLen), NEW e \in 0..(2 * MaxLen)
             PROVE  LET pair == Payloads!sliceRange(s, Payloads!Lesser(e, Payloads!length))
                    IN  SubSeq(vec, pair[1] + 1, pair[2])
                          = SubSeq(Payloads!data, s + 1, Payloads!Lesser(e, Payloads!length))
  BY DEF Payloads!SliceIsSubsequence
<1>1. /\ vec \in Seq(Payloads!Bytes) /\ Len(vec) \in Nat /\ Len(vec) <= MaxLen
      /\ start \in Nat /\ end \in Nat /\ start <= end /\ end <= Len(vec)
      /\ Payloads!length = end - start
  BY InsideFacts
<1>2. /\ s \in Nat /\ e \in Nat /\ s <= 2 * MaxLen /\ MaxLen \in Nat /\ Word \in Nat
      /\ start + s < Word /\ Word > MaxLen
  BY <1>1, BufferBounds
<1> DEFINE upto == Payloads!Lesser(e, end - start)
           far  == Payloads!Lesser(Payloads!Greater(s, upto), end - start)
           low  == Payloads!Lesser(Payloads!Plus(start, s), end)
           high == Payloads!Plus(start, far)
<1>3. upto \in Nat /\ upto <= end - start
  BY <1>1, <1>2 DEF Payloads!Lesser
<1>4. Payloads!Plus(start, s) = start + s
  BY <1>1, <1>2 DEF Payloads!Plus
<1>5. low = IF start + s <= end THEN start + s ELSE end
  BY <1>4 DEF Payloads!Lesser
<1> HIDE DEF upto
<1>6. far \in Nat /\ far <= end - start
  BY <1>1, <1>2, <1>3 DEF Payloads!Lesser, Payloads!Greater
<1>7. high = start + far
  BY <1>1, <1>2, <1>6 DEF Payloads!Plus
<1>8. CASE s <= upto
  <2>1. far = upto /\ low = start + s
    BY <1>1, <1>2, <1>3, <1>5, <1>8 DEF Payloads!Lesser, Payloads!Greater
  <2>2. SubSeq(Payloads!data, s + 1, upto) = SubSeq(vec, start + s + 1, start + upto)
    <3> HIDE DEF far, low, high
    <3>1. /\ vec \in Seq(Payloads!Bytes) /\ start \in Nat /\ end \in Nat /\ start <= end /\ end <= Len(vec)
          /\ s \in Nat /\ upto \in Nat /\ s <= upto /\ upto <= end - start
      BY <1>1, <1>2, <1>3, <1>8
    <3>2. /\ SubSeq(SubSeq(vec, start + 1, end), s + 1, upto) = SubSeq(vec, start + s + 1, start + upto)
          /\ SubSeq(vec, start + s + 1, start + upto) \in Seq(Payloads!Bytes)
          /\ Len(SubSeq(vec, start + s + 1, start + upto)) = upto - s
      BY <3>1, StretchOfStretch
    <3> QED  BY <3>2 DEF Payloads!data
  <2>3. SubSeq(vec, low + 1, high) = SubSeq(Payloads!data, s + 1, upto)
    BY <1>7, <2>1, <2>2
  <2> QED  BY <1>1, <2>3 DEF Payloads!sliceRange, upto
<1>9. CASE s > upto
  <2>1. SubSeq(Payloads!data, s + 1, upto) = <<>>
    <3>1. s + 1 \in Int /\ upto \in Int /\ s + 1 > upto
      BY <1>2, <1>3, <1>9
    <3> QED  BY <3>1, NoStretch
  <2>2. far = IF s <= end - start THEN s ELSE end - start
    BY <1>1, <1>2, <1>3, <1>9 DEF Payloads!Lesser, Payloads!Greater
  <2> HIDE DEF far, low, high
  <2>3. low = high /\ low \in Nat
    BY <1>1, <1>2, <1>5, <1>6, <1>7, <2>2
  <2>4. SubSeq(vec, low + 1, high) = <<>>
    <3>1. low + 1 \in Int /\ high \in Int /\ low + 1 > high
      BY <2>3
    <3> QED  BY <3>1, NoStretch
  <2>5. SubSeq(vec, low + 1, high) = SubSeq(Payloads!data, s + 1, upto)
    BY <2>1, <2>4
  <2> QED  BY <1>1, <2>5 DEF Payloads!sliceRange, upto, far, low, high
<1>10. s <= upto \/ s > upto
  BY <1>2, <1>3
<1> QED  BY <1>8, <1>9, <1>10

\* A hex string is read back.
LEMMA HexReadBack ==
    ASSUME BytesInv
    PROVE  Payloads!HexIsReadBack
<1> DEFINE bytes == Payloads!data
           hex == Payloads!ToHex(bytes)
           m == Len(bytes)
<1>1. bytes \in Seq(Payloads!Bytes)
  BY DataIs
<1> HIDE DEF bytes
<1>2. m \in Nat /\ Len(hex) = 2 * m
      /\ \A k \in 1..m : Payloads!Pair(hex[2 * k - 1], hex[2 * k]) = bytes[k]
  BY <1>1, HexIs
<1>3. bytes = [k \in 1..m |-> bytes[k]] /\ \A k \in 1..m : bytes[k] \in Payloads!Bytes
  BY <1>1
<1> HIDE DEF hex, m
<1>4. Len(hex) % 2 = 0 /\ Len(hex) \div 2 = m
  BY <1>2
<1>5. Payloads!FromHex(hex) = bytes
  BY <1>2, <1>3, <1>4 DEF Payloads!FromHex
<1>6. \A k \in 1..m : bytes[k] # -1
  BY <1>3, BaseIs DEF Payloads!Bytes
<1>7. ~Payloads!Rejected(hex)
  BY <1>4, <1>5, <1>6 DEF Payloads!Rejected
<1> QED  BY <1>5, <1>7 DEF Payloads!HexIsReadBack, hex, bytes

LEMMA TwoPlaces ==
    ASSUME NEW b \in Nat, NEW x \in Nat, NEW y \in Nat, x < b, y < b
    PROVE  x * b + y \in Nat /\ x * b + y < b * b
BY PlaceValue

LEMMA FourPlaces ==
    ASSUME NEW b \in Nat, NEW w \in Nat, NEW x \in Nat, NEW y \in Nat, NEW z \in Nat,
           w < b, x < b, y < b, z < b
    PROVE  /\ (w * b + x) * (b * b) + y * b + z \in Nat
           /\ (w * b + x) * (b * b) + y * b + z < (b * b) * (b * b)
<1> DEFINE bb == b * b
           high == w * b + x
           tens == y * b
           low == tens + z
<1>1. high \in Nat /\ high < bb
  BY TwoPlaces
<1>2. low \in Nat /\ low < bb
  BY TwoPlaces
<1>3. tens \in Nat /\ bb \in Nat
  BY ProductGrows
<1> HIDE DEF bb, high, tens, low
<1>4. high * bb \in Nat
  BY <1>1, <1>3, ProductGrows
<1>5. high * bb + low \in Nat /\ high * bb + low < bb * bb
  BY <1>1, <1>2, <1>3, PlaceValue
<1> DEFINE top == high * bb
<1>6. top \in Nat
  BY <1>4
<1>7. top + low \in Nat /\ top + low < bb * bb
  BY <1>5
<1> HIDE DEF top
<1>8. top + tens + z = top + low
  BY <1>3, <1>6 DEF low
<1> QED  BY <1>7, <1>8 DEF top, high, tens, bb

\* A number has its value in its range, and so has the signed one.
LEMMA NumberIsBelow ==
    ASSUME NEW width \in {1, 2, 4}, NEW bytes \in Seq(Payloads!Bytes), Len(bytes) = width
    PROVE  /\ Payloads!Number(bytes) \in Nat
           /\ Payloads!Number(bytes) < Payloads!Numbers(width)
<1> DEFINE b == Payloads!Base
           n == Payloads!Number(bytes)
<1>1. b \in Nat /\ b * b \in Nat
  BY BaseIs
<1>2. \A k \in 1..width : bytes[k] \in Nat /\ bytes[k] < b
  BY BaseIs DEF Payloads!Bytes
<1> HIDE DEF b
<1>3. CASE width = 1
  <2>1. n = bytes[1] /\ Payloads!Numbers(width) = b
    BY <1>3 DEF Payloads!Number, Payloads!Numbers, b
  <2> QED  BY <1>2, <1>3, <2>1
<1>4. CASE width = 2
  <2>1. n = bytes[1] * b + bytes[2] /\ Payloads!Numbers(width) = b * b
    BY <1>4 DEF Payloads!Number, Payloads!Numbers, b
  <2>2. 1 \in 1..width /\ 2 \in 1..width
    BY <1>4
  <2>3. bytes[1] \in Nat /\ bytes[1] < b /\ bytes[2] \in Nat /\ bytes[2] < b
    BY <1>2, <2>2
  <2>4. bytes[1] * b + bytes[2] \in Nat /\ bytes[1] * b + bytes[2] < b * b
    BY <1>1, <2>3, TwoPlaces
  <2> QED  BY <2>1, <2>4
<1>5. CASE width = 4
  <2>1. /\ n = (bytes[1] * b + bytes[2]) * (b * b) + bytes[3] * b + bytes[4]
        /\ Payloads!Numbers(width) = (b * b) * (b * b)
    BY <1>5 DEF Payloads!Number, Payloads!Numbers, b
  <2>2. 1 \in 1..width /\ 2 \in 1..width /\ 3 \in 1..width /\ 4 \in 1..width
    BY <1>5
  <2>3. /\ bytes[1] \in Nat /\ bytes[1] < b /\ bytes[2] \in Nat /\ bytes[2] < b
        /\ bytes[3] \in Nat /\ bytes[3] < b /\ bytes[4] \in Nat /\ bytes[4] < b
    BY <1>2, <2>2
  <2>4. /\ (bytes[1] * b + bytes[2]) * (b * b) + bytes[3] * b + bytes[4] \in Nat
        /\ (bytes[1] * b + bytes[2]) * (b * b) + bytes[3] * b + bytes[4] < (b * b) * (b * b)
    BY <1>1, <2>3, FourPlaces
  <2> HIDE DEF n
  <2> QED  BY <2>1, <2>4 DEF n
<1> QED  BY <1>3, <1>4, <1>5

LEMMA NumbersAreEven ==
    ASSUME NEW width \in {1, 2, 4}
    PROVE  Payloads!Numbers(width) \in Nat /\ \E half \in Nat : Payloads!Numbers(width) = 2 * half
<1>1. PICK h \in Nat : Digits = 2 * h
  <2>1. Digits \in Nat /\ Digits % 2 = 0
    BY BufferBounds
  <2>2. Digits \div 2 \in Nat /\ Digits = 2 * (Digits \div 2)
    BY <2>1
  <2> QED  BY <2>2
<1>2. \A a, c \in Nat : a * (2 * c) = 2 * (a * c) /\ a * c \in Nat
  OBVIOUS
<1> DEFINE b == Payloads!Base
<1>3. b \in Nat /\ b = 2 * (Digits * h) /\ Digits * h \in Nat
  BY <1>1, <1>2, BaseIs, BufferBounds
<1> HIDE DEF b
<1>4. PICK g \in Nat : b = 2 * g
  BY <1>3
<1>5. b * b = 2 * (b * g) /\ b * g \in Nat /\ b * b \in Nat
  BY <1>2, <1>3, <1>4
<1> DEFINE bb == b * b
           gg == b * g
<1> HIDE DEF bb, gg
<1>6. bb * bb = 2 * (bb * gg) /\ bb * gg \in Nat /\ bb * bb \in Nat
  <2>1. bb = 2 * gg /\ bb \in Nat /\ gg \in Nat
    BY <1>5 DEF bb, gg
  <2> QED  BY <1>2, <2>1
<1>7. Payloads!Numbers(width) \in {b, bb, bb * bb}
  BY DEF Payloads!Numbers, b, bb
<1> QED  BY <1>3, <1>4, <1>5, <1>6, <1>7 DEF bb, gg

LEMMA SignedIs ==
    ASSUME NEW width \in {1, 2, 4}, NEW n \in Nat, n < Payloads!Numbers(width)
    PROVE  LET i == Payloads!Signed(n, width)
               range == Payloads!Numbers(width)
           IN  -range <= 2 * i /\ 2 * i < range /\ i % range = n
<1> DEFINE range == Payloads!Numbers(width)
           i == Payloads!Signed(n, width)
<1>1. PICK half \in Nat : range = 2 * half /\ range \in Nat
  BY NumbersAreEven
<1>2. i = IF n >= range \div 2 THEN n - range ELSE n
  BY DEF Payloads!Signed
<1> HIDE DEF range, i
<1>3. n < range /\ range \div 2 = half
  BY <1>1 DEF range
<1>4. -range <= 2 * i /\ 2 * i < range
  BY <1>1, <1>2, <1>3
<1>5. n % range = n /\ (n - range) % range = n
  <2>1. range > 0
    BY <1>1, <1>3
  <2>2. n % range = n
    BY <1>1, <1>3, <2>1
  <2>3. (n - range) % range = n
    BY <1>1, <1>3, <2>1
  <2> QED  BY <2>2, <2>3
<1> QED  BY <1>2, <1>4, <1>5 DEF i, range

LEMMA ReadsRight ==
    ASSUME BytesInv
    PROVE  Payloads!CheckedReadIsExact
<1> SUFFICES ASSUME NEW width \in {1, 2, 4}, NEW first \in 0..(Word - 5)
             PROVE  LET range == Payloads!Numbers(width)
                        r == Payloads!ReadBytes(width, first, FALSE)
                        i == Payloads!ReadInt(width, first, FALSE)
                    IN  IF first + width > Len(Payloads!data) THEN r = <<>> /\ i = <<>>
                        ELSE /\ r = <<Payloads!Number(SubSeq(Payloads!data, first + 1, first + width))>>
                             /\ -range <= 2 * i[1] /\ 2 * i[1] < range /\ i[1] % range = r[1]
  BY DEF Payloads!CheckedReadIsExact
<1> DEFINE o == first
           r == Payloads!ReadBytes(width, o, FALSE)
           i == Payloads!ReadInt(width, o, FALSE)
           spot == [k \in 1..width |-> Payloads!Plus(Payloads!Plus(o, k - 1), start) + 1]
           taken == [k \in 1..width |-> vec[spot[k]]]
           bytes == SubSeq(Payloads!data, o + 1, o + width)
<1>1. /\ vec \in Seq(Payloads!Bytes) /\ Len(vec) \in Nat /\ Len(vec) <= MaxLen
      /\ start \in Nat /\ end \in Nat /\ start <= end /\ end <= Len(vec)
      /\ Payloads!length = end - start
  BY InsideFacts
<1>2. /\ width \in Nat /\ width <= 4 /\ o \in Nat /\ o + 4 < Word
      /\ MaxLen \in Nat /\ Word \in Nat /\ Word > MaxLen
  BY BufferBounds
<1>3. r = IF Payloads!OutOfRange(width, o) \/ ~(Payloads!ToSet(spot) \subseteq DOMAIN vec)
          THEN <<>> ELSE <<Payloads!Number(taken)>>
  BY DEF Payloads!ReadBytes
<1>4. i = IF r = <<>> THEN r ELSE <<Payloads!Signed(r[1], width)>>
  BY DEF Payloads!ReadInt
<1>5. Payloads!OutOfRange(width, o) <=> o + width > end - start
  BY <1>1, <1>2 DEF Payloads!OutOfRange, Payloads!Plus
<1>6. Len(Payloads!data) = end - start
  BY DataIs
<1> HIDE DEF r, i, o
<1>7. CASE o + width > end - start
  <2>1. r = <<>>
    BY <1>3, <1>5, <1>7
  <2>2. i = <<>>
    BY <1>4, <2>1
  <2> QED  BY <1>6, <1>7, <2>1, <2>2 DEF r, i, o
<1>8. CASE ~(o + width > end - start)
  <2>1. \A k \in 1..width : spot[k] = start + o + k /\ spot[k] \in 1..Len(vec)
    <3> SUFFICES ASSUME NEW k \in 1..width
                 PROVE  spot[k] = start + o + k /\ spot[k] \in 1..Len(vec)
      OBVIOUS
    <3>1. k \in Nat /\ k >= 1 /\ k <= width /\ o + width <= end - start
      BY <1>1, <1>2, <1>8
    <3>2. Payloads!Plus(o, k - 1) = o + k - 1
      BY <1>1, <1>2, <3>1 DEF Payloads!Plus
    <3>3. Payloads!Plus(o + k - 1, start) = o + k - 1 + start
      <4> DEFINE x == o + k - 1
      <4>1. x \in Nat /\ x + start < Word
        BY <1>1, <1>2, <3>1
      <4> HIDE DEF x
      <4>2. Payloads!Plus(x, start) = x + start
        BY <4>1 DEF Payloads!Plus
      <4> QED  BY <4>2 DEF x
    <3>4. spot[k] = o + k - 1 + start + 1
      BY <3>2, <3>3
    <3> HIDE DEF spot
    <3> QED  BY <1>1, <1>2, <3>1, <3>4
  <2>2. Payloads!ToSet(spot) \subseteq DOMAIN vec
    <3>1. DOMAIN vec = 1..Len(vec) /\ DOMAIN spot = 1..width
      BY <1>1
    <3> HIDE DEF spot
    <3> QED  BY <2>1, <3>1 DEF Payloads!ToSet
  <2>3. r = <<Payloads!Number(taken)>>
    BY <1>3, <1>5, <1>8, <2>2
  <2>4. /\ bytes \in Seq(Payloads!Bytes) /\ Len(bytes) = width
        /\ \A k \in 1..width : bytes[k] = vec[start + o + k]
    <3>1. o <= o + width /\ o + width \in Nat /\ o + width <= end - start
      BY <1>1, <1>2, <1>8
    <3>2. /\ bytes = SubSeq(vec, start + o + 1, start + (o + width))
          /\ bytes \in Seq(Payloads!Bytes) /\ Len(bytes) = (o + width) - o
          /\ \A k \in 1..((o + width) - o) : bytes[k] = vec[start + o + k]
      <4> DEFINE d == o + width
      <4>1. d \in Nat /\ o <= d /\ d <= end - start /\ o \in Nat
        BY <1>2, <3>1
      <4> HIDE DEF d
      <4>2. /\ SubSeq(SubSeq(vec, start + 1, end), o + 1, d) = SubSeq(vec, start + o + 1, start + d)
            /\ SubSeq(vec, start + o + 1, start + d) \in Seq(Payloads!Bytes)
            /\ Len(SubSeq(vec, start + o + 1, start + d)) = d - o
            /\ \A k \in 1..(d - o) : SubSeq(vec, start + o + 1, start + d)[k] = vec[start + o + k]
        BY <1>1, <4>1, StretchOfStretch
      <4> QED  BY <4>2 DEF d, Payloads!data
    <3>3. (o + width) - o = width
      BY <1>2
    <3> HIDE DEF bytes
    <3> QED  BY <3>2, <3>3
  <2> HIDE DEF spot, bytes
  <2>5. taken = bytes
    <3>1. bytes = [k \in 1..width |-> bytes[k]]
      BY <2>4
    <3>2. \A k \in 1..width : vec[spot[k]] = bytes[k]
      BY <2>1, <2>4
    <3> QED  BY <3>1, <3>2
  <2> DEFINE n == Payloads!Number(bytes)
  <2>6. n \in Nat /\ n < Payloads!Numbers(width)
    BY <2>4, NumberIsBelow
  <2>7. r = <<n>>
    BY <2>3, <2>5
  <2> HIDE DEF n
  <2>8. r[1] = n /\ r # <<>> /\ i = <<Payloads!Signed(n, width)>>
    BY <1>4, <2>7
  <2>9. i[1] = Payloads!Signed(n, width)
    BY <2>8
  <2>10. /\ -Payloads!Numbers(width) <= 2 * i[1] /\ 2 * i[1] < Payloads!Numbers(width)
         /\ i[1] % Payloads!Numbers(width) = r[1]
    BY <2>6, <2>8, <2>9, SignedIs
  <2>11. r = <<Payloads!Number(SubSeq(Payloads!data, o + 1, o + width))>>
    BY <2>7 DEF n, bytes
  <2> QED  BY <1>6, <1>8, <2>10, <2>11 DEF r, i, o
<1> QED  BY <1>7, <1>8

-----------------------------------------------------------------------------
(* The search.                                                             *)

LEMMA Least ==
    ASSUME NEW S, S \subseteq Nat, S # {}
    PROVE  \E n \in S : \A m \in S : n <= m
<1> DEFINE R == OpToRel(<, Nat)
<1>1. \E n \in S : \A m \in S : ~(<<m, n>> \in R)
  BY NatLessThanWellFounded, WFMin, Zenon
<1>2. \A m, n \in Nat : m < n => <<m, n>> \in R
  BY DEF OpToRel
<1> HIDE DEF R
<1>3. PICK n \in S : \A m \in S : ~(<<m, n>> \in R)
  BY <1>1
<1>4. ASSUME NEW m \in S  PROVE n <= m
  <2>1. m \in Nat /\ n \in Nat
    OBVIOUS
  <2>2. m < n => <<m, n>> \in R
    BY <1>2, <2>1
  <2>3. ~(m < n)
    BY <1>3, <2>2
  <2> QED  BY <2>1, <2>3
<1> QED  BY <1>4

LEMMA FirstIs ==
    ASSUME NEW S, S \subseteq Nat, S # {}
    PROVE  Payloads!First(S) \in S /\ \A m \in S : Payloads!First(S) <= m
BY Least DEF Payloads!First

LEMMA SizesAgree ==
    \A S : Payloads!Cardinality(S) = Cardinality(S)
BY DEF IsFiniteSet, Payloads!IsFiniteSet, Cardinality, Payloads!Cardinality

\* The last byte of an occurrence.
EndsAt(str, sub, place) ==
    \A i \in 0..(Len(sub) - 1) : str[place - i] = sub[Len(sub) - i]

\* An occurrence that ends a few bytes further right puts a byte of sub on
\* each byte of str that differs, unless sub is moved past it.
LEMMA MovedOnto ==
    ASSUME NEW str, NEW sub, NEW n \in Nat, n = Len(sub), NEW place \in Int, NEW d \in Nat,
           EndsAt(str, sub, place + d), NEW i \in Payloads!Differ(str, sub, place), i + d <= n - 1
    PROVE  d > 0 /\ d \in Payloads!Again(str, sub, place, i)
<1>1. i \in Nat /\ i + d \in 0..(n - 1) /\ str[place - i] # sub[n - i]
  BY DEF Payloads!Differ
<1>2. str[(place + d) - (i + d)] = sub[n - (i + d)]
  BY <1>1 DEF EndsAt
<1>3. (place + d) - (i + d) = place - i /\ n - (i + d) = n - i - d
  BY <1>1
<1>4. str[place - i] = sub[n - i - d]
  BY <1>2, <1>3
<1>5. d # 0
  <2>1. d = 0 => n - i - d = n - i
    BY <1>1
  <2> QED  BY <1>1, <1>4, <2>1
<1>6. d > 0 /\ d \in 1..(n - i - 1)
  BY <1>1, <1>5
<1> QED  BY <1>4, <1>6 DEF Payloads!Again

\* The shift passes over no occurrence, and is zero only at one.
LEMMA ShiftIs ==
    ASSUME NEW S, NEW str, NEW sub \in Seq(S), NEW place \in Int,
           NEW shift, shift = Payloads!Shift(str, sub, place)
    PROVE  /\ shift \in 0..Len(sub)
           /\ shift = 0 => EndsAt(str, sub, place)
           /\ \A d \in 0..(shift - 1) : ~EndsAt(str, sub, place + d)
<1> DEFINE n == Len(sub)
           differ == Payloads!Differ(str, sub, place)
           again(i) == Payloads!Again(str, sub, place, i)
           moved == {i \in differ : again(i) # {}}
<1>1. n \in Nat
  OBVIOUS
<1>2. differ \subseteq 0..(n - 1)
  BY DEF Payloads!Differ
<1>3. shift = IF moved = {} THEN Cardinality(differ)
              ELSE Payloads!First(again(Payloads!First(moved)))
  BY SizesAgree DEF Payloads!Shift
<1>4. differ = {} => EndsAt(str, sub, place)
  BY DEF Payloads!Differ, EndsAt
<1>5. \A d \in Nat : EndsAt(str, sub, place + d) =>
         \A i \in differ : i + d <= n - 1 => d > 0 /\ d \in again(i)
  BY <1>1, MovedOnto
<1> HIDE DEF n, differ, again
<1>6. CASE moved = {}
  <2>1. /\ IsFiniteSet(0..(n - 1)) /\ Cardinality(0..(n - 1)) = n
    <3>1. 0 \in Int /\ n - 1 \in Int
      BY <1>1
    <3>2. /\ IsFiniteSet(0..(n - 1))
          /\ Cardinality(0..(n - 1)) = IF 0 > n - 1 THEN 0 ELSE (n - 1) - 0 + 1
      BY <3>1, FS_Interval
    <3> QED  BY <1>1, <3>2
  <2>2. IsFiniteSet(differ) /\ Cardinality(differ) \in Nat /\ Cardinality(differ) <= n
    BY <1>2, <2>1, FS_Subset, FS_CardinalityType
  <2>4. shift = Cardinality(differ)
    BY <1>3, <1>6
  <2>5. shift \in 0..n
    BY <1>1, <2>2, <2>4
  <2>6. shift = 0 => differ = {}
    BY <2>2, <2>4, FS_EmptySet
  <2>7. ASSUME NEW d \in 0..(shift - 1), EndsAt(str, sub, place + d)
        PROVE  FALSE
    <3>1. d \in Nat /\ d < shift
      BY <2>2, <2>4
    <3>2. \A i \in differ : i \in (n - d)..(n - 1)
      <4> SUFFICES ASSUME NEW i \in differ  PROVE i \in (n - d)..(n - 1)
        OBVIOUS
      <4>1. i \in 0..(n - 1)
        BY <1>2
      <4>2. ~(i + d <= n - 1)
        <5>1. again(i) = {}
          BY <1>6
        <5> QED  BY <1>5, <2>7, <3>1, <5>1
      <4> QED  BY <1>1, <3>1, <4>1, <4>2
    <3>3. IsFiniteSet((n - d)..(n - 1)) /\ Cardinality((n - d)..(n - 1)) = d
      <4>1. n - d \in Int /\ n - 1 \in Int
        BY <1>1, <3>1
      <4>2. /\ IsFiniteSet((n - d)..(n - 1))
            /\ Cardinality((n - d)..(n - 1)) = IF n - d > n - 1 THEN 0 ELSE (n - 1) - (n - d) + 1
        BY <4>1, FS_Interval
      <4> QED  BY <1>1, <3>1, <4>2
    <3>4. Cardinality(differ) <= d
      <4>1. differ \subseteq (n - d)..(n - 1)
        BY <3>2
      <4> QED  BY <3>3, <4>1, FS_Subset
    <3> QED  BY <2>2, <2>4, <3>1, <3>4
  <2> QED  BY <1>4, <2>5, <2>6, <2>7 DEF n
<1>7. CASE moved # {}
  <2> DEFINE i == Payloads!First(moved)
  <2>1. i \in moved
    <3>1. moved \subseteq Nat
      <4>1. moved \subseteq differ
        OBVIOUS
      <4> HIDE DEF moved
      <4> QED  BY <1>1, <1>2, <4>1
    <3> HIDE DEF moved
    <3> QED  BY <1>7, <3>1, FirstIs
  <2>2. shift = Payloads!First(again(i))
    BY <1>3, <1>7
  <2> HIDE DEF i
  <2>3. i \in 0..(n - 1) /\ i \in differ /\ again(i) # {}
    BY <1>2, <2>1
  <2>4. again(i) \subseteq 1..(n - i - 1)
    BY DEF again, Payloads!Again, n
  <2>5. shift \in again(i) /\ \A m \in again(i) : shift <= m
    <3>1. again(i) \subseteq Nat
      BY <2>4
    <3> QED  BY <2>2, <2>3, <3>1, FirstIs
  <2>6. shift \in Nat /\ shift > 0 /\ shift <= n - i - 1 /\ i \in Nat
    BY <1>1, <2>3, <2>4, <2>5
  <2>7. ASSUME NEW d \in 0..(shift - 1), EndsAt(str, sub, place + d)
        PROVE  FALSE
    <3>1. d \in Nat /\ d < shift /\ i + d <= n - 1
      BY <1>1, <2>6
    <3>2. d \in again(i)
      BY <1>5, <2>3, <2>7, <3>1
    <3> QED  BY <2>5, <2>6, <3>1, <3>2
  <2>8. shift \in 0..n /\ shift # 0
    BY <1>1, <2>6
  <2> QED  BY <2>7, <2>8 DEF n
<1> QED  BY <1>6, <1>7

\* What one round of search() answers, when f has what the rounds behind it do.
Round(f, str, sub, place) ==
    IF place > Len(str) THEN -1
    ELSE IF Payloads!Shift(str, sub, place) = 0 THEN place - Len(sub)
         ELSE f[place + Payloads!Shift(str, sub, place)]

\* The rounds have a result: each one rests on rounds behind it.
LEMMA RoundsEnd ==
    ASSUME NEW S, NEW str \in Seq(S), NEW sub \in Seq(S), Len(str) <= MaxLen, Len(sub) <= Len(str)
    PROVE  \E f : f = [place \in 1..(2 * MaxLen) |-> Round(f, str, sub, place)]
<1> DEFINE L == Len(str)
           M == 2 * MaxLen
           Up(k) == \E f \in [1..M -> Int] : \A place \in k..M : f[place] = Round(f, str, sub, place)
           G == {k \in 1..(M + 1) : Up(k)}
<1>1. L \in Nat /\ M \in Nat /\ L <= M /\ MaxLen \in Nat /\ Len(sub) \in Nat
  <2>1. L \in Nat /\ Len(sub) \in Nat
    OBVIOUS
  <2> QED  BY <2>1, BufferBounds
<1>2. \A place \in 1..M : place <= L =>
         LET s == Payloads!Shift(str, sub, place)
         IN  s \in Nat /\ (s # 0 => place + s \in (place + 1)..M)
  <2> SUFFICES ASSUME NEW place \in 1..M, place <= L
               PROVE  LET s == Payloads!Shift(str, sub, place)
                      IN  s \in Nat /\ (s # 0 => place + s \in (place + 1)..M)
    OBVIOUS
  <2>1. place \in Int
    OBVIOUS
  <2>2. Payloads!Shift(str, sub, place) \in 0..Len(sub)
    BY <2>1, ShiftIs
  <2> QED  BY <1>1, <2>1, <2>2
<1> HIDE DEF M
<1>3. M + 1 \in G
  <2>1. [i \in 1..M |-> 0] \in [1..M -> Int]
    OBVIOUS
  <2>2. \A place \in (M + 1)..M : FALSE
    BY <1>1
  <2>3. Up(M + 1)
    BY <2>1, <2>2
  <2> QED  BY <1>1, <2>3
<1>4. G \subseteq Nat
  BY <1>1
<1>5. PICK k \in G : \A m \in G : k <= m
  <2> HIDE DEF G
  <2> QED  BY <1>3, <1>4, Least
<1>6. k = 1
  <2> SUFFICES ASSUME k # 1  PROVE FALSE
    OBVIOUS
  <2>1. k - 1 \in 1..M /\ k \in Nat
    BY <1>1
  <2>2. PICK f \in [1..M -> Int] : \A place \in k..M : f[place] = Round(f, str, sub, place)
    OBVIOUS
  <2> DEFINE r == Round(f, str, sub, k - 1)
             g == [f EXCEPT ![k - 1] = r]
  <2>3. r \in Int
    <3>1. k - 1 > L => r = -1
      BY DEF Round
    <3>2. k - 1 <= L => r = k - 1 - Len(sub) \/ r \in Int
      <4>1. CASE k - 1 <= L /\ Payloads!Shift(str, sub, k - 1) = 0
        BY <1>1, <2>1, <4>1 DEF Round
      <4>2. CASE k - 1 <= L /\ Payloads!Shift(str, sub, k - 1) # 0
        <5>1. k - 1 + Payloads!Shift(str, sub, k - 1) \in 1..M
          BY <1>1, <1>2, <2>1, <4>2
        <5>2. r = f[k - 1 + Payloads!Shift(str, sub, k - 1)]
          BY <1>1, <2>1, <4>2 DEF Round
        <5> QED  BY <5>1, <5>2
      <4> QED  BY <4>1, <4>2
    <3> QED  BY <1>1, <2>1, <3>1, <3>2
  <2> HIDE DEF r
  <2>4. g \in [1..M -> Int] /\ g[k - 1] = r /\ \A place \in k..M : g[place] = f[place]
    BY <2>1, <2>3
  <2> HIDE DEF g
  <2>5. \A place \in (k - 1)..M : Round(g, str, sub, place) = Round(f, str, sub, place)
    <3> SUFFICES ASSUME NEW place \in (k - 1)..M
                 PROVE  Round(g, str, sub, place) = Round(f, str, sub, place)
      OBVIOUS
    <3>1. place \in 1..M
      BY <2>1
    <3>2. CASE place > L
      BY <3>2 DEF Round
    <3>3. CASE place <= L
      <4>1. Payloads!Shift(str, sub, place) # 0 => place + Payloads!Shift(str, sub, place) \in k..M
        BY <1>1, <1>2, <2>1, <3>1, <3>3
      <4>2. Payloads!Shift(str, sub, place) # 0 =>
               g[place + Payloads!Shift(str, sub, place)] = f[place + Payloads!Shift(str, sub, place)]
        BY <2>4, <4>1
      <4> QED  BY <4>2 DEF Round
    <3> QED  BY <1>1, <3>1, <3>2, <3>3
  <2>6. \A place \in (k - 1)..M : g[place] = Round(g, str, sub, place)
    <3> SUFFICES ASSUME NEW place \in (k - 1)..M  PROVE g[place] = Round(f, str, sub, place)
      BY <2>5
    <3>1. CASE place = k - 1
      BY <2>4, <3>1 DEF r
    <3>2. CASE place # k - 1
      <4>1. place \in k..M
        BY <2>1, <3>2
      <4> QED  BY <2>2, <2>4, <4>1
    <3> QED  BY <3>1, <3>2
  <2>7. Up(k - 1)
    BY <2>4, <2>6
  <2> HIDE DEF Up
  <2>8. k - 1 \in G
    <3>1. k - 1 \in 1..(M + 1)
      BY <1>1, <2>1
    <3> QED  BY <2>7, <3>1
  <2> HIDE DEF G
  <2>9. k <= k - 1
    BY <1>5, <2>8
  <2> QED  BY <2>1, <2>9
<1>7. PICK f \in [1..M -> Int] : \A place \in 1..M : f[place] = Round(f, str, sub, place)
  <2>1. Up(k)
    OBVIOUS
  <2> QED  BY <1>6, <2>1
<1>8. f = [place \in 1..M |-> Round(f, str, sub, place)]
  BY <1>7
<1> QED  BY <1>8 DEF M

\* What the search has found from place on: the first occurrence.
FoundFrom(str, sub, place, v) ==
    /\ (\A x \in place..Len(str) : ~EndsAt(str, sub, x)) => v = -1
    /\ \A x \in place..Len(str) :
          EndsAt(str, sub, x) /\ (\A y \in place..(x - 1) : ~EndsAt(str, sub, y)) => v = x - Len(sub)

LEMMA RoundsFind ==
    ASSUME NEW S, NEW str \in Seq(S), NEW sub \in Seq(S), Len(str) <= MaxLen, Len(sub) <= Len(str),
           NEW f, f = [place \in 1..(2 * MaxLen) |-> Round(f, str, sub, place)]
    PROVE  \A place \in 1..(2 * MaxLen) : FoundFrom(str, sub, place, f[place])
<1> DEFINE L == Len(str)
           M == 2 * MaxLen
           n == Len(sub)
           Wrong == {k \in 0..M : ~(M - k \in 1..M => FoundFrom(str, sub, M - k, f[M - k]))}
<1>1. L \in Nat /\ M \in Nat /\ n \in Nat /\ MaxLen \in Nat /\ L + n <= M
  <2>1. L \in Nat /\ n \in Nat
    OBVIOUS
  <2> QED  BY <2>1, BufferBounds
<1>2. \A place \in 1..M : f[place] = Round(f, str, sub, place)
  OBVIOUS
<1> HIDE DEF L, M, n
<1>3. Wrong = {}
  <2> SUFFICES ASSUME Wrong # {}  PROVE FALSE
    OBVIOUS
  <2>1. Wrong \subseteq Nat
    BY <1>1
  <2>2. PICK k \in Wrong : \A m \in Wrong : k <= m
    <3> HIDE DEF Wrong
    <3> QED  BY <2>1, Least
  <2> DEFINE place == M - k
             shift == Payloads!Shift(str, sub, place)
  <2>3. k \in 0..M /\ place \in 1..M /\ ~FoundFrom(str, sub, place, f[place])
    OBVIOUS
  <2>4. place \in Int /\ place >= 1 /\ place <= M
    BY <1>1, <2>3
  <2>5. f[place] = Round(f, str, sub, place)
    BY <1>2, <2>3
  <2>6. /\ shift \in 0..n /\ (shift = 0 => EndsAt(str, sub, place))
        /\ \A d \in 0..(shift - 1) : ~EndsAt(str, sub, place + d)
    BY <2>4, ShiftIs DEF n
  <2>7. \A i \in 1..M : i > place => FoundFrom(str, sub, i, f[i])
    <3> SUFFICES ASSUME NEW i \in 1..M, i > place  PROVE FoundFrom(str, sub, i, f[i])
      OBVIOUS
    <3> DEFINE j == M - i
    <3>1. j \in 0..M /\ M - j = i /\ k \in Nat /\ ~(k <= j)
      BY <1>1, <2>3
    <3> HIDE DEF j, place
    <3>2. j \notin Wrong
      <4> HIDE DEF Wrong
      <4> QED  BY <2>2, <3>1
    <3> QED  BY <3>1, <3>2
  <2> HIDE DEF place, shift, Wrong
  <2>8. CASE place > L
    <3>1. f[place] = -1
      BY <2>5, <2>8 DEF Round, L
    <3>2. \A x \in place..L : FALSE
      BY <1>1, <2>4, <2>8
    <3> QED  BY <2>3, <3>1, <3>2 DEF FoundFrom, L
  <2>9. CASE place <= L /\ shift = 0
    <3>1. f[place] = place - n
      BY <1>1, <2>4, <2>5, <2>9 DEF Round, L, n, shift
    <3>2. EndsAt(str, sub, place) /\ place \in place..L
      BY <1>1, <2>4, <2>6, <2>9
    <3>3. \A x \in place..L : x # place => place \in place..(x - 1)
      BY <1>1, <2>4
    <3>4. FoundFrom(str, sub, place, f[place])
      BY <3>1, <3>2, <3>3 DEF FoundFrom, L, n
    <3> QED  BY <2>3, <3>4
  <2>10. CASE place <= L /\ shift # 0
    <3> DEFINE next == place + shift
    <3>1. f[place] = f[next] /\ next \in 1..M /\ next > place
      <4>1. next \in 1..M /\ next > place
        BY <1>1, <2>4, <2>6, <2>10
      <4>2. f[place] = f[next]
        BY <1>1, <2>4, <2>5, <2>10 DEF Round, L, shift
      <4> QED  BY <4>1, <4>2
    <3>2. FoundFrom(str, sub, next, f[next])
      BY <2>7, <3>1
    <3>3. \A x \in place..L : EndsAt(str, sub, x) => x \in next..L
      <4> SUFFICES ASSUME NEW x \in place..L, x \notin next..L  PROVE ~EndsAt(str, sub, x)
        OBVIOUS
      <4>1. x - place \in 0..(shift - 1) /\ place + (x - place) = x
        BY <1>1, <2>4, <2>6
      <4> QED  BY <2>6, <4>1
    <3>4. next..L \subseteq place..L /\ \A x : next..(x - 1) \subseteq place..(x - 1)
      <4>1. \A x, y : x \in next..y => x \in place..y
        BY <2>4, <3>1
      <4> QED  BY <4>1
    <3>5. (\A x \in place..L : ~EndsAt(str, sub, x)) => f[place] = -1
      BY <3>1, <3>2, <3>4 DEF FoundFrom, L
    <3>6. ASSUME NEW x \in place..L, EndsAt(str, sub, x),
                 \A y \in place..(x - 1) : ~EndsAt(str, sub, y)
          PROVE  f[place] = x - n
      <4>1. x \in next..L
        BY <3>3, <3>6
      <4>2. \A y \in next..(x - 1) : ~EndsAt(str, sub, y)
        BY <3>4, <3>6
      <4> QED  BY <3>1, <3>2, <3>6, <4>1, <4>2 DEF FoundFrom, L, n
    <3>7. FoundFrom(str, sub, place, f[place])
      BY <3>5, <3>6 DEF FoundFrom, L, n
    <3> QED  BY <2>3, <3>7
  <2> QED  BY <1>1, <2>4, <2>6, <2>8, <2>9, <2>10
<1>4. ASSUME NEW place \in 1..M
      PROVE  FoundFrom(str, sub, place, f[place])
  <2>1. M - place \in 0..M /\ M - (M - place) = place
    BY <1>1
  <2> QED  BY <1>3, <2>1
<1> QED  BY <1>4 DEF M

\* The search is its rounds.
LEMMA SearchIsRounds ==
    ASSUME NEW str, NEW sub, ~(Len(sub) > Len(str)), sub # <<>>
    PROVE  Payloads!search(str, sub)
             = (CHOOSE f : f = [place \in 1..(2 * MaxLen) |-> Round(f, str, sub, place)])[Len(sub)]
BY DEF Payloads!search, Round

\* The places of a sequence in another are those where it ends a length later.
LEMMA PlacesAre ==
    ASSUME NEW S, NEW str \in Seq(S), NEW sub \in Seq(S), NEW p \in 0..(Len(str) - Len(sub))
    PROVE  SubSeq(str, p + 1, p + Len(sub)) = sub <=> EndsAt(str, sub, p + Len(sub))
<1> DEFINE L == Len(str)
           n == Len(sub)
           t == SubSeq(str, p + 1, p + n)
<1>1. L \in Nat /\ n \in Nat /\ p \in Nat /\ p + n <= L
  <2>1. L \in Nat /\ n \in Nat
    OBVIOUS
  <2> QED  BY <2>1
<1>2. t \in Seq(S) /\ Len(t) = n /\ \A i \in 1..n : t[i] = str[p + i]
  <2> DEFINE b == p + n
  <2>1. b \in Nat /\ p <= b /\ b <= L /\ b - p = n
    BY <1>1
  <2> HIDE DEF b, n, L
  <2>2. SubSeq(str, p + 1, b) \in Seq(S) /\ Len(SubSeq(str, p + 1, b)) = b - p
        /\ \A i \in 1..(b - p) : SubSeq(str, p + 1, b)[i] = str[p + i]
    BY <1>1, <2>1, StretchIs DEF L
  <2> QED  BY <2>1, <2>2 DEF b
<1> HIDE DEF t
<1>3. t = sub <=> \A i \in 1..n : t[i] = sub[i]
  BY <1>2, SameSequence
<1> HIDE DEF n, L
<1>4. ASSUME EndsAt(str, sub, p + n), NEW i \in 1..n
      PROVE  str[p + i] = sub[i]
  <2> DEFINE d == n - i
  <2>1. d \in 0..(n - 1) /\ (p + n) - d = p + i /\ n - d = i
    BY <1>1
  <2> HIDE DEF d
  <2>2. str[(p + n) - d] = sub[n - d]
    BY <1>4, <2>1 DEF EndsAt, n
  <2> QED  BY <2>1, <2>2
<1>5. ASSUME \A i \in 1..n : str[p + i] = sub[i], NEW d \in 0..(n - 1)
      PROVE  str[(p + n) - d] = sub[n - d]
  <2> DEFINE i == n - d
  <2>1. i \in 1..n /\ (p + n) - d = p + i
    BY <1>1
  <2> HIDE DEF i
  <2>2. str[p + i] = sub[i]
    BY <1>5, <2>1
  <2> QED  BY <2>1, <2>2 DEF i
<1>6. EndsAt(str, sub, p + n) <=> \A i \in 1..n : str[p + i] = sub[i]
  <2>1. ASSUME EndsAt(str, sub, p + n)  PROVE \A i \in 1..n : str[p + i] = sub[i]
    BY <1>4, <2>1
  <2>2. ASSUME \A i \in 1..n : str[p + i] = sub[i]  PROVE EndsAt(str, sub, p + n)
    BY <1>5, <2>2 DEF EndsAt, n
  <2> QED  BY <2>1, <2>2
<1> QED  BY <1>2, <1>3, <1>6 DEF t, n

LEMMA SearchRight ==
    ASSUME BytesInv
    PROVE  Payloads!SearchFindsFirst
<1> SUFFICES ASSUME NEW sub \in Payloads!BoundedSeq(Payloads!Bytes, MaxLen)
             PROVE  LET places == {p \in 0..(Len(Payloads!data) - Len(sub)) :
                                     SubSeq(Payloads!data, p + 1, p + Len(sub)) = sub}
                    IN  Payloads!search(Payloads!data, sub)
                          = IF places = {} THEN -1 ELSE Payloads!First(places)
  BY DEF Payloads!SearchFindsFirst
<1> DEFINE str == Payloads!data
           L == Len(str)
           n == Len(sub)
           places == {p \in 0..(L - n) : SubSeq(str, p + 1, p + n) = sub}
<1>1. str \in Seq(Payloads!Bytes) /\ L \in Nat /\ L <= MaxLen /\ MaxLen \in Nat
  <2>1. /\ start \in Nat /\ end \in Nat /\ start <= end /\ end <= Len(vec)
        /\ Len(vec) \in Nat /\ Len(vec) <= MaxLen /\ MaxLen \in Nat
    BY InsideFacts, BufferBounds
  <2>2. str \in Seq(Payloads!Bytes) /\ L = end - start
    BY DataIs
  <2> QED  BY <2>1, <2>2
<1>2. sub \in Seq(Payloads!Bytes) /\ n \in Nat /\ n <= MaxLen
  <2>1. sub \in Seq(Payloads!Bytes) /\ n <= MaxLen
    BY <1>1, BoundedIs
  <2> QED  BY <2>1
<1> HIDE DEF str
<1>3. \A p \in 0..(L - n) : p \in places <=> EndsAt(str, sub, p + n)
  BY <1>1, <1>2, PlacesAre
<1>4. places \subseteq Nat /\ places \subseteq 0..(L - n)
  OBVIOUS
<1>5. places # {} => Payloads!First(places) \in places /\ \A m \in places : Payloads!First(places) <= m
  <2> HIDE DEF places
  <2> QED  BY <1>4, FirstIs
<1> HIDE DEF places
<1>6. CASE n > L
  <2>1. places = {}
    BY <1>1, <1>2, <1>4, <1>6
  <2>2. Payloads!search(str, sub) = -1
    BY <1>6 DEF Payloads!search
  <2> QED  BY <2>1, <2>2 DEF places, str
<1>7. CASE n <= L /\ sub = <<>>
  <2>1. n = 0
    BY <1>7
  <2>2. EndsAt(str, sub, 0 + n)
    BY <2>1 DEF EndsAt
  <2>3. 0 \in places
    <3>1. 0 \in 0..(L - n)
      BY <1>1, <1>2, <1>7
    <3> QED  BY <1>3, <2>2, <3>1
  <2>4. Payloads!First(places) = 0
    <3>1. Payloads!First(places) \in Nat /\ Payloads!First(places) <= 0
      BY <1>4, <1>5, <2>3
    <3> QED  BY <3>1
  <2>5. Payloads!search(str, sub) = 0
    <3>1. ~(Len(sub) > Len(str))
      BY <1>1, <1>2, <1>7
    <3> QED  BY <1>7, <3>1 DEF Payloads!search
  <2> QED  BY <2>3, <2>4, <2>5 DEF places, str
<1>8. CASE n <= L /\ sub # <<>>
  <2> DEFINE f == CHOOSE g : g = [place \in 1..(2 * MaxLen) |-> Round(g, str, sub, place)]
  <2>1. f = [place \in 1..(2 * MaxLen) |-> Round(f, str, sub, place)]
    <3>1. \E g : g = [place \in 1..(2 * MaxLen) |-> Round(g, str, sub, place)]
      BY <1>1, <1>2, <1>8, RoundsEnd
    <3> QED  BY <3>1
  <2>2. Payloads!search(str, sub) = f[n]
    <3>1. ~(Len(sub) > Len(str))
      BY <1>1, <1>2, <1>8
    <3> QED  BY <1>8, <3>1, SearchIsRounds
  <2> HIDE DEF f
  <2>3. n > 0
    <3>1. n # 0
      BY <1>2, <1>8
    <3> QED  BY <1>2, <3>1
  <2>4. FoundFrom(str, sub, n, f[n])
    <3>1. n \in 1..(2 * MaxLen)
      BY <1>1, <1>2, <2>3
    <3>2. \A place \in 1..(2 * MaxLen) : FoundFrom(str, sub, place, f[place])
      BY <1>1, <1>2, <1>8, <2>1, RoundsFind
    <3> QED  BY <3>1, <3>2
  <2> HIDE DEF n, L
  <2>5. \A x \in n..L : EndsAt(str, sub, x) => x - n \in places
    <3> SUFFICES ASSUME NEW x \in n..L, EndsAt(str, sub, x)  PROVE x - n \in places
      OBVIOUS
    <3> DEFINE p == x - n
    <3>1. p \in 0..(L - n) /\ p + n = x
      BY <1>1, <1>2
    <3> HIDE DEF p
    <3> QED  BY <1>3, <3>1 DEF p
  <2>6. CASE places = {}
    <3>1. f[n] = -1
      BY <2>4, <2>5, <2>6 DEF FoundFrom, L
    <3> QED  BY <2>2, <2>6, <3>1 DEF places, str, n, L
  <2>7. CASE places # {}
    <3> DEFINE q == Payloads!First(places)
    <3>1. q \in 0..(L - n) /\ q \in places /\ \A m \in places : q <= m
      BY <1>4, <1>5, <2>7
    <3> HIDE DEF q
    <3> DEFINE x == q + n
    <3>2. x \in n..L /\ EndsAt(str, sub, x) /\ x - n = q
      BY <1>1, <1>2, <1>3, <3>1
    <3> HIDE DEF x
    <3>3. \A y \in n..(x - 1) : ~EndsAt(str, sub, y)
      <4> SUFFICES ASSUME NEW y \in n..(x - 1), EndsAt(str, sub, y)  PROVE FALSE
        OBVIOUS
      <4>1. y \in n..L /\ y - n < q /\ y - n \in Int /\ q \in Int
        BY <1>1, <1>2, <3>1, <3>2
      <4>2. y - n \in places
        BY <2>5, <4>1
      <4>3. q <= y - n
        BY <3>1, <4>2
      <4> QED  BY <4>1, <4>3
    <3>4. f[n] = x - n
      BY <2>4, <3>2, <3>3 DEF FoundFrom, n, L
    <3> QED  BY <2>2, <2>7, <3>2, <3>4 DEF places, str, n, L, q
  <2> QED  BY <2>6, <2>7
<1>9. n > L \/ n <= L
  BY <1>1, <1>2
<1> QED  BY <1>6, <1>7, <1>8, <1>9 DEF places, str

\* What the invariant says of the buffer is all that its properties need.
LEMMA BytesInvSound == BytesInv => BuffersAreExact
<1> SUFFICES ASSUME BytesInv  PROVE BuffersAreExact
  OBVIOUS
<1>1. Payloads!TypeOK /\ Payloads!StaysInside
  BY DEF BytesInv
<1>2. Payloads!SliceIsSubsequence /\ Payloads!CheckedReadIsExact
  BY SlicesRight, ReadsRight
<1>3. Payloads!SearchFindsFirst /\ Payloads!HexIsReadBack
  BY SearchRight, HexReadBack
<1> QED  BY <1>1, <1>2, <1>3 DEF BuffersAreExact

\* Whatever the arguments of its slices and however often it is sliced, a
\* buffer stays inside its array and is the bytes it stands for: slices,
\* checked reads, searches and hex strings answer what those bytes say.
THEOREM BuffersExact == DataSpec => []BuffersAreExact
<1>1. BytesInv /\ [DataNext]_allVars => BytesInv'
  BY BytesNext
<1> QED  BY BytesInit, <1>1, BytesInvSound, PTL DEF DataSpec

\* A buffer that a layer keeps, or that is copied into a new packet, has its
\* bytes when it is read again.
THEOREM CrossingKeeps == DataSpec => Payloads!CrossingKeepsBytes
<1>1. payloadVars = Payloads!vars
  BY DEF payloadVars, Payloads!vars
<1>2. BytesInv /\ [DataNext]_allVars
        => BytesInv' /\ [Payloads!Cross \/ Payloads!Copy => Payloads!data' = Payloads!data]_(Payloads!vars)
  BY <1>1, BytesNext DEF payloadVars, Payloads!vars
<1> QED  BY BytesInit, <1>2, PTL DEF DataSpec, Payloads!CrossingKeepsBytes
=============================================================================
