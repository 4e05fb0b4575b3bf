-------------------------- MODULE DispatcherProofs --------------------------
(***************************************************************************)
(* Proofs about the dispatcher, for any number of threads, any filters and *)
(* any bounds: its types, and the way of a packet from insert() to the     *)
(* cache.  The packet is never in two places, it is lost only when the     *)
(* dispatcher is destroyed, and the queue stays within its bound.          *)
(***************************************************************************)
EXTENDS DispatcherProperties, FiniteSetTheorems, TLAPS

-----------------------------------------------------------------------------
(* Operators the dispatcher is built from.                                 *)

\* Listing a finite set of ids gives a sequence of ids.
LEMMA EnumerationsLemma ==
    ASSUME NEW S \in SUBSET Nat, IsFiniteSet(S), NEW s \in Enumerations(S)
    PROVE  s \in Seq(Nat) /\ Ascending(s) /\ Elements(s) = S
<1>1. Cardinality(S) \in Nat
  BY FS_CardinalityType
<1>2. s \in [1..Cardinality(S) -> Nat] /\ Ascending(s) /\ Elements(s) = S
  BY DEF Enumerations
<1>. QED
  BY <1>1, <1>2

-----------------------------------------------------------------------------
(* Type correctness: one lemma per group of variables that an action       *)
(* changes, one per thread for the whole.                                  *)

LEMMA InitTypeOK == Init => TypeOK
<1>. SUFFICES ASSUME Init PROVE TypeOK
  OBVIOUS
<1>1. InsertTypes
  BY DEF Init, InsertTypes
<1>2. DissectorTypes
  BY DEF Init, DissectorTypes
<1>3. StreamTypes
  BY DEF Init, StreamTypes
<1>4. ContextTypes
  BY FS_EmptySet DEF Init, ContextTypes
<1>5. FilterTypes
  BY DEF Init, FilterTypes
<1>6. ServerTypes
  BY DEF Init, ServerTypes
<1>. QED
  BY <1>1, <1>2, <1>3, <1>4, <1>5, <1>6 DEF TypeOK

\* What an action leaves alone keeps its type.
LEMMA UnchangedTypes ==
    /\ InsertTypes /\ UNCHANGED insertVars => InsertTypes'
    /\ DissectorTypes /\ UNCHANGED <<waitingPackets, dissectorVars>> => DissectorTypes'
    /\ StreamTypes /\ UNCHANGED streamVars => StreamTypes'
    /\ ContextTypes /\ UNCHANGED contextVars => ContextTypes'
    /\ FilterTypes /\ UNCHANGED <<filterPc, filterId>> => FilterTypes'
    /\ ServerTypes /\ UNCHANGED serverVars => ServerTypes'
<1>1. InsertTypes /\ UNCHANGED insertVars => InsertTypes'
  BY DEF InsertTypes, insertVars
<1>2. DissectorTypes /\ UNCHANGED <<waitingPackets, dissectorVars>> => DissectorTypes'
  BY DEF DissectorTypes, dissectorVars
<1>3. StreamTypes /\ UNCHANGED streamVars => StreamTypes'
  BY DEF StreamTypes, streamVars
<1>4. ContextTypes /\ UNCHANGED contextVars => ContextTypes'
  BY DEF ContextTypes, contextVars
<1>5. FilterTypes /\ UNCHANGED <<filterPc, filterId>> => FilterTypes'
  BY DEF FilterTypes
<1>6. ServerTypes /\ UNCHANGED serverVars => ServerTypes'
  BY DEF ServerTypes, serverVars, requestVars
<1>. QED
  BY <1>1, <1>2, <1>3, <1>4, <1>5, <1>6

\* notify_all changes only the place of waiting threads.
LEMMA NotifiedTypes ==
    /\ FilterTypes /\ filterPc' = Notified(filterPc) /\ UNCHANGED filterId
         => FilterTypes'
    /\ DissectorTypes /\ dissectorPc' = Notified(dissectorPc)
         /\ UNCHANGED <<waitingPackets, packets, maxID, dissecting>> => DissectorTypes'
    /\ StreamTypes /\ streamPc' = NotifiedStream
         /\ UNCHANGED <<streamMaxID, streamCursor>> => StreamTypes'
<1>1. FilterTypes /\ filterPc' = Notified(filterPc) /\ UNCHANGED filterId
         => FilterTypes'
  BY DEF FilterTypes, Notified
<1>2. DissectorTypes /\ dissectorPc' = Notified(dissectorPc)
         /\ UNCHANGED <<waitingPackets, packets, maxID, dissecting>> => DissectorTypes'
  BY DEF DissectorTypes, Notified
<1>3. StreamTypes /\ streamPc' = NotifiedStream
         /\ UNCHANGED <<streamMaxID, streamCursor>> => StreamTypes'
  BY DEF StreamTypes, NotifiedStream
<1>. QED
  BY <1>1, <1>2, <1>3

LEMMA InsertTypeOK ==
    ASSUME TypeOK, NEW p \in Inserters, Insert(p) PROVE TypeOK'
<1>. USE UnchangedTypes, NotifiedTypes DEF TypeOK
<1>1. CASE DropPacket(p)
  <2>1. InsertTypes'
    BY <1>1 DEF DropPacket, InsertTypes
  <2>. QED
    BY <1>1, <2>1 DEF DropPacket, filterVars
<1>2. CASE NumberPacket(p)
  <2>1. InsertTypes'
    BY <1>2 DEF NumberPacket, NextId, InsertTypes
  <2>. QED
    BY <1>2, <2>1 DEF NumberPacket, filterVars
<1>3. CASE PushPacket(p)
  <2>1. InsertTypes'
    BY <1>3 DEF PushPacket, InsertTypes
  <2>2. DissectorTypes'
    BY <1>3 DEF PushPacket, InsertTypes, DissectorTypes, dissectorVars
  <2>. QED
    BY <1>3, <2>1, <2>2 DEF PushPacket, filterVars
<1>4. CASE NotifyDissectors(p)
  <2>1. InsertTypes'
    BY <1>4 DEF NotifyDissectors, InsertTypes
  <2>. QED
    BY <1>4, <2>1 DEF NotifyDissectors, filterVars
<1>. QED
  BY <1>1, <1>2, <1>3, <1>4 DEF Insert

LEMMA DissectTypeOK ==
    ASSUME TypeOK, NEW w \in Dissectors, Dissect(w) PROVE TypeOK'
<1>. USE UnchangedTypes, NotifiedTypes DEF TypeOK
<1>1. CASE DissectorRest(w)
  <2>1. DissectorTypes'
    BY <1>1 DEF DissectorRest, DissectorTypes
  <2>. QED
    BY <1>1, <2>1 DEF DissectorRest, filterVars
<1>2. CASE DissectorTake(w)
  <2>1. DissectorTypes'
    BY <1>2 DEF DissectorTake, DissectorTypes
  <2>. QED
    BY <1>2, <2>1 DEF DissectorTake, filterVars
<1>3. CASE StorePacket(w)
  <2>1. DissectorTypes'
    <3>1. maxID' \in Nat
      BY <1>3 DEF StorePacket, Advanced, DissectorTypes, InsertTypes
    <3>2. packets' \subseteq Nat \ {0}
      <4>1. dissecting[w] \in Nat /\ dissecting[w] # 0
        BY <1>3 DEF StorePacket, DissectorTypes
      <4>2. packets \subseteq Nat \ {0} /\ packets' = packets \cup {dissecting[w]}
        BY <1>3 DEF StorePacket, DissectorTypes
      <4>. QED
        BY <4>1, <4>2
    <3>3. CASE waitingPackets # <<>>
      <4>1. Head(waitingPackets) \in Nat \ {0} /\ Tail(waitingPackets) \in Seq(Nat \ {0})
        BY <3>3 DEF DissectorTypes
      <4>2. /\ dissecting' = [dissecting EXCEPT ![w] = Head(waitingPackets)]
            /\ waitingPackets' = Tail(waitingPackets)
            /\ dissectorPc' = dissectorPc
            /\ dissectorPc[w] = "dissecting"
        BY <1>3, <3>3 DEF StorePacket
      <4>. QED
        BY <3>1, <3>2, <4>1, <4>2 DEF DissectorTypes
    <3>4. CASE waitingPackets = <<>>
      <4>1. /\ dissecting' = [dissecting EXCEPT ![w] = 0]
            /\ waitingPackets' = waitingPackets
            /\ dissectorPc' = [dissectorPc EXCEPT ![w] = "ready"]
        BY <1>3, <3>4 DEF StorePacket
      <4>. QED
        BY <3>1, <3>2, <4>1 DEF DissectorTypes
    <3>. QED
      BY <3>3, <3>4
  <2>2. FilterTypes' /\ StreamTypes'
    BY <1>3 DEF StorePacket, streamVars
  <2>. QED
    BY <1>3, <2>1, <2>2 DEF StorePacket
<1>. QED
  BY <1>1, <1>2, <1>3 DEF Dissect

LEMMA StreamTypeOK == ASSUME TypeOK, Stream PROVE TypeOK'
<1>. USE UnchangedTypes DEF TypeOK
<1>1. StreamTypes'
  BY DEF StreamTypes, Stream, StreamRest, StreamTake, StreamPublish
<1>. QED
  BY <1>1 DEF Stream, StreamRest, StreamTake, StreamPublish, filterVars

LEMMA FilterTypeOK ==
    ASSUME TypeOK, NEW f \in FilterThreads, Filter(f) PROVE TypeOK'
<1>. USE UnchangedTypes DEF TypeOK
<1>1. CASE FilterLoad(f)
  <2>1. FilterTypes'
    BY <1>1 DEF FilterLoad, FilterTypes
  <2>. QED
    BY <1>1, <2>1 DEF FilterLoad, pipelineVars
<1>2. CASE FilterRest(f)
  <2>1. FilterTypes'
    BY <1>2 DEF FilterRest, FilterTypes
  <2>. QED
    BY <1>2, <2>1 DEF FilterRest, pipelineVars
<1>3. CASE FilterTake(f)
  <2>1. FilterTypes'
    BY <1>3 DEF FilterTake, FilterTypes, ContextTypes
  <2>2. ContextTypes'
    BY <1>3 DEF FilterTake, ContextTypes
  <2>. QED
    BY <1>3, <2>1, <2>2 DEF FilterTake, pipelineVars
<1>4. CASE FilterMatch(f)
  <2>1. FilterTypes'
    BY <1>4 DEF FilterMatch, FilterTypes
  <2>2. ContextTypes'
    <3>. DEFINE known   == IF filterId[f] \in Matching[filter]
                           THEN matched \cup {filterId[f]} ELSE matched
                settled == {i \in known : i <= filteredMaxID'}
    <3>1. PICK batch \in Enumerations(settled) : filtered' = filtered \o batch
      BY <1>4 DEF FilterMatch
    <3>2. known \subseteq Nat /\ IsFiniteSet(known)
      BY FS_AddElement DEF ContextTypes, FilterTypes
    <3>3. settled \subseteq Nat /\ IsFiniteSet(settled) /\ IsFiniteSet(known \ settled)
      BY <3>2, FS_Subset
    <3>4. batch \in Seq(Nat)
      BY <3>1, <3>3, EnumerationsLemma
    <3>5. filtered' \in Seq(Nat)
      BY <3>1, <3>4 DEF ContextTypes
    <3>6. matched' \subseteq Nat /\ IsFiniteSet(matched')
      BY <1>4, <3>2, <3>3 DEF FilterMatch
    <3>7. filteredMaxID' \in Nat
      BY <1>4 DEF FilterMatch, Frontier
    <3>8. filtering' \subseteq Nat /\ fetchedMaxID' \in Nat
      BY <1>4 DEF FilterMatch, ContextTypes
    <3>. QED
      BY <3>5, <3>6, <3>7, <3>8 DEF ContextTypes
  <2>. QED
    BY <1>4, <2>1, <2>2 DEF FilterMatch, pipelineVars
<1>. QED
  BY <1>1, <1>2, <1>3, <1>4 DEF Filter

LEMMA InstallTypes ==
    ASSUME NEW g \in Filters \cup {NoFilter}, Install(g)
    PROVE  ContextTypes' /\ FilterTypes'
<1>1. ContextTypes'
  BY FS_EmptySet DEF Install, ContextTypes
<1>2. FilterTypes'
  BY DEF Install, FilterTypes
<1>. QED
  BY <1>1, <1>2

LEMMA RequestTypeOK ==
    ASSUME TypeOK,
           \/ \E g \in Filters : SetNewFilter(g)
           \/ \E g \in Filters \cup {NoFilter} : ReplaceFilter(g)
           \/ Close
    PROVE  TypeOK'
<1>. USE UnchangedTypes DEF TypeOK
<1>1. ASSUME NEW g \in Filters, SetNewFilter(g) PROVE TypeOK'
  <2>1. ServerTypes'
    BY <1>1 DEF SetNewFilter, Install, ServerTypes
  <2>2. ContextTypes' /\ FilterTypes'
    BY <1>1, InstallTypes DEF SetNewFilter
  <2>. QED
    BY <1>1, <2>1, <2>2 DEF SetNewFilter, pipelineVars
<1>2. ASSUME NEW g \in Filters \cup {NoFilter}, ReplaceFilter(g) PROVE TypeOK'
  <2>1. ServerTypes'
    BY <1>2 DEF ReplaceFilter, ServerTypes
  <2>. QED
    BY <1>2, <2>1 DEF ReplaceFilter, pipelineVars, filterVars
<1>3. CASE Close
  <2>1. ServerTypes'
    BY <1>3 DEF Close, ServerTypes
  <2>. QED
    BY <1>3, <2>1 DEF Close, pipelineVars, filterVars
<1>. QED
  BY <1>1, <1>2, <1>3

LEMMA ServerTypeOK == ASSUME TypeOK, ServerContinues PROVE TypeOK'
<1>. USE UnchangedTypes, NotifiedTypes DEF TypeOK
<1>1. ServerTypes'
  BY DEF ServerContinues, NotifyFilters, InstallNext, Install, NotifyAll,
         JoinWorkers, DrainQueue, JoinStream, ServerTypes, requestVars
<1>2. CASE NotifyFilters
  BY <1>1, <1>2 DEF NotifyFilters, pipelineVars
<1>3. CASE InstallNext
  <2>1. ContextTypes' /\ FilterTypes'
    BY <1>3, InstallTypes DEF InstallNext, ServerTypes
  <2>. QED
    BY <1>1, <1>3, <2>1 DEF InstallNext, pipelineVars
<1>4. CASE NotifyAll
  BY <1>1, <1>4 DEF NotifyAll
<1>5. CASE JoinWorkers
  BY <1>1, <1>5 DEF JoinWorkers, pipelineVars, filterVars
<1>6. CASE DrainQueue
  <2>1. waitingPackets' \in Seq(Nat \ {0})
    <3>1. waitingPackets \in Seq(Nat \ {0})
      BY DEF DissectorTypes
    <3>2. CASE waitingPackets # <<>>
      <4>1. waitingPackets' = Tail(waitingPackets)
        BY <1>6, <3>2 DEF DrainQueue
      <4>. QED
        BY <3>1, <3>2, <4>1
    <3>3. CASE waitingPackets = <<>>
      BY <1>6, <3>1, <3>3 DEF DrainQueue
    <3>. QED
      BY <3>2, <3>3
  <2>2. DissectorTypes'
    BY <1>6, <2>1 DEF DrainQueue, DissectorTypes, dissectorVars
  <2>. QED
    BY <1>1, <1>6, <2>2 DEF DrainQueue, filterVars
<1>7. CASE JoinStream
  BY <1>1, <1>7 DEF JoinStream, pipelineVars, filterVars
<1>. QED
  BY <1>2, <1>3, <1>4, <1>5, <1>6, <1>7 DEF ServerContinues

LEMMA SpuriousTypeOK == ASSUME TypeOK, SpuriousWakeup PROVE TypeOK'
<1>. USE UnchangedTypes DEF TypeOK
<1>1. DissectorTypes'
  BY DEF SpuriousWakeup, DissectorTypes
<1>2. StreamTypes'
  BY DEF SpuriousWakeup, StreamTypes
<1>3. FilterTypes'
  BY DEF SpuriousWakeup, FilterTypes
<1>. QED
  BY <1>1, <1>2, <1>3 DEF SpuriousWakeup

LEMMA NextTypeOK == TypeOK /\ [Next]_vars => TypeOK'
<1>. SUFFICES ASSUME TypeOK, [Next]_vars PROVE TypeOK'
  OBVIOUS
<1>1. CASE UNCHANGED vars
  BY <1>1, UnchangedTypes DEF TypeOK, vars, pipelineVars, filterVars
<1>. QED
  BY <1>1, InsertTypeOK, DissectTypeOK, StreamTypeOK, FilterTypeOK,
     RequestTypeOK, ServerTypeOK, SpuriousTypeOK DEF Next, Terminated

\* Every variable keeps its type, and a thread holds a packet exactly while
\* its place in its loop says so (goldfilter/src/dispatcher.cpp).
THEOREM TypeCorrect == Spec => []TypeOK
BY InitTypeOK, NextTypeOK, PTL DEF Spec

-----------------------------------------------------------------------------
(* The places of packets.                                                  *)

\* No place holds an id that has not been given.
GivenInv ==
    /\ \A p \in Inserters : insertId[p] <= count
    /\ \A k \in 1..Len(waitingPackets) : waitingPackets[k] <= count
    /\ \A w \in Dissectors : dissecting[w] <= count
    /\ \A i \in packets : i <= count

\* No two places of a kind hold the same id.
DistinctInv ==
    /\ \A p, q \in Inserters : insertId[p] # 0 /\ insertId[p] = insertId[q] => p = q
    /\ \A j, k \in 1..Len(waitingPackets) : waitingPackets[j] = waitingPackets[k] => j = k
    /\ \A v, w \in Dissectors : dissecting[v] # 0 /\ dissecting[v] = dissecting[w] => v = w

\* No two places of different kinds hold the same id.
ApartInv ==
    /\ \A p \in Inserters, k \in 1..Len(waitingPackets) : insertId[p] # waitingPackets[k]
    /\ \A p \in Inserters, w \in Dissectors : insertId[p] # 0 => insertId[p] # dissecting[w]
    /\ \A p \in Inserters : insertId[p] \notin packets
    /\ \A k \in 1..Len(waitingPackets), w \in Dissectors : waitingPackets[k] # dissecting[w]
    /\ \A k \in 1..Len(waitingPackets) : waitingPackets[k] \notin packets
    /\ \A w \in Dissectors : dissecting[w] \notin packets

Somewhere(i) == \/ \E p \in Inserters : insertId[p] = i
                \/ \E k \in 1..Len(waitingPackets) : waitingPackets[k] = i
                \/ \E w \in Dissectors : dissecting[w] = i
                \/ i \in packets

\* Every id that has been given is somewhere until the destructor runs.
KeptInv ==
    /\ ~exiting => \A i \in 1..count : Somewhere(i)
    /\ serverPc \in {"closing", "joinWorkers", "draining", "joinStream", "closed"}
          => exiting

PlaceInv == GivenInv /\ DistinctInv /\ ApartInv /\ KeptInv

\* The threads that have been given an id and have still to push their packet
\* were let in with fewer than QueueLimit packets in the queue.
Pushes(p) == IF insertPc[p] = "numbered" THEN 1 ELSE 0
BoundInv ==
    Len(waitingPackets) + Pushes("capture") + Pushes("server") + Pushes("stream")
        <= QueueLimit + 2
\* The head of a queue and what is left without it.
LEMMA QueueHead ==
    ASSUME NEW q \in Seq(Nat \ {0}), q # <<>>
    PROVE  /\ 1 \in 1..Len(q) /\ Head(q) = q[1] /\ Tail(q) \in Seq(Nat \ {0})
           /\ Len(Tail(q)) = Len(q) - 1
           /\ \A k \in 1..Len(Tail(q)) : k + 1 \in 1..Len(q) /\ Tail(q)[k] = q[k + 1]
           /\ \A k \in 1..Len(q) :
                 k = 1 \/ (k - 1 \in 1..Len(Tail(q)) /\ Tail(q)[k - 1] = q[k])
<1>1. /\ Len(q) \in Nat /\ Len(q) > 0 /\ Head(q) = q[1]
      /\ Tail(q) \in Seq(Nat \ {0}) /\ Len(Tail(q)) = Len(q) - 1
      /\ \A k \in 1..(Len(q) - 1) : Tail(q)[k] = q[k + 1]
  OBVIOUS
<1>2. \A k \in 1..Len(Tail(q)) : k + 1 \in 1..Len(q) /\ Tail(q)[k] = q[k + 1]
  BY <1>1
<1>3. ASSUME NEW k \in 1..Len(q), k # 1
      PROVE  k - 1 \in 1..Len(Tail(q)) /\ Tail(q)[k - 1] = q[k]
  <2>1. k - 1 \in 1..(Len(q) - 1) /\ (k - 1) + 1 = k
    BY <1>1, <1>3
  <2>. QED
    BY <1>1, <2>1
<1>. QED
  BY <1>1, <1>2, <1>3

\* A queue with one more packet.
LEMMA QueueAppend ==
    ASSUME NEW q \in Seq(Nat \ {0}), NEW i \in Nat \ {0}
    PROVE  /\ Len(Append(q, i)) = Len(q) + 1 /\ Len(q) + 1 \in 1..Len(Append(q, i))
           /\ Append(q, i)[Len(q) + 1] = i
           /\ \A k \in 1..Len(q) : k \in 1..Len(Append(q, i)) /\ Append(q, i)[k] = q[k]
           /\ \A k \in 1..Len(Append(q, i)) : k \in 1..Len(q) \/ k = Len(q) + 1
OBVIOUS

LEMMA PlaceTypes ==
    ASSUME TypeOK
    PROVE  /\ count \in Nat /\ insertId \in [Inserters -> Nat]
           /\ waitingPackets \in Seq(Nat \ {0}) /\ Len(waitingPackets) \in Nat
           /\ \A k \in 1..Len(waitingPackets) : waitingPackets[k] \in Nat \ {0}
           /\ packets \subseteq Nat \ {0}
           /\ dissecting \in [Dissectors -> Nat]
           /\ \A p \in Inserters : insertId[p] = 0 <=> insertPc[p] # "numbered"
           /\ \A w \in Dissectors : dissecting[w] = 0 <=> dissectorPc[w] # "dissecting"
BY DEF TypeOK, InsertTypes, DissectorTypes

LEMMA InitPlaceInv == Init => PlaceInv
<1>. SUFFICES ASSUME Init PROVE PlaceInv
  OBVIOUS
<1>1. GivenInv /\ DistinctInv /\ ApartInv
  BY DEF Init, GivenInv, DistinctInv, ApartInv
<1>2. KeptInv
  BY DEF Init, KeptInv
<1>. QED
  BY <1>1, <1>2 DEF PlaceInv

\* The steps that move no packet.
LEMMA PlaceInvUnchanged ==
    ASSUME PlaceInv, UNCHANGED <<count, insertId, waitingPackets, packets, dissecting>>,
           exiting' = exiting \/ exiting',
           serverPc' \in {"closing", "joinWorkers", "draining", "joinStream", "closed"}
              => exiting'
    PROVE  PlaceInv'
<1>1. GivenInv' /\ DistinctInv' /\ ApartInv'
  BY DEF PlaceInv, GivenInv, DistinctInv, ApartInv
<1>2. KeptInv'
  BY DEF PlaceInv, KeptInv, Somewhere
<1>. QED
  BY <1>1, <1>2 DEF PlaceInv

LEMMA NumberPlaceInv ==
    ASSUME TypeOK, PlaceInv, NEW p \in Inserters, NumberPacket(p)
    PROVE  PlaceInv'
<1>t. /\ count \in Nat /\ insertId \in [Inserters -> Nat]
      /\ \A k \in 1..Len(waitingPackets) : waitingPackets[k] \in Nat \ {0}
      /\ packets \subseteq Nat \ {0} /\ dissecting \in [Dissectors -> Nat]
  BY PlaceTypes
<1>1. /\ count' = count + 1 /\ insertId' = [insertId EXCEPT ![p] = count + 1]
      /\ UNCHANGED <<waitingPackets, packets, dissecting, exiting, serverPc>>
  BY DEF NumberPacket, NextId, dissectorVars, serverVars, requestVars
<1>2. /\ insertPc[p] = "idle"
      /\ insertId[p] = 0
  BY PlaceTypes DEF NumberPacket, MayInsert
<1>3. GivenInv'
  BY <1>t, <1>1 DEF PlaceInv, GivenInv
<1>4. DistinctInv'
  BY <1>t, <1>1 DEF PlaceInv, GivenInv, DistinctInv
<1>5. ApartInv'
  BY <1>t, <1>1 DEF PlaceInv, GivenInv, ApartInv
<1>6. KeptInv'
  <2>1. ASSUME ~exiting', NEW i \in 1..count' PROVE Somewhere(i)'
    <3>1. CASE i = count + 1
      BY <1>t, <1>1, <3>1 DEF Somewhere
    <3>2. CASE i # count + 1
      <4>1. i \in 1..count /\ Somewhere(i)
        BY <1>t, <1>1, <2>1, <3>2 DEF PlaceInv, KeptInv
      <4>2. i # 0
        BY <4>1
      <4>. QED
        BY <1>t, <1>1, <1>2, <4>1, <4>2 DEF Somewhere
    <3>. QED
      BY <3>1, <3>2
  <2>. QED
    BY <1>1, <2>1 DEF PlaceInv, KeptInv
<1>. QED
  BY <1>3, <1>4, <1>5, <1>6 DEF PlaceInv

LEMMA PushPlaceInv ==
    ASSUME TypeOK, PlaceInv, NEW p \in Inserters, PushPacket(p)
    PROVE  PlaceInv'
<1>. DEFINE n == Len(waitingPackets) + 1
<1>t. /\ count \in Nat /\ insertId \in [Inserters -> Nat]
      /\ waitingPackets \in Seq(Nat \ {0}) /\ Len(waitingPackets) \in Nat
      /\ \A k \in 1..Len(waitingPackets) : waitingPackets[k] \in Nat \ {0}
      /\ packets \subseteq Nat \ {0} /\ dissecting \in [Dissectors -> Nat]
  BY PlaceTypes
<1>1. /\ waitingPackets' = Append(waitingPackets, insertId[p])
      /\ insertId' = [insertId EXCEPT ![p] = 0]
      /\ UNCHANGED <<count, packets, dissecting, exiting, serverPc>>
  BY DEF PushPacket, dissectorVars, serverVars, requestVars
<1>2. insertId[p] \in Nat \ {0}
  BY <1>t, PlaceTypes DEF PushPacket
<1>3. /\ n \in 1..Len(waitingPackets') /\ waitingPackets'[n] = insertId[p]
      /\ \A k \in 1..Len(waitingPackets) :
            k \in 1..Len(waitingPackets') /\ waitingPackets'[k] = waitingPackets[k]
      /\ \A k \in 1..Len(waitingPackets') : k \in 1..Len(waitingPackets) \/ k = n
  BY <1>t, <1>1, <1>2, QueueAppend
<1>. HIDE DEF n
<1>4. GivenInv'
  BY <1>t, <1>1, <1>2, <1>3 DEF PlaceInv, GivenInv
<1>5. DistinctInv'
  <2>1. \A q, r \in Inserters : insertId'[q] # 0 /\ insertId'[q] = insertId'[r] => q = r
    BY <1>t, <1>1 DEF PlaceInv, DistinctInv
  <2>2. \A j, k \in 1..Len(waitingPackets') :
           waitingPackets'[j] = waitingPackets'[k] => j = k
    BY <1>t, <1>3 DEF PlaceInv, DistinctInv, ApartInv
  <2>. QED
    BY <1>1, <2>1, <2>2 DEF PlaceInv, DistinctInv
<1>6. ApartInv'
  <2>1. \A q \in Inserters, k \in 1..Len(waitingPackets') : insertId'[q] # waitingPackets'[k]
    <3>. SUFFICES ASSUME NEW q \in Inserters, NEW k \in 1..Len(waitingPackets')
                  PROVE  insertId'[q] # waitingPackets'[k]
      OBVIOUS
    <3>1. CASE q = p
      BY <1>t, <1>1, <1>2, <1>3, <3>1
    <3>2. CASE q # p
      BY <1>t, <1>1, <1>2, <1>3, <3>2 DEF PlaceInv, ApartInv, DistinctInv
    <3>. QED
      BY <3>1, <3>2
  <2>2. \A q \in Inserters, w \in Dissectors :
           insertId'[q] # 0 => insertId'[q] # dissecting'[w]
    BY <1>t, <1>1 DEF PlaceInv, ApartInv
  <2>3. \A q \in Inserters : insertId'[q] \notin packets'
    BY <1>t, <1>1 DEF PlaceInv, ApartInv
  <2>4. \A k \in 1..Len(waitingPackets'), w \in Dissectors :
           waitingPackets'[k] # dissecting'[w]
    BY <1>1, <1>2, <1>3 DEF PlaceInv, ApartInv
  <2>5. \A k \in 1..Len(waitingPackets') : waitingPackets'[k] \notin packets'
    BY <1>1, <1>3 DEF PlaceInv, ApartInv
  <2>. QED
    BY <1>1, <2>1, <2>2, <2>3, <2>4, <2>5 DEF PlaceInv, ApartInv
<1>7. KeptInv'
  <2>1. ASSUME ~exiting', NEW i \in 1..count' PROVE Somewhere(i)'
    <3>1. Somewhere(i)
      BY <1>1, <2>1 DEF PlaceInv, KeptInv
    <3>2. CASE insertId[p] = i
      BY <1>3, <3>2 DEF Somewhere
    <3>3. CASE insertId[p] # i
      BY <1>t, <1>1, <1>3, <3>1, <3>3 DEF Somewhere
    <3>. QED
      BY <3>2, <3>3
  <2>. QED
    BY <1>1, <2>1 DEF PlaceInv, KeptInv
<1>. QED
  BY <1>4, <1>5, <1>6, <1>7 DEF PlaceInv

\* A dissector stores the packet it holds, if it holds one, and takes the
\* head of the queue.
LEMMA HeadPlaceInv ==
    ASSUME TypeOK, PlaceInv, NEW w \in Dissectors, waitingPackets # <<>>,
           dissecting' = [dissecting EXCEPT ![w] = Head(waitingPackets)],
           waitingPackets' = Tail(waitingPackets),
           packets' = packets \cup ({dissecting[w]} \ {0}),
           UNCHANGED <<count, insertId, exiting, serverPc>>
    PROVE  PlaceInv'
<1>t. /\ count \in Nat /\ insertId \in [Inserters -> Nat]
      /\ waitingPackets \in Seq(Nat \ {0})
      /\ \A k \in 1..Len(waitingPackets) : waitingPackets[k] \in Nat \ {0}
      /\ packets \subseteq Nat \ {0} /\ dissecting \in [Dissectors -> Nat]
  BY PlaceTypes
<1>1. /\ 1 \in 1..Len(waitingPackets) /\ Head(waitingPackets) = waitingPackets[1]
      /\ \A k \in 1..Len(waitingPackets') :
            /\ k + 1 \in 1..Len(waitingPackets)
            /\ waitingPackets'[k] = waitingPackets[k + 1]
      /\ \A k \in 1..Len(waitingPackets) :
            k = 1 \/ (k - 1 \in 1..Len(waitingPackets')
                        /\ waitingPackets'[k - 1] = waitingPackets[k])
  BY <1>t, QueueHead
<1>2. /\ dissecting'[w] = waitingPackets[1]
      /\ \A v \in Dissectors \ {w} : dissecting'[v] = dissecting[v]
  BY <1>t, <1>1
<1>3. \A k \in 1..Len(waitingPackets') : k + 1 # 1
  OBVIOUS
<1>4. GivenInv'
  BY <1>t, <1>1, <1>2 DEF PlaceInv, GivenInv
<1>5. DistinctInv'
  <2>1. \A p, q \in Inserters : insertId'[p] # 0 /\ insertId'[p] = insertId'[q] => p = q
    BY DEF PlaceInv, DistinctInv
  <2>2. ASSUME NEW j \in 1..Len(waitingPackets'), NEW k \in 1..Len(waitingPackets'),
               waitingPackets'[j] = waitingPackets'[k]
        PROVE  j = k
    <3>1. j + 1 = k + 1
      BY <1>1, <2>2 DEF PlaceInv, DistinctInv
    <3>. QED
      BY <3>1
  <2>3. \A v, u \in Dissectors : dissecting'[v] # 0 /\ dissecting'[v] = dissecting'[u] => v = u
    BY <1>1, <1>2 DEF PlaceInv, DistinctInv, ApartInv
  <2>. QED
    BY <2>1, <2>2, <2>3 DEF DistinctInv
<1>6. ApartInv'
  <2>1. \A p \in Inserters, k \in 1..Len(waitingPackets') : insertId'[p] # waitingPackets'[k]
    BY <1>1 DEF PlaceInv, ApartInv
  <2>2. \A p \in Inserters, v \in Dissectors :
           insertId'[p] # 0 => insertId'[p] # dissecting'[v]
    BY <1>1, <1>2 DEF PlaceInv, ApartInv
  <2>3. \A p \in Inserters : insertId'[p] \notin packets'
    BY <1>t DEF PlaceInv, ApartInv
  <2>4. ASSUME NEW k \in 1..Len(waitingPackets'), NEW v \in Dissectors
        PROVE  waitingPackets'[k] # dissecting'[v]
    BY <1>1, <1>2, <1>3 DEF PlaceInv, ApartInv, DistinctInv
  <2>5. \A k \in 1..Len(waitingPackets') : waitingPackets'[k] \notin packets'
    BY <1>1 DEF PlaceInv, ApartInv
  <2>6. ASSUME NEW v \in Dissectors PROVE dissecting'[v] \notin packets'
    <3>1. CASE v = w
      BY <1>1, <1>2, <3>1 DEF PlaceInv, ApartInv
    <3>2. CASE v # w
      BY <1>2, <3>2 DEF PlaceInv, ApartInv, DistinctInv
    <3>. QED
      BY <3>1, <3>2
  <2>. QED
    BY <2>1, <2>2, <2>3, <2>4, <2>5, <2>6 DEF ApartInv
<1>7. KeptInv'
  <2>1. ASSUME ~exiting', NEW i \in 1..count' PROVE Somewhere(i)'
    <3>1. Somewhere(i) /\ i # 0
      BY <2>1 DEF PlaceInv, KeptInv
    <3>2. CASE \E k \in 1..Len(waitingPackets) : waitingPackets[k] = i
      BY <1>1, <1>2, <3>2 DEF Somewhere
    <3>3. CASE \E v \in Dissectors : dissecting[v] = i
      BY <1>2, <3>1, <3>3 DEF Somewhere
    <3>. QED
      BY <3>1, <3>2, <3>3 DEF Somewhere
  <2>. QED
    BY <2>1 DEF PlaceInv, KeptInv
<1>. QED
  BY <1>4, <1>5, <1>6, <1>7 DEF PlaceInv

LEMMA DissectPlaceInv ==
    ASSUME TypeOK, PlaceInv, NEW w \in Dissectors, Dissect(w)
    PROVE  PlaceInv'
<1>1. CASE DissectorRest(w)
  BY <1>1, PlaceInvUnchanged DEF DissectorRest, insertVars, serverVars, requestVars,
     PlaceInv, KeptInv
<1>2. CASE DissectorTake(w)
  <2>1. dissecting[w] = 0
    BY <1>2, PlaceTypes DEF DissectorTake
  <2>. QED
    BY <1>2, <2>1, HeadPlaceInv DEF DissectorTake, insertVars, serverVars, requestVars
<1>3. CASE StorePacket(w)
  <2>1. /\ packets' = packets \cup {dissecting[w]}
        /\ UNCHANGED <<count, insertId, exiting, serverPc>>
    BY <1>3 DEF StorePacket, insertVars, serverVars, requestVars
  <2>2. dissecting[w] # 0
    BY <1>3, PlaceTypes DEF StorePacket
  <2>3. CASE waitingPackets # <<>>
    BY <1>3, <2>1, <2>2, <2>3, HeadPlaceInv DEF StorePacket
  <2>4. CASE waitingPackets = <<>>
    <3>1. /\ dissecting' = [dissecting EXCEPT ![w] = 0]
          /\ waitingPackets' = waitingPackets
      BY <1>3, <2>4 DEF StorePacket
    <3>2. /\ dissecting \in [Dissectors -> Nat] /\ insertId \in [Inserters -> Nat]
          /\ packets \subseteq Nat \ {0} /\ count \in Nat
      BY PlaceTypes
    <3>3. dissecting'[w] = 0 /\ \A v \in Dissectors \ {w} : dissecting'[v] = dissecting[v]
      BY <3>1, <3>2
    <3>4. GivenInv'
      BY <2>1, <3>1, <3>2, <3>3 DEF PlaceInv, GivenInv
    <3>5. DistinctInv'
      BY <2>1, <3>1, <3>2, <3>3 DEF PlaceInv, DistinctInv
    <3>6. ApartInv'
      BY <2>1, <2>2, <2>4, <3>1, <3>2, <3>3 DEF PlaceInv, ApartInv, DistinctInv
    <3>7. KeptInv'
      BY <2>1, <3>1, <3>2, <3>3 DEF PlaceInv, KeptInv, Somewhere
    <3>. QED
      BY <3>4, <3>5, <3>6, <3>7 DEF PlaceInv
  <2>. QED
    BY <2>3, <2>4
<1>. QED
  BY <1>1, <1>2, <1>3 DEF Dissect

\* The destructor throws away the head of the queue.
LEMMA DrainPlaceInv ==
    ASSUME TypeOK, PlaceInv, DrainQueue
    PROVE  PlaceInv'
<1>1. UNCHANGED <<count, insertId, packets, dissecting, exiting>>
  BY DEF DrainQueue, insertVars, dissectorVars, requestVars
<1>2. exiting
  BY DEF DrainQueue, PlaceInv, KeptInv
<1>3. CASE waitingPackets = <<>>
  BY <1>1, <1>2, <1>3, PlaceInvUnchanged DEF DrainQueue
<1>4. CASE waitingPackets # <<>>
  <2>1. waitingPackets' = Tail(waitingPackets) /\ waitingPackets \in Seq(Nat \ {0})
    BY <1>4, PlaceTypes DEF DrainQueue
  <2>2. \A k \in 1..Len(waitingPackets') :
           k + 1 \in 1..Len(waitingPackets) /\ waitingPackets'[k] = waitingPackets[k + 1]
    BY <1>4, <2>1, QueueHead
  <2>3. GivenInv'
    BY <1>1, <2>2 DEF PlaceInv, GivenInv
  <2>4. ASSUME NEW j \in 1..Len(waitingPackets'), NEW k \in 1..Len(waitingPackets'),
               waitingPackets'[j] = waitingPackets'[k]
        PROVE  j = k
    <3>1. j + 1 = k + 1
      BY <2>2, <2>4 DEF PlaceInv, DistinctInv
    <3>. QED
      BY <3>1
  <2>5. DistinctInv'
    BY <1>1, <2>4 DEF PlaceInv, DistinctInv
  <2>6. ApartInv'
    BY <1>1, <2>2 DEF PlaceInv, ApartInv
  <2>7. KeptInv'
    BY <1>1, <1>2 DEF KeptInv
  <2>. QED
    BY <2>3, <2>5, <2>6, <2>7 DEF PlaceInv
<1>. QED
  BY <1>3, <1>4

LEMMA NextPlaceInv == TypeOK /\ PlaceInv /\ [Next]_vars => PlaceInv'
<1>. SUFFICES ASSUME TypeOK, PlaceInv, [Next]_vars PROVE PlaceInv'
  OBVIOUS
<1>k. serverPc \in {"closing", "joinWorkers", "draining", "joinStream", "closed"}
         => exiting
  BY DEF PlaceInv, KeptInv
<1>1. ASSUME NEW p \in Inserters, Insert(p) PROVE PlaceInv'
  <2>1. CASE DropPacket(p) \/ NotifyDissectors(p)
    BY <1>k, <2>1, PlaceInvUnchanged DEF DropPacket, NotifyDissectors, dissectorVars,
       serverVars, requestVars
  <2>. QED
    BY <1>1, <2>1, NumberPlaceInv, PushPlaceInv DEF Insert
<1>2. ASSUME Stream PROVE PlaceInv'
  BY <1>k, <1>2, PlaceInvUnchanged DEF Stream, StreamRest, StreamTake, StreamPublish,
     insertVars, dissectorVars, serverVars, requestVars
<1>3. ASSUME NEW f \in FilterThreads, Filter(f) PROVE PlaceInv'
  BY <1>k, <1>3, PlaceInvUnchanged DEF Filter, FilterLoad, FilterRest, FilterTake,
     FilterMatch, pipelineVars, insertVars, dissectorVars, serverVars, requestVars
<1>4. ASSUME NEW g \in Filters, SetNewFilter(g) PROVE PlaceInv'
  BY <1>k, <1>4, PlaceInvUnchanged DEF SetNewFilter, pipelineVars, insertVars, dissectorVars
<1>5. ASSUME NEW g \in Filters \cup {NoFilter}, ReplaceFilter(g) PROVE PlaceInv'
  BY <1>k, <1>5, PlaceInvUnchanged DEF ReplaceFilter, pipelineVars, insertVars, dissectorVars
<1>6. ASSUME Close PROVE PlaceInv'
  BY <1>k, <1>6, PlaceInvUnchanged DEF Close, pipelineVars, insertVars, dissectorVars
<1>7. ASSUME ServerContinues PROVE PlaceInv'
  <2>1. CASE NotifyFilters \/ InstallNext \/ NotifyAll \/ JoinWorkers \/ JoinStream
    BY <1>k, <2>1, PlaceInvUnchanged DEF NotifyFilters, InstallNext, NotifyAll,
       JoinWorkers, JoinStream, pipelineVars, insertVars, dissectorVars, requestVars
  <2>. QED
    BY <1>7, <2>1, DrainPlaceInv DEF ServerContinues
<1>8. ASSUME SpuriousWakeup PROVE PlaceInv'
  BY <1>k, <1>8, PlaceInvUnchanged DEF SpuriousWakeup, insertVars, serverVars, requestVars
<1>9. ASSUME UNCHANGED vars PROVE PlaceInv'
  BY <1>k, <1>9, PlaceInvUnchanged DEF vars, pipelineVars, insertVars, dissectorVars,
     serverVars, requestVars
<1>. QED
  BY <1>1, <1>2, <1>3, <1>4, <1>5, <1>6, <1>7, <1>8, <1>9, DissectPlaceInv
     DEF Next, Terminated

LEMMA PlaceInvariant == Spec => []PlaceInv
BY InitPlaceInv, NextPlaceInv, TypeCorrect, PTL DEF Spec

-----------------------------------------------------------------------------
(* The length of the queue.                                                *)

\* A dissector or the destructor only shortens the queue.
LEMMA ShorterQueue ==
    ASSUME TypeOK, BoundInv, UNCHANGED insertPc,
           waitingPackets' = waitingPackets
             \/ (waitingPackets # <<>> /\ waitingPackets' = Tail(waitingPackets))
    PROVE  BoundInv'
<1>1. waitingPackets \in Seq(Nat \ {0}) /\ Len(waitingPackets) \in Nat
  BY PlaceTypes
<1>2. Len(waitingPackets') \in Nat /\ Len(waitingPackets') <= Len(waitingPackets)
  BY <1>1, QueueHead
<1>3. \A p \in Inserters : Pushes(p) \in Nat /\ Pushes(p)' = Pushes(p)
  BY DEF Pushes
<1>. QED
  BY <1>1, <1>2, <1>3, ConstantsAssumption DEF BoundInv, Inserters

LEMMA InsertBoundInv ==
    ASSUME TypeOK, BoundInv, NEW p \in Inserters, Insert(p)
    PROVE  BoundInv'
<1>t. /\ waitingPackets \in Seq(Nat \ {0}) /\ Len(waitingPackets) \in Nat
      /\ insertPc \in [Inserters -> {"idle", "numbered", "pushed"}]
      /\ QueueLimit \in Nat
  BY PlaceTypes, ConstantsAssumption DEF TypeOK, InsertTypes
<1>1. CASE DropPacket(p)
  BY <1>1, ShorterQueue DEF DropPacket
<1>2. CASE NumberPacket(p)
  <2>1. waitingPackets' = waitingPackets /\ Len(waitingPackets) < QueueLimit
    BY <1>t, <1>2 DEF NumberPacket, QueueFull
  <2>2. \A q \in Inserters : Pushes(q)' \in {0, 1}
    BY DEF Pushes
  <2>. QED
    BY <1>t, <2>1, <2>2 DEF BoundInv, Inserters
<1>3. CASE PushPacket(p)
  <2>1. /\ Len(waitingPackets') = Len(waitingPackets) + 1
        /\ Pushes(p) = 1 /\ Pushes(p)' = 0
        /\ \A q \in Inserters \ {p} : Pushes(q)' = Pushes(q)
    <3>1. /\ insertPc[p] = "numbered"
          /\ insertPc' = [insertPc EXCEPT ![p] = "pushed"]
          /\ waitingPackets' = Append(waitingPackets, insertId[p])
      BY <1>3 DEF PushPacket
    <3>2. Len(waitingPackets') = Len(waitingPackets) + 1
      BY <1>t, <3>1
    <3>. QED
      BY <1>t, <3>1, <3>2 DEF Pushes
  <2>2. \A q \in Inserters : Pushes(q) \in {0, 1}
    BY DEF Pushes
  <2>. QED
    BY <1>t, <2>1, <2>2 DEF BoundInv, Inserters
<1>4. CASE NotifyDissectors(p)
  <2>1. waitingPackets' = waitingPackets
    BY <1>4 DEF NotifyDissectors
  <2>2. \A q \in Inserters : Pushes(q)' = Pushes(q)
    BY <1>t, <1>4 DEF NotifyDissectors, Pushes
  <2>. QED
    BY <2>1, <2>2 DEF BoundInv, Inserters
<1>. QED
  BY <1>1, <1>2, <1>3, <1>4 DEF Insert

LEMMA NextBoundInv == TypeOK /\ BoundInv /\ [Next]_vars => BoundInv'
<1>. SUFFICES ASSUME TypeOK, BoundInv, [Next]_vars PROVE BoundInv'
  OBVIOUS
<1>1. ASSUME NEW w \in Dissectors, Dissect(w) PROVE BoundInv'
  BY <1>1, ShorterQueue DEF Dissect, DissectorRest, DissectorTake, StorePacket, insertVars
<1>2. ASSUME Stream PROVE BoundInv'
  BY <1>2, ShorterQueue DEF Stream, StreamRest, StreamTake, StreamPublish, insertVars
<1>3. ASSUME NEW f \in FilterThreads, Filter(f) PROVE BoundInv'
  BY <1>3, ShorterQueue DEF Filter, FilterLoad, FilterRest, FilterTake, FilterMatch,
     pipelineVars, insertVars
<1>4. ASSUME \/ \E g \in Filters : SetNewFilter(g)
             \/ \E g \in Filters \cup {NoFilter} : ReplaceFilter(g)
             \/ Close
      PROVE  BoundInv'
  BY <1>4, ShorterQueue DEF SetNewFilter, ReplaceFilter, Close, pipelineVars, insertVars
<1>5. ASSUME ServerContinues PROVE BoundInv'
  BY <1>5, ShorterQueue DEF ServerContinues, NotifyFilters, InstallNext, NotifyAll,
     JoinWorkers, DrainQueue, JoinStream, pipelineVars, insertVars
<1>6. ASSUME SpuriousWakeup PROVE BoundInv'
  BY <1>6, ShorterQueue DEF SpuriousWakeup, insertVars
<1>7. ASSUME UNCHANGED vars PROVE BoundInv'
  BY <1>7, ShorterQueue DEF vars, pipelineVars, insertVars
<1>. QED
  BY <1>1, <1>2, <1>3, <1>4, <1>5, <1>6, <1>7, InsertBoundInv DEF Next, Terminated

LEMMA BoundInvariant == Spec => []BoundInv
<1>1. Init => BoundInv
  BY ConstantsAssumption DEF Init, BoundInv, Pushes, Inserters
<1>. QED
  BY <1>1, NextBoundInv, TypeCorrect, PTL DEF Spec

\* There are three inserting threads: two can pass the check beside the one
\* that pushes.
LEMMA ThreeInserters == Cardinality(Inserters) = 3
<1>1. IsFiniteSet({}) /\ Cardinality({}) = 0
  BY FS_EmptySet
<1>2. IsFiniteSet({} \cup {"stream"}) /\ Cardinality({} \cup {"stream"}) = 1
  BY <1>1, FS_AddElement
<1>3. /\ IsFiniteSet(({} \cup {"stream"}) \cup {"server"})
      /\ Cardinality(({} \cup {"stream"}) \cup {"server"}) = 2
  BY <1>2, FS_AddElement
<1>4. Cardinality((({} \cup {"stream"}) \cup {"server"}) \cup {"capture"}) = 3
  BY <1>3, FS_AddElement
<1>5. Inserters = (({} \cup {"stream"}) \cup {"server"}) \cup {"capture"}
  BY DEF Inserters
<1>. QED
  BY <1>4, <1>5

-----------------------------------------------------------------------------

LEMMA PlacesAreOne ==
    ASSUME TypeOK, PlaceInv
    PROVE  OnePlacePerPacket
<1>. SUFFICES ASSUME NEW i \in 1..count
              PROVE  /\ \A x, y \in Places(i) : x = y
                     /\ ~exiting => Places(i) # {}
  BY DEF OnePlacePerPacket
<1>0. i # 0
  OBVIOUS
<1>1. ASSUME NEW x \in Places(i), NEW y \in Places(i) PROVE x = y
  <2>1. ASSUME NEW z \in Places(i)
        PROVE  \/ \E p \in Inserters : insertId[p] = i /\ z = <<"insert", p>>
               \/ \E k \in 1..Len(waitingPackets) : waitingPackets[k] = i /\ z = <<"queue", k>>
               \/ \E w \in Dissectors : dissecting[w] = i /\ z = <<"dissector", w>>
               \/ i \in packets /\ z = <<"stored", 0>>
    BY DEF Places
  <2>2. CASE \E p \in Inserters : insertId[p] = i /\ x = <<"insert", p>>
    BY <1>0, <2>1, <2>2 DEF PlaceInv, DistinctInv, ApartInv
  <2>3. CASE \E k \in 1..Len(waitingPackets) : waitingPackets[k] = i /\ x = <<"queue", k>>
    BY <1>0, <2>1, <2>3 DEF PlaceInv, DistinctInv, ApartInv
  <2>4. CASE \E w \in Dissectors : dissecting[w] = i /\ x = <<"dissector", w>>
    BY <1>0, <2>1, <2>4 DEF PlaceInv, DistinctInv, ApartInv
  <2>5. CASE i \in packets /\ x = <<"stored", 0>>
    BY <1>0, <2>1, <2>5 DEF PlaceInv, ApartInv
  <2>. QED
    BY <2>1, <2>2, <2>3, <2>4, <2>5
<1>2. ASSUME Somewhere(i) PROVE Places(i) # {}
  <2>1. ASSUME NEW p \in Inserters, insertId[p] = i PROVE <<"insert", p>> \in Places(i)
    BY <2>1 DEF Places
  <2>2. ASSUME NEW k \in 1..Len(waitingPackets), waitingPackets[k] = i
        PROVE  <<"queue", k>> \in Places(i)
    BY <2>2 DEF Places
  <2>3. ASSUME NEW w \in Dissectors, dissecting[w] = i
        PROVE  <<"dissector", w>> \in Places(i)
    BY <2>3 DEF Places
  <2>4. i \in packets => <<"stored", 0>> \in Places(i)
    BY DEF Places
  <2>. QED
    BY <1>2, <2>1, <2>2, <2>3, <2>4 DEF Somewhere
<1>. QED
  BY <1>1, <1>2 DEF PlaceInv, KeptInv

LEMMA QueueStaysInBound ==
    ASSUME TypeOK, BoundInv
    PROVE  QueueIsBounded
<1>1. \A p \in Inserters : Pushes(p) \in Nat
  BY DEF Pushes
<1>2. Len(waitingPackets) \in Nat /\ QueueLimit \in Nat
  BY PlaceTypes, ConstantsAssumption
<1>3. QueueBound = QueueLimit + 2
  BY <1>2, ThreeInserters DEF QueueBound
<1>. QED
  BY <1>1, <1>2, <1>3 DEF BoundInv, QueueIsBounded, Inserters

\* From insert() to the cache a packet is always in exactly one place until
\* the destructor runs, and never in two; the check and the push of insert()
\* are two critical sections, so waitingPackets exceeds its limit, but by no
\* more than the other two inserting threads
\* (goldfilter/src/dispatcher.cpp, insert and the dissector threads).
THEOREM QueueSound == Spec => []QueueIsSound
<1>1. TypeOK /\ PlaceInv /\ BoundInv => QueueIsSound
  BY PlacesAreOne, QueueStaysInBound DEF QueueIsSound
<1>. QED
  BY <1>1, TypeCorrect, PlaceInvariant, BoundInvariant, PTL
=============================================================================
