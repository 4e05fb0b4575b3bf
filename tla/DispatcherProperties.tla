------------------------ MODULE DispatcherProperties ------------------------
(***************************************************************************)
(* What the dispatcher has to guarantee, and the abstract log it           *)
(* implements.                                                             *)
(***************************************************************************)
EXTENDS Dispatcher

-----------------------------------------------------------------------------
(* What readers of the dispatcher are served.                              *)

\* getFiltered(name, start, end): positions start..end of the result list.
\* start - 1 wraps around for start = 0 and lies past every list.
Page(start, end) ==
    IF start = 0 \/ start > end
    THEN <<>>
    ELSE [i \in 1..(IF end <= Len(filtered) THEN end - start + 1
                    ELSE IF start <= Len(filtered) THEN Len(filtered) - start + 1
                    ELSE 0) |-> filtered[start + i - 1]]

-----------------------------------------------------------------------------
(* Properties.                                                             *)

InsertTypes ==
    /\ count \in Nat /\ dropped \in Nat
    /\ insertPc \in [Inserters -> {"idle", "numbered", "pushed"}]
    /\ insertId \in [Inserters -> Nat]
    /\ \A p \in Inserters : insertId[p] = 0 <=> insertPc[p] # "numbered"

DissectorTypes ==
    /\ waitingPackets \in Seq(Nat \ {0})
    /\ packets \subseteq Nat \ {0}
    /\ maxID \in Nat
    /\ dissectorPc \in [Dissectors -> {"ready", "waiting", "dissecting", "done"}]
    /\ dissecting \in [Dissectors -> Nat]
    /\ \A w \in Dissectors : dissecting[w] = 0 <=> dissectorPc[w] # "dissecting"

StreamTypes ==
    /\ streamMaxID \in Nat /\ streamCursor \in Nat
    /\ streamPc \in {"ready", "waiting", "visiting", "done"}

ContextTypes ==
    /\ fetchedMaxID \in Nat /\ filteredMaxID \in Nat
    /\ matched \subseteq Nat /\ IsFiniteSet(matched)
    /\ filtering \subseteq Nat
    /\ filtered \in Seq(Nat)

FilterTypes ==
    /\ filterPc \in [FilterThreads ->
                        {"loading", "ready", "waiting", "filtering", "done"}]
    /\ filterId \in [FilterThreads -> Nat]
    /\ \A f \in FilterThreads : filterId[f] = 0 <=> filterPc[f] # "filtering"

ServerTypes ==
    /\ exiting \in BOOLEAN /\ filterExiting \in BOOLEAN
    /\ filter \in Filters \cup {NoFilter}
    /\ nextFilter \in Filters \cup {NoFilter}
    /\ serverPc \in {"idle", "stopping", "joining", "closing", "joinWorkers",
                     "draining", "joinStream", "closed"}

\* Every variable has its type; the ids in hand are 0 exactly when the
\* thread's place in its loop says it holds none.
TypeOK == /\ InsertTypes
          /\ DissectorTypes
          /\ StreamTypes
          /\ ContextTypes
          /\ FilterTypes
          /\ ServerTypes

\* Where the packet with id i is.
Places(i) ==
    {<<"insert", p>> : p \in {q \in Inserters : insertId[q] = i}}
    \cup {<<"queue", k>> : k \in {j \in 1..Len(waitingPackets) :
                                     waitingPackets[j] = i}}
    \cup {<<"dissector", w>> : w \in {v \in Dissectors : dissecting[v] = i}}
    \cup (IF i \in packets THEN {<<"stored", 0>>} ELSE {})

\* No id is lost and none exists twice: from insert() to the cache a packet
\* is in the hands of one inserting thread, in the queue once, in the hands
\* of one dissector or stored.  Only the destructor throws packets away.
OnePlacePerPacket ==
    \A i \in 1..count :
        /\ \A x, y \in Places(i) : x = y
        /\ ~exiting => Places(i) # {}

\* The stages never overtake each other, and maxID is exactly the end of the
\* gapless prefix of stored ids although dissectors finish in any order.
PipelineOrder ==
    /\ filteredMaxID <= fetchedMaxID
    /\ fetchedMaxID <= streamMaxID
    /\ streamMaxID <= streamCursor
    /\ streamCursor <= maxID
    /\ maxID <= count
    /\ 1..maxID \subseteq packets
    /\ maxID + 1 \notin packets

\* A packet object is shared: what get() by range serves and what a filter
\* thread reads outside the mutex is no longer written by a dissector or by
\* the stream thread, which both analyse packets outside the mutex.
ReadersSeeFinishedPackets ==
    /\ \A i \in 1..streamMaxID :
        /\ i \in packets
        /\ \A w \in Dissectors : dissecting[w] # i
        /\ ~(streamPc = "visiting" /\ streamCursor = i)
    /\ \A f \in FilterThreads : filterId[f] <= streamMaxID

\* The result list of the filter is exactly the matches among the first
\* filteredMaxID packets in ascending order, although the filter threads
\* finish in any order.
FilteredIsExact ==
    /\ filter = NoFilter => filtered = <<>>
    /\ filter # NoFilter =>
          /\ Ascending(filtered)
          /\ Elements(filtered) = Matching[filter] \cap (1..filteredMaxID)

\* Once no packet is being matched, every packet fetched so far is settled
\* and every recorded match is in the result list.
NoMatchHeldBack ==
    filtering = {} => matched = {} /\ filteredMaxID = fetchedMaxID

\* The length check and the push are two critical sections: each of the
\* other inserting threads can pass the check before the push.
QueueBound == QueueLimit + Cardinality(Inserters) - 1
QueueIsBounded == Len(waitingPackets) <= QueueBound

\* On its way to the cache no packet is lost or doubled, and the queue is
\* exceeded by no more than the threads that insert into it.
QueueIsSound == OnePlacePerPacket /\ QueueIsBounded

\* Clients page through the result list by position: as long as the filter is
\* not replaced, what a position showed once it shows for ever.
PagesAreStable ==
    [][~InstallNext =>
          \A start, end \in 1..MaxPackets : \A i \in DOMAIN Page(start, end) :
              /\ i \in DOMAIN Page(start, end)'
              /\ Page(start, end)'[i] = Page(start, end)[i]]_vars

\* Every accepted packet becomes readable: no notification of cond or
\* streamCond is lost, whatever the dissectors' order.
EveryPacketIsPublished ==
    \A i \in 1..MaxPackets : (count >= i) ~> (streamMaxID >= i \/ exiting)

\* setFilter() and ~Dispatcher() return: no thread they join sleeps on.
ServerReturns == (serverPc # "idle") ~> (serverPc \in {"idle", "closed"})

FilterAsleep == \A f \in FilterThreads : filterPc[f] \in {"waiting", "done"}

\* A filter that has fetched a packet settles it; it falls behind for good
\* only when all its threads sleep before the packet is fetched.
FetchedIsSettled ==
    \A i \in 1..MaxPackets :
        (streamMaxID >= i)
            ~> (filteredMaxID >= i \/ FilterStops
                \/ (FilterAsleep /\ fetchedMaxID < i))

\* The predicate of the filter workers' wait says when a worker has to run:
\* while streamMaxID > fetchedMaxID.  So a working filter would reach every
\* readable packet.  It does not: streamMaxID grows without a notification.
FilterCatchesUp ==
    \A i \in 1..MaxPackets :
        (streamMaxID >= i /\ filter \notin Broken \cup {NoFilter})
            ~> (filteredMaxID >= i \/ FilterStops)

\* The dispatcher implements the packet log: readers see streamMaxID as the
\* end of the log and the frontier of the filter context as what is scanned.
Log == INSTANCE PacketLog WITH accepted <- count,
                               readable <- streamMaxID,
                               scanned  <- filteredMaxID,
                               results  <- filtered
ImplementsPacketLog == Log!Spec
=============================================================================
