----------------------------- MODULE Dispatcher -----------------------------
(***************************************************************************)
(* The packet dispatcher of goldfilter (goldfilter/src/dispatcher.cpp).    *)
(*                                                                         *)
(* Three kinds of threads insert packets: the capture thread, the server   *)
(* thread (the "analyze" request) and the stream thread (packets derived   *)
(* from reassembled streams).  A pool of dissector threads takes packets   *)
(* from waitingPackets and stores them in an ObjectCache; the stream       *)
(* thread then visits the stored packets in the order of their ids; a pool *)
(* of filter threads matches the visited packets and appends the ids of    *)
(* the matches to one shared list.  One mutex guards all of it, so a       *)
(* critical section is one action; three condition variables put threads   *)
(* to sleep.  A thread is "waiting" when it sleeps in wait() and "ready"   *)
(* when it is about to take the mutex and test the wait's predicate.       *)
(*                                                                         *)
(* A packet is its id.  What a filter decides about it is Matching[filter].*)
(***************************************************************************)
EXTENDS Integers, Sequences, FiniteSets

CONSTANTS Dissectors,    \* dissector threads (one per core)
          FilterThreads, \* filter threads of the installed filter (one per core)
          Filters,       \* filter sources
          Matching,      \* Matching[f] : the ids of the packets f accepts
          Broken,        \* the sources that loadSource rejects
          NoFilter,      \* no filter is installed under the name
          QueueLimit,    \* 32 in the code
          MaxPackets,    \* bound on count, the number of accepted packets
          MaxDropped     \* bound on dropped

ASSUME ConstantsAssumption ==
    /\ Matching \in [Filters -> SUBSET Nat]
    /\ Broken \subseteq Filters
    /\ NoFilter \notin Filters
    /\ QueueLimit \in Nat \ {0}
    /\ MaxPackets \in Nat
    /\ MaxDropped \in Nat

VARIABLES
    exiting,         \* d->exiting
    count,           \* d->count : ids given so far
    dropped,         \* d->dropped
    waitingPackets,  \* d->waitingPackets
    packets,         \* the ids stored in d->packets
    maxID,           \* d->maxID : ids 1..maxID are dissected and stored
    streamMaxID,     \* d->streamMaxID : ids 1..streamMaxID may be read
    insertPc,        \* where each inserting thread is in insert()
    insertId,        \* the id of the packet it inserts (0: none)
    dissectorPc,     \* where each dissector thread is
    dissecting,      \* the id of the packet it dissects (0: none)
    streamPc,        \* where the stream thread is
    streamCursor,    \* the stream thread's local maxID
    filter,          \* the installed filter, or NoFilter
    filterExiting,   \* FilterWorker::exiting of the installed workers
    fetchedMaxID,    \* FilterContext::fetchedMaxID
    filteredMaxID,   \* FilterContext::maxID
    matched,         \* FilterContext::set
    filtering,       \* FilterContext::filtering
    filtered,        \* FilterContext::filtered, the list the clients page through
    filterPc,        \* where each filter thread is
    filterId,        \* the id of the packet it matches (0: none)
    serverPc,        \* where the server thread is in setFilter or ~Dispatcher
    nextFilter       \* the argument of the setFilter in progress

insertVars    == <<count, dropped, insertPc, insertId>>
dissectorVars == <<packets, maxID, dissectorPc, dissecting>>
streamVars    == <<streamMaxID, streamPc, streamCursor>>
contextVars   == <<fetchedMaxID, filteredMaxID, matched, filtering, filtered>>
filterVars    == <<contextVars, filterPc, filterId>>
requestVars   == <<exiting, filter, filterExiting, nextFilter>>
serverVars    == <<requestVars, serverPc>>
pipelineVars  == <<insertVars, waitingPackets, dissectorVars, streamVars>>
vars == <<pipelineVars, filterVars, serverVars>>

Inserters == {"capture", "server", "stream"}

-----------------------------------------------------------------------------
(* Sequences and sets.                                                     *)

Elements(s) == {s[i] : i \in 1..Len(s)}

Ascending(s) == \A i, j \in 1..Len(s) : i < j => s[i] < s[j]

\* Mutation: an unordered_set of matches, iterated in any order.
EnumerationsUnordered(S) ==
    {s \in [1..Cardinality(S) -> S] : Elements(s) = S}

\* The orders in which an iteration over a std::set<uint64_t> can run: one.
Enumerations(S) ==
    {s \in [1..Cardinality(S) -> S] : Ascending(s) /\ Elements(s) = S}

-----------------------------------------------------------------------------
Init ==
    /\ exiting = FALSE
    /\ count = 0
    /\ dropped = 0
    /\ waitingPackets = <<>>
    /\ packets = {}
    /\ maxID = 0
    /\ streamMaxID = 0
    /\ insertPc = [p \in Inserters |-> "idle"]
    /\ insertId = [p \in Inserters |-> 0]
    /\ dissectorPc = [w \in Dissectors |-> "ready"]
    /\ dissecting = [w \in Dissectors |-> 0]
    /\ streamPc = "ready"
    /\ streamCursor = 0
    /\ filter = NoFilter
    /\ filterExiting = FALSE
    /\ fetchedMaxID = 0
    /\ filteredMaxID = 0
    /\ matched = {}
    /\ filtering = {}
    /\ filtered = <<>>
    /\ filterPc = [f \in FilterThreads |-> "done"]
    /\ filterId = [f \in FilterThreads |-> 0]
    /\ serverPc = "idle"
    /\ nextFilter = NoFilter

\* notify_all on a condition variable whose waiting threads are the
\* "waiting" ones of pc: they have to test their predicate again.
Notified(pc) ==
    [t \in DOMAIN pc |-> IF pc[t] = "waiting" THEN "ready" ELSE pc[t]]

\* Mutation: notify_all on streamCond is forgotten.
NotNotifiedStream == streamPc

NotifiedStream == IF streamPc = "waiting" THEN "ready" ELSE streamPc

-----------------------------------------------------------------------------
(* insert(): two critical sections, then notify_all on cond.               *)

\* The stream thread inserts from within its visit of a packet, the server
\* thread between two requests, the capture thread until it is stopped.
MayInsert(p) ==
    /\ insertPc[p] = "idle"
    /\ p = "stream" => streamPc = "visiting"
    /\ p = "server" => serverPc = "idle"
    /\ p = "capture" => ~exiting

\* Mutation: the length is not looked at.
QueueFullNever == FALSE

QueueFull == Len(waitingPackets) >= QueueLimit

\* Mutation: count++ instead of ++count.
NextIdPostIncrement == count

NextId == count + 1

DropPacket(p) ==
    /\ MayInsert(p)
    /\ QueueFull
    /\ dropped < MaxDropped
    /\ dropped' = dropped + 1
    /\ UNCHANGED <<count, insertPc, insertId, waitingPackets, dissectorVars,
                   streamVars, filterVars, serverVars>>

NumberPacket(p) ==
    /\ MayInsert(p)
    /\ ~QueueFull
    /\ count < MaxPackets
    /\ count' = count + 1
    /\ insertId' = [insertId EXCEPT ![p] = NextId]
    /\ insertPc' = [insertPc EXCEPT ![p] = "numbered"]
    /\ UNCHANGED <<dropped, waitingPackets, dissectorVars, streamVars,
                   filterVars, serverVars>>

PushPacket(p) ==
    /\ insertPc[p] = "numbered"
    /\ waitingPackets' = Append(waitingPackets, insertId[p])
    /\ insertId' = [insertId EXCEPT ![p] = 0]
    /\ insertPc' = [insertPc EXCEPT ![p] = "pushed"]
    /\ UNCHANGED <<count, dropped, dissectorVars, streamVars, filterVars,
                   serverVars>>

NotifyDissectors(p) ==
    /\ insertPc[p] = "pushed"
    /\ insertPc' = [insertPc EXCEPT ![p] = "idle"]
    /\ dissectorPc' = Notified(dissectorPc)
    /\ UNCHANGED <<count, dropped, insertId, waitingPackets, packets, maxID,
                   dissecting, streamVars, filterVars, serverVars>>

-----------------------------------------------------------------------------
(* A dissector thread.                                                     *)

DissectorRest(w) ==
    /\ dissectorPc[w] = "ready"
    /\ \/ /\ exiting
          /\ dissectorPc' = [dissectorPc EXCEPT ![w] = "done"]
       \/ /\ ~exiting
          /\ waitingPackets = <<>>
          /\ dissectorPc' = [dissectorPc EXCEPT ![w] = "waiting"]
    /\ UNCHANGED <<insertVars, waitingPackets, packets, maxID, dissecting,
                   streamVars, filterVars, serverVars>>

DissectorTake(w) ==
    /\ dissectorPc[w] = "ready"
    /\ ~exiting
    /\ waitingPackets # <<>>
    /\ dissecting' = [dissecting EXCEPT ![w] = Head(waitingPackets)]
    /\ waitingPackets' = Tail(waitingPackets)
    /\ dissectorPc' = [dissectorPc EXCEPT ![w] = "dissecting"]
    /\ UNCHANGED <<insertVars, packets, maxID, streamVars, filterVars,
                   serverVars>>

\* Mutation: maxID is the largest id stored, gaps included.
AdvancedOverGaps(S) ==
    {m \in maxID..count : m \in S \cup {maxID} /\ \A i \in S : i <= m}

\* Where "while (has(maxID + 1)) maxID++" stops when the ids S are stored.
Advanced(S) ==
    {m \in maxID..count : (maxID + 1)..m \subseteq S /\ m + 1 \notin S}

\* The packet is dissected: store it, advance maxID, wake the threads behind
\* the dissectors (not while packet 1 is missing), and in the same critical
\* section go on with the next packet, whether or not the dispatcher exits.
StorePacket(w) ==
    /\ dissectorPc[w] = "dissecting"
    /\ packets' = packets \cup {dissecting[w]}
    /\ maxID' \in Advanced(packets')
    /\ IF maxID' = 0
       THEN UNCHANGED <<filterPc, streamPc>>
       ELSE filterPc' = Notified(filterPc) /\ streamPc' = NotifiedStream
    /\ \/ /\ waitingPackets # <<>>
          /\ dissecting' = [dissecting EXCEPT ![w] = Head(waitingPackets)]
          /\ waitingPackets' = Tail(waitingPackets)
          /\ UNCHANGED dissectorPc
       \/ /\ waitingPackets = <<>>
          /\ dissecting' = [dissecting EXCEPT ![w] = 0]
          /\ dissectorPc' = [dissectorPc EXCEPT ![w] = "ready"]
          /\ UNCHANGED waitingPackets
    /\ UNCHANGED <<insertVars, streamMaxID, streamCursor, contextVars,
                   filterId, serverVars>>

-----------------------------------------------------------------------------
(* The stream thread.                                                      *)

StreamRest ==
    /\ streamPc = "ready"
    /\ \/ exiting /\ streamPc' = "done"
       \/ ~exiting /\ maxID <= streamCursor /\ streamPc' = "waiting"
    /\ UNCHANGED <<insertVars, waitingPackets, dissectorVars, streamMaxID,
                   streamCursor, filterVars, serverVars>>

StreamTake ==
    /\ streamPc = "ready"
    /\ ~exiting
    /\ maxID > streamCursor
    /\ streamCursor' = streamCursor + 1
    /\ streamPc' = "visiting"
    /\ UNCHANGED <<insertVars, waitingPackets, dissectorVars, streamMaxID,
                   filterVars, serverVars>>

\* The visit ends once no insert() of the stream thread is in progress.
\* Nothing notifies filterCond here.
StreamPublish ==
    /\ streamPc = "visiting"
    /\ insertPc["stream"] = "idle"
    /\ streamMaxID' = streamCursor
    /\ streamPc' = "ready"
    /\ UNCHANGED <<insertVars, waitingPackets, dissectorVars, streamCursor,
                   filterVars, serverVars>>

-----------------------------------------------------------------------------
(* A filter thread.                                                        *)

\* Mutation: the wait tests only the dispatcher's flag, not the worker's.
FilterStopsOnClose == exiting

FilterStops == exiting \/ filterExiting

\* The modules and the source are loaded; a source that does not load ends
\* the thread.
FilterLoad(f) ==
    /\ filterPc[f] = "loading"
    /\ filterPc' = [filterPc EXCEPT
                       ![f] = IF filter \in Broken THEN "done" ELSE "ready"]
    /\ UNCHANGED <<pipelineVars, contextVars, filterId, serverVars>>

\* Mutation: a filter reads what is stored, not what the stream thread is
\* done with.
FetchableWhenStored == maxID > fetchedMaxID

Fetchable == streamMaxID > fetchedMaxID

FilterRest(f) ==
    /\ filterPc[f] = "ready"
    /\ \/ FilterStops /\ filterPc' = [filterPc EXCEPT ![f] = "done"]
       \/ /\ ~FilterStops
          /\ ~Fetchable
          /\ filterPc' = [filterPc EXCEPT ![f] = "waiting"]
    /\ UNCHANGED <<pipelineVars, contextVars, filterId, serverVars>>

FilterTake(f) ==
    /\ filterPc[f] = "ready"
    /\ ~FilterStops
    /\ Fetchable
    /\ fetchedMaxID' = fetchedMaxID + 1
    /\ filtering' = filtering \cup {fetchedMaxID + 1}
    /\ filterId' = [filterId EXCEPT ![f] = fetchedMaxID + 1]
    /\ filterPc' = [filterPc EXCEPT ![f] = "filtering"]
    /\ UNCHANGED <<pipelineVars, filteredMaxID, matched, filtered, serverVars>>

\* Mutation: the frontier ignores the packets still being matched.
FrontierOptimistic(S) == {fetchedMaxID}

\* Mutation: the case that nothing is being matched is forgotten.
FrontierWhileBusy(S) ==
    {m \in 0..fetchedMaxID :
        IF S = {} THEN m = filteredMaxID
                  ELSE m + 1 \in S /\ \A i \in S : m < i}

\* ctx->maxID once the ids S are still being matched: every id up to it has
\* been matched.
Frontier(S) ==
    {m \in 0..fetchedMaxID :
        IF S = {} THEN m = fetchedMaxID
                  ELSE m + 1 \in S /\ \A i \in S : m < i}

\* script->filter() has returned.  The match is recorded, the frontier moves,
\* and the recorded matches up to the frontier are appended in order.
FilterMatch(f) ==
    LET id      == filterId[f]
        known   == IF id \in Matching[filter] THEN matched \cup {id}
                                              ELSE matched
        settled == {i \in known : i <= filteredMaxID'}
    IN  /\ filterPc[f] = "filtering"
        /\ filtering' = filtering \ {id}
        /\ filteredMaxID' \in Frontier(filtering')
        /\ \E batch \in Enumerations(settled) : filtered' = filtered \o batch
        /\ matched' = known \ settled
        /\ filterId' = [filterId EXCEPT ![f] = 0]
        /\ filterPc' = [filterPc EXCEPT ![f] = "ready"]
        /\ UNCHANGED <<pipelineVars, fetchedMaxID, serverVars>>

-----------------------------------------------------------------------------
(* The server thread: setFilter() and ~Dispatcher().                       *)

ServerIdle == serverPc = "idle" /\ insertPc["server"] = "idle"

\* A fresh context and fresh workers for source g (none for NoFilter).
Install(g) ==
    /\ filter' = g
    /\ filterExiting' = FALSE
    /\ fetchedMaxID' = 0
    /\ filteredMaxID' = 0
    /\ matched' = {}
    /\ filtering' = {}
    /\ filtered' = <<>>
    /\ filterPc' = [f \in FilterThreads |->
                       IF g = NoFilter THEN "done" ELSE "loading"]
    /\ filterId' = [f \in FilterThreads |-> 0]

SetNewFilter(g) ==
    /\ ServerIdle
    /\ filter = NoFilter
    /\ g # NoFilter
    /\ Install(g)
    /\ UNCHANGED <<pipelineVars, exiting, serverPc, nextFilter>>

\* Mutation: the result list is erased before the workers are joined.
ReplaceFilterErasing(g) ==
    /\ ServerIdle
    /\ filter # NoFilter
    /\ filterExiting' = TRUE
    /\ nextFilter' = g
    /\ serverPc' = "stopping"
    /\ filtered' = <<>>
    /\ UNCHANGED <<pipelineVars, fetchedMaxID, filteredMaxID, matched,
                   filtering, filterPc, filterId, exiting, filter>>

\* The name is in filterWorkers: first tell its workers to stop.
ReplaceFilter(g) ==
    /\ ServerIdle
    /\ filter # NoFilter
    /\ filterExiting' = TRUE
    /\ nextFilter' = g
    /\ serverPc' = "stopping"
    /\ UNCHANGED <<pipelineVars, filterVars, exiting, filter>>

NotifyFilters ==
    /\ serverPc = "stopping"
    /\ filterPc' = Notified(filterPc)
    /\ serverPc' = "joining"
    /\ UNCHANGED <<pipelineVars, contextVars, filterId, requestVars>>

FilterThreadsDone == \A f \in FilterThreads : filterPc[f] = "done"

InstallNext ==
    /\ serverPc = "joining"
    /\ FilterThreadsDone
    /\ Install(nextFilter)
    /\ serverPc' = "idle"
    /\ nextFilter' = NoFilter
    /\ UNCHANGED <<pipelineVars, exiting>>

\* ~Dispatcher() runs when the capture thread has been stopped.
Close ==
    /\ ServerIdle
    /\ insertPc["capture"] = "idle"
    /\ exiting' = TRUE
    /\ serverPc' = "closing"
    /\ UNCHANGED <<pipelineVars, filterVars, filter, filterExiting, nextFilter>>

NotifyAll ==
    /\ serverPc = "closing"
    /\ dissectorPc' = Notified(dissectorPc)
    /\ filterPc' = Notified(filterPc)
    /\ streamPc' = NotifiedStream
    /\ serverPc' = "joinWorkers"
    /\ UNCHANGED <<insertVars, waitingPackets, packets, maxID, dissecting,
                   streamMaxID, streamCursor, contextVars, filterId,
                   requestVars>>

JoinWorkers ==
    /\ serverPc = "joinWorkers"
    /\ \A w \in Dissectors : dissectorPc[w] = "done"
    /\ FilterThreadsDone
    /\ serverPc' = "draining"
    /\ UNCHANGED <<pipelineVars, filterVars, requestVars>>

\* The queue is popped without the mutex, one packet a step; the stream
\* thread may still be pushing.  A pop and a push are taken as atomic.
DrainQueue ==
    /\ serverPc = "draining"
    /\ IF waitingPackets # <<>>
       THEN waitingPackets' = Tail(waitingPackets) /\ UNCHANGED serverPc
       ELSE serverPc' = "joinStream" /\ UNCHANGED waitingPackets
    /\ UNCHANGED <<insertVars, dissectorVars, streamVars, filterVars, requestVars>>

JoinStream ==
    /\ serverPc = "joinStream"
    /\ streamPc = "done"
    /\ serverPc' = "closed"
    /\ UNCHANGED <<pipelineVars, filterVars, requestVars>>

-----------------------------------------------------------------------------
\* std::condition_variable::wait may return without a notification.
SpuriousWakeup ==
    /\ \/ /\ \E w \in Dissectors :
                /\ dissectorPc[w] = "waiting"
                /\ dissectorPc' = [dissectorPc EXCEPT ![w] = "ready"]
          /\ UNCHANGED <<streamPc, filterPc>>
       \/ /\ streamPc = "waiting"
          /\ streamPc' = "ready"
          /\ UNCHANGED <<dissectorPc, filterPc>>
       \/ /\ \E f \in FilterThreads :
                /\ filterPc[f] = "waiting"
                /\ filterPc' = [filterPc EXCEPT ![f] = "ready"]
          /\ UNCHANGED <<dissectorPc, streamPc>>
    /\ UNCHANGED <<insertVars, waitingPackets, packets, maxID, dissecting,
                   streamMaxID, streamCursor, contextVars, filterId,
                   serverVars>>

Terminated == serverPc = "closed" /\ UNCHANGED vars

Insert(p) == \/ DropPacket(p)
             \/ NumberPacket(p)
             \/ PushPacket(p)
             \/ NotifyDissectors(p)

Dissect(w) == \/ DissectorRest(w)
              \/ DissectorTake(w)
              \/ StorePacket(w)

Stream == \/ StreamRest
          \/ StreamTake
          \/ StreamPublish

Filter(f) == \/ FilterLoad(f)
             \/ FilterRest(f)
             \/ FilterTake(f)
             \/ FilterMatch(f)

\* What the server thread does without waiting for a request.
ServerContinues == \/ NotifyFilters
                   \/ InstallNext
                   \/ NotifyAll
                   \/ JoinWorkers
                   \/ DrainQueue
                   \/ JoinStream

Next == \/ \E p \in Inserters : Insert(p)
        \/ \E w \in Dissectors : Dissect(w)
        \/ Stream
        \/ \E f \in FilterThreads : Filter(f)
        \/ \E g \in Filters : SetNewFilter(g)
        \/ \E g \in Filters \cup {NoFilter} : ReplaceFilter(g)
        \/ Close
        \/ ServerContinues
        \/ SpuriousWakeup
        \/ Terminated

Spec == Init /\ [][Next]_vars

\* Every thread that can run runs; nothing obliges anyone to capture, to set
\* a filter or to close, and nothing promises a spurious wakeup.
Fairness ==
    /\ \A p \in Inserters : WF_vars(PushPacket(p)) /\ WF_vars(NotifyDissectors(p))
    /\ \A w \in Dissectors : WF_vars(Dissect(w))
    /\ WF_vars(Stream)
    /\ \A f \in FilterThreads : WF_vars(Filter(f))
    /\ WF_vars(ServerContinues)

FairSpec == Spec /\ Fairness

=============================================================================
