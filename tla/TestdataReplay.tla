--------------------------- MODULE TestdataReplay ---------------------------
(***************************************************************************)
(* The capture source of the UI tests: PcapDummy (pcap_dummy.cpp), the     *)
(* server's set_testdata, start and stop (server.cpp), and the             *)
(* way of the packet objects through Dispatcher::insert and a dissector    *)
(* thread (dispatcher.cpp).                                                *)
(*                                                                         *)
(* Unlike a live capture the source hands over the same objects again and  *)
(* again, and an object carries its id with it: identity matters here, so  *)
(* the queue holds objects and Dispatcher holds ids.  Layers, streams and  *)
(* filters are left out.                                                   *)
(***************************************************************************)
EXTENDS Integers, Sequences, FiniteSets, FiniteSetsExt, Functions

CONSTANTS
    Workers,       \* the dissector threads
    NPackets,      \* packets of one set of test data
    QueueLimit,    \* 32: longest waitingPackets that still takes a packet
    MaxSources,    \* bound on the calls of set_testdata
    MaxStarts,     \* bound on the calls of start
    MaxInserts     \* bound on the packets inserted

ASSUME ReplayAssumption ==
    /\ NPackets \in Nat \ {0} /\ QueueLimit \in Nat /\ MaxSources \in Nat
    /\ MaxStarts \in Nat /\ MaxInserts \in Nat

VARIABLES
    current,      \* the source the server uses; 0 is the first, without test data
    active,       \* PcapDummy::Private::active of each source
    thread,       \* the thread of each source: none, ready, handing, numbered, ended
    next,         \* its count, the packet it hands over next
    server,       \* the server thread: idle, stopping or replacing
    starts,       \* calls of start so far
    capturing,    \* Server::Private::capturing
    id,           \* the id in each packet object
    count, dropped, waiting, maxID,   \* of Dispatcher::Private
    held,         \* the object a dissector thread holds, or Nobody
    sets,         \* how often packets.set was called for each id
    lost,         \* ids overwritten before their object was stored under them
    alive         \* two threads in one object can end the process

sourceVars == <<current, active, thread, next>>
serverVars == <<server, starts, capturing>>
queueVars  == <<id, count, dropped, waiting, lost>>
workerVars == <<maxID, held, sets, alive>>
vars == <<sourceVars, serverVars, queueVars, workerVars>>

Sources == 0..MaxSources
Packets == Sources \X (1..NPackets)
Ids     == 1..MaxInserts
Nobody  == <<-1, 0>>

Init ==
    /\ current = 0
    /\ active = [s \in Sources |-> FALSE]
    /\ thread = [s \in Sources |-> "none"]
    /\ next = [s \in Sources |-> 1]
    /\ server = "idle" /\ starts = 0 /\ capturing = FALSE
    /\ id = [p \in Packets |-> 0]
    /\ count = 0 /\ dropped = 0 /\ waiting = <<>> /\ maxID = 0
    /\ held = [w \in Workers |-> Nobody]
    /\ sets = [i \in Ids |-> 0]
    /\ lost = {} /\ alive = TRUE

-----------------------------------------------------------------------------
(* The server's handlers.  stop() clears active and joins.                 *)

Idle == alive /\ server = "idle"

Start ==
    /\ Idle /\ starts < MaxStarts
    /\ starts' = starts + 1
    /\ capturing' = ~active[current]
    /\ active' = [active EXCEPT ![current] = TRUE]
    /\ thread' = IF active[current] THEN thread ELSE [thread EXCEPT ![current] = "ready"]
    /\ next' = IF active[current] THEN next ELSE [next EXCEPT ![current] = 1]
    /\ UNCHANGED <<current, server, queueVars, workerVars>>

Stop ==
    /\ Idle
    /\ \/ active[current] /\ server' = "stopping" /\ UNCHANGED capturing
       \/ ~active[current] /\ capturing' = FALSE /\ UNCHANGED server
    /\ active' = [active EXCEPT ![current] = FALSE]
    /\ UNCHANGED <<current, thread, next, starts, queueVars, workerVars>>

\* Mutation: the old source is left running.
SetTestdataDetached ==
    /\ Idle /\ current < MaxSources
    /\ current' = current + 1
    /\ UNCHANGED <<active, thread, next, serverVars, queueVars, workerVars>>

\* set_testdata: the new source is made, the destructor of the old one stops
\* it; capturing stays as it is.
SetTestdata ==
    /\ Idle /\ current < MaxSources
    /\ IF active[current] THEN server' = "replacing" /\ UNCHANGED current
                          ELSE current' = current + 1 /\ UNCHANGED server
    /\ active' = [active EXCEPT ![current] = FALSE]
    /\ UNCHANGED <<thread, next, starts, capturing, queueVars, workerVars>>

Join ==
    /\ alive /\ server # "idle" /\ thread[current] = "ended"
    /\ thread' = [thread EXCEPT ![current] = "none"]
    /\ current' = IF server = "replacing" THEN current + 1 ELSE current
    /\ capturing' = (server = "replacing" /\ capturing)
    /\ server' = "idle"
    /\ UNCHANGED <<active, next, starts, queueVars, workerVars>>

-----------------------------------------------------------------------------
(* The thread of a source: it takes the next packet, inserts it, sleeps.   *)

Moves(s, from, to) == thread[s] = from /\ thread' = [thread EXCEPT ![s] = to]

Hand(s) ==
    /\ alive /\ thread[s] = "ready"
    /\ \/ ~active[s] /\ Moves(s, "ready", "ended")
       \/ /\ active[s] /\ s # 0 /\ count + dropped < MaxInserts
          /\ Moves(s, "ready", "handing")
    /\ UNCHANGED <<current, active, next, serverVars, queueVars, workerVars>>

InFlight(p) == p \in Range(waiting) \/ \E w \in Workers : held[w] = p

\* Mutation: the count runs on.
AfterUnwrapped(k) == k + 1

After(k) == (k % NPackets) + 1

\* insert: the id is given, or the packet is dropped.
Number(s) ==
    /\ alive /\ thread[s] = "handing"
    /\ next' = [next EXCEPT ![s] = After(next[s])]
    /\ LET p == <<s, next[s]>>
       IN  \/ /\ Len(waiting) >= QueueLimit
              /\ dropped' = dropped + 1
              /\ Moves(s, "handing", "ready")
              /\ UNCHANGED <<id, count, lost>>
           \/ /\ Len(waiting) < QueueLimit
              /\ count' = count + 1
              /\ id' = [id EXCEPT ![p] = count + 1]
              /\ lost' = IF InFlight(p) /\ sets[id[p]] = 0 THEN lost \cup {id[p]} ELSE lost
              /\ Moves(s, "handing", "numbered")
              /\ UNCHANGED dropped
    /\ UNCHANGED <<current, active, serverVars, waiting, workerVars>>

\* The packet handed over last.
Last(s) == <<s, ((next[s] + NPackets - 2) % NPackets) + 1>>

Push(s) ==
    /\ alive
    /\ Moves(s, "numbered", "ready")
    /\ waiting' = Append(waiting, Last(s))
    /\ UNCHANGED <<current, active, next, serverVars, id, count, dropped, lost, workerVars>>

-----------------------------------------------------------------------------
(* A dissector thread.                                                     *)

\* An object that another thread is dissecting is taken all the same.
Take(w) ==
    /\ alive /\ held[w] = Nobody /\ waiting # <<>>
    /\ held' = [held EXCEPT ![w] = Head(waiting)]
    /\ waiting' = Tail(waiting)
    /\ alive' \in {TRUE} \cup {FALSE : v \in {v \in Workers : held[v] = Head(waiting)}}
    /\ UNCHANGED <<sourceVars, serverVars, id, count, dropped, lost, maxID, sets>>

Stored(i) == i \in Ids /\ sets[i] > 0

\* Mutation: a gap at the first packet is skipped.
AdvancedOverFirst(i) ==
    LET Has(j) == Stored(j) \/ j = i
    IN  Max({j \in {0} \cup Ids : \A k \in 2..j : Has(k)})

\* maxID after id i is stored, too.
Advanced(i) ==
    LET Has(j) == Stored(j) \/ j = i
    IN  Max({j \in {0} \cup Ids : \A k \in 1..j : Has(k)})

\* Mutation: the id is taken from the packet before it is dissected, and the
\* packet is not stored when it changed meanwhile.
StoreUnchanged(w) ==
    /\ alive /\ held[w] # Nobody
    /\ held' = [held EXCEPT ![w] = Nobody]
    /\ LET i == id[held[w]]
       IN  /\ sets' = IF Stored(i) THEN sets ELSE [sets EXCEPT ![i] = @ + 1]
           /\ maxID' = Advanced(i)
    /\ UNCHANGED <<sourceVars, serverVars, queueVars, alive>>

\* The packet is stored under the id it has now.
Store(w) ==
    /\ alive /\ held[w] # Nobody
    /\ held' = [held EXCEPT ![w] = Nobody]
    /\ LET i == id[held[w]]
       IN  /\ sets' = [sets EXCEPT ![i] = @ + 1]
           /\ maxID' = Advanced(i)
    /\ UNCHANGED <<sourceVars, serverVars, queueVars, alive>>

-----------------------------------------------------------------------------
Terminated ==
    /\ ~alive \/ (starts = MaxStarts /\ count + dropped = MaxInserts)
    /\ UNCHANGED vars

Thread(s) == Hand(s) \/ Number(s) \/ Push(s)
Worker(w) == Take(w) \/ Store(w)

Next == \/ Start
        \/ Stop
        \/ SetTestdata
        \/ Join
        \/ \E s \in Sources : Thread(s)
        \/ \E w \in Workers : Worker(w)
        \/ Terminated

Spec == Init /\ [][Next]_vars

\* All threads run; the requests are the client's choice.
FairSpec == /\ Spec
            /\ WF_vars(Join)
            /\ \A s \in Sources : WF_vars(Thread(s))
            /\ \A w \in Workers : WF_vars(Worker(w))

-----------------------------------------------------------------------------
TypeOK ==
    /\ current \in Sources
    /\ active \in [Sources -> BOOLEAN]
    /\ thread \in [Sources -> {"none", "ready", "handing", "numbered", "ended"}]
    /\ next \in [Sources -> 1..NPackets]
    /\ server \in {"idle", "stopping", "replacing"}
    /\ starts \in 0..MaxStarts /\ capturing \in BOOLEAN
    /\ id \in [Packets -> {0} \cup Ids]
    /\ count \in 0..MaxInserts /\ dropped \in 0..MaxInserts /\ maxID \in {0} \cup Ids
    /\ waiting \in Seq(Packets)
    /\ held \in [Workers -> Packets \cup {Nobody}]
    /\ sets \in [Ids -> Nat] /\ lost \subseteq Ids
    /\ alive \in BOOLEAN

\* Between two requests only the source in use has a thread: set_testdata
\* during a capture cannot leave the old packets coming.
OnlyCurrentSource ==
    server = "idle" => \A s \in Sources \ {current} : thread[s] = "none"

Numbered == {s \in Sources : thread[s] = "numbered"}
Holding  == {w \in Workers : held[w] # Nobody}

\* The calls of packets.set: an id, and which of the calls for it.
Stores == UNION {{i} \X (1..sets[i]) : i \in Ids}

\* Every insert is stored exactly once, under the id its object has by then:
\* what replay loses under one id is stored twice under another.
InsertsAreStored ==
    Cardinality(Stores) + Len(waiting) + Cardinality(Numbered) + Cardinality(Holding) = count

\* When everything inserted is stored, maxID is the last id or stands right
\* before the first one that was overwritten on its way: only replay can stop
\* the pipeline, and what the status announces can be fetched.
StopsAtFirstLost ==
    alive /\ Cardinality(Stores) = count => maxID = Min(lost \cup {count + 1}) - 1

\* The UI tests wait for a packet in the list.
ShowsPackets == <>(alive /\ count > 0) => <>(maxID > 0)
=============================================================================
