----------------------------- MODULE StreamVisit ----------------------------
(***************************************************************************)
(* The stream thread on one packet after the other: it collects the        *)
(* streams that the dissector scripts attached to the layers, gives every  *)
(* one to the stream scripts of its namespace, and goes on with the        *)
(* streams these scripts derive (Dispatcher::Dispatcher, dispatcher.cpp;   *)
(* ScriptClass::analyzeStream, script_class.cpp).                          *)
(*                                                                         *)
(* Dispatcher.tla has the same thread with the visit as one step; here is  *)
(* what happens inside. An entry of streamCache holds one script object    *)
(* per stream script; what a script does is which stream and whether a     *)
(* packet comes back from it.                                              *)
(***************************************************************************)
EXTENDS Integers, FiniteSets, SequencesExt

CONSTANTS
    Ids,           \* PacketStream::id
    Layers,        \* the layers of a packet
    NumNamespaces, \* stream namespaces; a script derives larger ones only
    MaxScripts,    \* bound on the stream scripts of a namespace
    MaxPackets,    \* bound on the packets, derived ones included
    MaxItems       \* bound on the streams attached and derived

BoundsAssumption ==
    {NumNamespaces, MaxScripts, MaxPackets, MaxItems} \subseteq Nat

Namespaces == 1..NumNamespaces
Key        == Namespaces \X Ids

\* A PacketStream: its namespace and id, whether end() was called on it, and
\* the packet whose data it carries.
Item == [key : Key, end : BOOLEAN, packet : 1..MaxPackets]

VARIABLES
    registered,   \* streamDissectors: does the source of the n-th script load
    maxID,        \* d->maxID: packets that are dissected
    visit,        \* maxID of the thread: the packet it is at
    streamMaxID,  \* the last packet whose visit is over
    made,         \* how many items there have been
    rest,         \* what is left of list, per layer
    layer,        \* the layer whose streams are being visited
    derived,      \* streamList while a round runs
    busy,         \* the thread is at the first item of rest[layer]
    called,       \* scripts already called for it
    cache,        \* streamCache: the entry of every key that has one
    segments,     \* history: the items taken, per key, cut behind every end
    ended         \* history: the entries of the streams of each key that are over

visitVars == <<visit, streamMaxID, rest, layer, derived, busy, called>>
ghostVars == <<segments, ended>>
vars == <<registered, maxID, made, cache, visitVars, ghostVars>>

None     == [l \in Layers |-> <<>>]
Visiting == visit > streamMaxID
cur      == Head(rest[layer])

Init ==
    /\ registered = [n \in Namespaces |-> <<>>]
    /\ maxID = 0 /\ visit = 0 /\ streamMaxID = 0
    /\ made = 0 /\ rest = None /\ derived = None
    /\ layer \in Layers /\ busy = FALSE /\ called = 0
    /\ cache = [k \in {} |-> <<>>]
    /\ segments = [k \in Key |-> <<>>] /\ ended = [k \in Key |-> <<>>]

-----------------------------------------------------------------------------
(* The other threads.                                                      *)

Dissected ==
    /\ maxID < MaxPackets
    /\ maxID' = maxID + 1
    /\ UNCHANGED <<registered, made, cache, visitVars, ghostVars>>

LoadStreamDissector ==
    /\ \E n \in Namespaces, ok \in BOOLEAN :
          /\ Len(registered[n]) < MaxScripts
          /\ registered' = [registered EXCEPT ![n] = Append(@, ok)]
    /\ UNCHANGED <<maxID, made, cache, visitVars, ghostVars>>

-----------------------------------------------------------------------------
(* The visit of a packet.                                                  *)

\* Mutation: the predicate of streamCond does not wait for the next packet.
WakeEarly == ~Visiting /\ maxID >= visit

\* The predicate of streamCond.
Wake == ~Visiting /\ maxID > visit

\* The streams that the scripts attached to the packet are found layer by
\* layer.
FindStreams ==
    /\ Wake
    /\ visit' = visit + 1
    /\ \E items \in SUBSET {i \in Item : i.packet = visit + 1} :
          /\ IsFiniteSet(items) /\ Cardinality(items) <= 2
          /\ made + Cardinality(items) <= MaxItems
          /\ made' = made + Cardinality(items)
          /\ \E at \in [items -> Layers] :
                rest' = [l \in Layers |-> SetToSeq({i \in items : at[i] = l})]
    /\ UNCHANGED <<registered, maxID, streamMaxID, layer, derived, busy, called, cache, ghostVars>>

\* A new entry gets an object for each script that is registered by now and
\* loads. The next mention of the key finds it.
NewEntry(k) ==
    LET good == {n \in DOMAIN registered[k[1]] : registered[k[1]][n]}
    IN  [started |-> FALSE, seen |-> [s \in 1..Cardinality(good) |-> <<>>]]

\* Mutation: a later script is added to the entry there is.
EntryWithLater(k) ==
    LET new == NewEntry(k)
    IN  IF k \notin DOMAIN cache THEN new
        ELSE [cache[k] EXCEPT !.seen = [s \in DOMAIN new.seen |->
                  IF s \in DOMAIN cache[k].seen THEN cache[k].seen[s] ELSE <<>>]]

EntryOf(k) == IF k \in DOMAIN cache THEN cache[k] ELSE NewEntry(k)

\* What a script of a stream must have seen, from the first item to the one
\* that ends it, stream after stream: the items of the key, cut behind every
\* end; an end that nothing came before belongs to no stream.
Open(parts) == parts # <<>> /\ ~Last(Last(parts)).end

Cut(parts, i) ==
    IF Open(parts) THEN [parts EXCEPT ![Len(parts)] = Append(@, i)]
    ELSE IF i.end THEN parts ELSE Append(parts, <<i>>)

\* The layers come in any order, the streams of a layer in their own.
Take ==
    /\ Visiting /\ ~busy
    /\ \E l \in Layers :
          /\ rest[l] # <<>> /\ (l = layer \/ rest[layer] = <<>>)
          /\ layer' = l /\ busy' = TRUE /\ called' = 0
          /\ LET i == Head(rest[l])
                 e == EntryOf(i.key)
             IN  /\ cache' = [k \in DOMAIN cache \cup {i.key} |->
                                 IF k = i.key THEN [e EXCEPT !.started = @ \/ ~i.end]
                                              ELSE cache[k]]
                 /\ segments' = [segments EXCEPT ![i.key] = Cut(@, i)]
    /\ UNCHANGED <<registered, maxID, made, visit, streamMaxID, rest, derived, ended>>

\* The scripts of the entry that are still to be called: all of them, or none
\* for the end of a stream that never began.
Pending ==
    LET e == cache[cur.key]
    IN  IF cur.end /\ ~e.started THEN {} ELSE {s \in DOMAIN e.seen : s > called}

\* analyzeStream: one that throws hands nothing back.
AnalyzeStream ==
    /\ busy /\ Pending # {}
    /\ called' = called + 1
    /\ cache' = [cache EXCEPT ![cur.key].seen[called + 1] = Append(@, cur)]
    /\ \/ UNCHANGED <<made, derived>>
       \/ \E i \in Item :
             /\ i.packet = visit /\ i.key[1] > cur.key[1] /\ made < MaxItems
             /\ made' = made + 1
             /\ derived' = [derived EXCEPT ![layer] = Append(@, i)]
    /\ UNCHANGED <<registered, maxID, visit, streamMaxID, rest, layer, busy, ghostVars>>

\* Mutation: the entry is erased only when the stream had begun.
ErasedIfStarted == IF cur.end /\ cache[cur.key].started THEN {cur.key} ELSE {}

Erased == IF cur.end THEN {cur.key} ELSE {}

Analyzed ==
    /\ busy /\ Pending = {}
    /\ busy' = FALSE
    /\ rest' = [rest EXCEPT ![layer] = Tail(@)]
    /\ cache' = [k \in DOMAIN cache \ Erased |-> cache[k]]
    /\ ended' = [k \in Key |-> IF k \in Erased /\ cache[k].started
                               THEN Append(ended[k], cache[k]) ELSE ended[k]]
    /\ UNCHANGED <<registered, maxID, made, visit, streamMaxID, layer, derived, called, segments>>

NextRound ==
    /\ Visiting /\ ~busy /\ rest = None /\ derived # None
    /\ rest' = derived /\ derived' = None
    /\ UNCHANGED <<registered, maxID, made, visit, streamMaxID, layer, busy, called, cache, ghostVars>>

\* Mutation: the thread takes its place from streamMaxID, which stays.
EndVisitUnannounced ==
    /\ Visiting /\ ~busy /\ rest = None /\ derived = None
    /\ visit' = streamMaxID
    /\ UNCHANGED <<registered, maxID, made, streamMaxID, rest, layer, derived, busy, called, cache, ghostVars>>

EndVisit ==
    /\ Visiting /\ ~busy /\ rest = None /\ derived = None
    /\ streamMaxID' = visit
    /\ UNCHANGED <<registered, maxID, made, visit, rest, layer, derived, busy, called, cache, ghostVars>>

\* The next packet never comes.
Terminated == ~Visiting /\ maxID = visit /\ UNCHANGED vars

StreamThread == FindStreams \/ Take \/ AnalyzeStream \/ Analyzed \/ NextRound \/ EndVisit

Next == Dissected \/ LoadStreamDissector \/ StreamThread \/ Terminated

Spec == Init /\ [][Next]_vars

\* The thread runs on; nothing is asked of the others.
Fairness == WF_vars(StreamThread)
FairSpec == Spec /\ Fairness

-----------------------------------------------------------------------------
(* Properties.                                                             *)

\* Types. The thread is at most one packet ahead of what it has announced and
\* never ahead of the dissectors.
TypeOK ==
    /\ registered \in [Namespaces -> Seq(BOOLEAN)]
    /\ maxID \in 0..MaxPackets /\ visit \in 0..maxID /\ streamMaxID \in 0..visit
    /\ made \in 0..MaxItems
    /\ rest \in [Layers -> Seq(Item)] /\ derived \in [Layers -> Seq(Item)]
    /\ layer \in Layers /\ busy \in BOOLEAN /\ called \in Nat
    /\ DOMAIN cache \subseteq Key
    /\ segments \in [Key -> Seq(Seq(Item))]

\* The entries of the streams a key has had and has; one that is made for a
\* stray end belongs to none.
Entries(k) ==
    ended[k] \o (IF k \in DOMAIN cache /\ cache[k].started THEN <<cache[k]>> ELSE <<>>)

\* Each script object sees the items of one stream, all of them, in the order
\* of the packets and once, whatever other streams, layers and derived
\* streams come between them; after the end the next stream with the same id
\* gets objects of its own. Only the item at hand may still be missing.
ObjectsSeeOneStream ==
    \A k \in Key :
       /\ Len(Entries(k)) = Len(segments[k])
       /\ \A n \in DOMAIN Entries(k) :
             LET e == Entries(k)[n]
                 whole == segments[k][n]
                 now == /\ busy /\ cur.key = k /\ cache[k].started
                        /\ n = Len(Entries(k))
             IN  \A s \in DOMAIN e.seen :
                    e.seen[s] = IF now /\ s > called THEN Front(whole) ELSE whole

\* Between two items an entry belongs to a stream that has begun and not
\* ended: the end of a stream frees its scripts even if it is all there is.
EntriesAreOpen ==
    ~busy => \A k \in DOMAIN cache :
                /\ cache[k].started
                /\ \A s \in DOMAIN cache[k].seen : ~Last(cache[k].seen[s]).end

\* As scripts derive streams of larger namespaces only, every visit ends and
\* streamMaxID comes to the last packet that is dissected.
VisitsEnd == <>[](streamMaxID = maxID)
=============================================================================
