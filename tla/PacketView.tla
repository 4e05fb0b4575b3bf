----------------------------- MODULE PacketView -----------------------------
(***************************************************************************)
(* The packet list and what it is fed by: the dispatcher's counters        *)
(* (dispatcher.cpp), get_status, get_filtered and get_packets (server.cpp, *)
(* status.hpp), the client's poll (session.es), and the list's rows, which *)
(* are asked for by their place and filled by their id                     *)
(* (packet-list-view.es, GoldFilter.requestPackets).                       *)
(*                                                                         *)
(* Calls and answers keep their order: one connection, one server thread.  *)
(* Left out: whether the capture runs, which a status carries too; the     *)
(* selected row; views of no height. The list has Rows rows and no margin. *)
(***************************************************************************)
EXTENDS Integers, Sequences, FiniteSets, FiniteSetsExt

CONSTANTS
    Filters,     \* filter expressions
    NoFilter,    \* the empty one
    MaxPackets,  \* bound on the packets
    Rows,        \* rows the view has room for
    MaxGestures, \* bound on the times the user scrolls or changes the filter
    MaxWire      \* bound on the calls and answers under way when the timer polls

ASSUME BoundsAssumption ==
    {MaxPackets, Rows, MaxGestures, MaxWire} \subseteq Nat

Ids    == 1..MaxPackets
Counts == 0..MaxPackets

VARIABLES
    match,     \* which packets each filter lets pass
    dissected, \* d->maxID
    size,      \* d->streamMaxID
    filter,    \* the filter the server has under the name main
    fetched,   \* how far its workers have come
    status,    \* d->status, the last one that was sent
    reading,   \* what get_status has read of the next one, if it runs
    calls,     \* calls of the client the server has not answered
    answers,   \* answers the client has not seen
    view,      \* packets, filtered, scrollTop in rows, prevStart and prevEnd
    rows,      \* the visible cells: a place and an id each
    filled,    \* the ids of those that show their packet
    cached,    \* packetCache
    scrolls, changes,
    old,       \* history: how many of the answers are of a filter that is gone
    heard      \* history: what the list was told since a filter was applied

serverVars == <<match, dissected, size, filter, fetched, status, reading>>
cellVars   == <<rows, filled>>
userVars   == <<scrolls, changes>>
heardVars  == <<old, heard>>
vars == <<serverVars, calls, answers, view, cellVars, cached, userVars, heardVars>>

Status == [packets : Counts, filtered : Counts \cup {-1}]

\* The ids the filter has passed so far, and the list of them in their order:
\* the n-th has n of them up to it.
Passed == IF filter = NoFilter THEN {} ELSE match[filter] \cap 1..fetched

Nth(ids, n) == CHOOSE id \in ids : Cardinality({i \in ids : i <= id}) = n

Filtered == [n \in 1..Cardinality(Passed) |-> Nth(Passed, n)]

Init ==
    /\ match \in [Filters -> SUBSET Ids]
    /\ dissected = 0 /\ size = 0 /\ fetched = 0
    /\ filter \in Filters \cup {NoFilter}
    /\ status = [packets |-> 0, filtered |-> -1]
    /\ reading = <<>> /\ calls = <<>> /\ answers = <<>>
    /\ view = [packets |-> 0, filtered |-> -1, top |-> 0, prev |-> <<1, 0>>]
    /\ rows = {} /\ filled = {} /\ cached = {}
    /\ scrolls = 0 /\ changes = 0 /\ old = 0 /\ heard = "current"

-----------------------------------------------------------------------------
(* The dispatcher.                                                         *)

Dissect ==
    /\ dissected < MaxPackets /\ dissected' = dissected + 1
    /\ UNCHANGED <<match, size, filter, fetched, status, reading, calls, answers, view, cellVars, cached, userVars, heardVars>>

EndVisit ==
    /\ size < dissected /\ size' = size + 1
    /\ UNCHANGED <<match, dissected, filter, fetched, status, reading, calls, answers, view, cellVars, cached, userVars, heardVars>>

FilterOne ==
    /\ filter # NoFilter /\ fetched < size /\ fetched' = fetched + 1
    /\ UNCHANGED <<match, dissected, size, filter, status, reading, calls, answers, view, cellVars, cached, userVars, heardVars>>

-----------------------------------------------------------------------------
(* The server thread.                                                      *)

Serving(name) == calls # <<>> /\ Head(calls).name = name

\* Mutation: size() gives what is dissected.
SizeDissected == dissected

Size == size

\* Each part of a status is read under the mutex, but not all of them.
ReadSize ==
    /\ Serving("status") /\ reading = <<>>
    /\ reading' = <<Size>>
    /\ UNCHANGED <<match, dissected, size, filter, fetched, status, calls, answers, view, cellVars, cached, userVars, heardVars>>

\* Status::operator!=.
Changed(a, b) == a.packets # b.packets \/ a.filtered # b.filtered

GetStatus ==
    /\ Serving("status") /\ reading # <<>>
    /\ LET new == [packets  |-> reading[1],
                   filtered |-> IF filter = NoFilter THEN -1 ELSE Len(Filtered)]
       IN  IF Changed(new, status)
           THEN status' = new /\ answers' = Append(answers, [name |-> "status", status |-> new])
           ELSE UNCHANGED <<status, answers>>
    /\ reading' = <<>> /\ calls' = Tail(calls)
    /\ UNCHANGED <<match, dissected, size, filter, fetched, view, cellVars, cached, userVars, heardVars>>

GetFiltered ==
    /\ Serving("filtered")
    /\ LET c == Head(calls)
       IN  answers' = Append(answers, [name |-> "filtered", start |-> c.start,
              list |-> SubSeq(Filtered, c.start, Min({c.end, Len(Filtered)}))])
    /\ calls' = Tail(calls)
    /\ UNCHANGED <<serverVars, view, cellVars, cached, userVars, heardVars>>

\* get(list) does not look at streamMaxID.
GetPackets ==
    /\ Serving("packets")
    /\ answers' = Append(answers, [name |-> "packets", ids |-> Head(calls).ids \cap 1..dissected])
    /\ calls' = Tail(calls)
    /\ UNCHANGED <<serverVars, view, cellVars, cached, userVars, heardVars>>

\* The old filter's workers are gone and its list with them.
SetFilter ==
    /\ Serving("filter")
    /\ filter' = Head(calls).filter /\ fetched' = 0
    /\ calls' = Tail(calls)
    /\ old' = Len(answers)
    /\ UNCHANGED <<match, dissected, size, status, reading, answers, view, cellVars, cached, userVars, heard>>

Serve == ReadSize \/ GetStatus \/ GetFiltered \/ GetPackets \/ SetFilter

-----------------------------------------------------------------------------
(* The list.                                                               *)

\* Mutation: places are counted from one.
PlacedFromOne(shown, start, list) ==
    {<<start + n, list[n]>> : n \in {m \in DOMAIN list : \A r \in shown : r[2] # list[m]}}

\* updateCells: a cell for every id of the list that has no visible one. It is
\* filled from the cache, or by the answer.
Placed(shown, start, list) ==
    {<<start + n - 1, list[n]>> : n \in {m \in DOMAIN list : \A r \in shown : r[2] # list[m]}}

UpdateCells(shown, full, sent, start, list) ==
    LET new == Placed(shown, start, list)
        ids == {r[2] : r \in new}
        ask == ids \ cached
    IN  /\ rows' = shown \cup new
        /\ filled' = full \cup (ids \cap cached)
        /\ calls' = IF ask = {} THEN sent ELSE Append(sent, [name |-> "packets", ids |-> ask])

First(v) == Max({1, v.top})
Last1(v) == Min({IF v.filtered = -1 THEN v.packets ELSE v.filtered, v.top + Rows})

\* Mutation: only the start of the range is compared.
SameRangeByStart(v) == v.prev[1] = First(v)

SameRange(v) == v.prev = <<First(v), Last1(v)>>

\* update: hides what is out of sight, and asks for the rows in sight if that
\* is another range than last time.
Update(v, shown, full, sent) ==
    LET kept == {r \in shown : r[1] >= v.top - 1 /\ r[1] <= v.top + Rows}
        still == full \cap {r[2] : r \in kept}
    IN  IF SameRange(v) \/ First(v) > Last1(v)
        THEN /\ view' = [v EXCEPT !.prev = <<First(v), Last1(v)>>]
             /\ rows' = kept /\ filled' = still /\ calls' = sent
        ELSE /\ view' = [v EXCEPT !.prev = <<First(v), Last1(v)>>]
             /\ IF v.filtered = -1
                THEN UpdateCells(kept, still, sent, First(v) - 1,
                                 [n \in 1..(Last1(v) - First(v) + 1) |-> First(v) + n - 1])
                ELSE /\ rows' = kept /\ filled' = still
                     /\ calls' = Append(sent, [name |-> "filtered", start |-> First(v), end |-> Last1(v)])

-----------------------------------------------------------------------------
(* The client.                                                             *)

\* The timer of Session.start.
Poll ==
    /\ Len(calls) + Len(answers) < MaxWire
    /\ calls' = Append(calls, [name |-> "status"])
    /\ UNCHANGED <<serverVars, answers, view, cellVars, cached, userVars, heardVars>>

Answered(name) ==
    /\ answers # <<>> /\ Head(answers).name = name /\ answers' = Tail(answers)
    /\ old' = Max({0, old - 1})

\* The next answer was given before the server had the filter that is applied.
Late == old > 0 \/ \E i \in DOMAIN calls : calls[i].name = "filter"

Hear == heard' = IF Late \/ heard = "late" THEN "late" ELSE "current"

StatusArrives ==
    /\ Answered("status")
    /\ LET s == Head(answers).status
       IN  Update([view EXCEPT !.packets = s.packets, !.filtered = s.filtered], rows, filled, calls)
    /\ Hear
    /\ UNCHANGED <<serverVars, cached, userVars>>

FilteredArrives ==
    /\ Answered("filtered")
    /\ UpdateCells(rows, filled, calls, Head(answers).start - 1, Head(answers).list)
    /\ Hear
    /\ UNCHANGED <<serverVars, view, cached, userVars>>

\* Mutation: a packet is filled in whether its cell is visible or not.
VisibleAll(ids) == ids

Visible(ids) == ids \cap {r[2] : r \in rows}

PacketsArrive ==
    /\ Answered("packets")
    /\ cached' = cached \cup Head(answers).ids
    /\ filled' = filled \cup Visible(Head(answers).ids)
    /\ UNCHANGED <<serverVars, calls, view, rows, userVars, heard>>

Receive == StatusArrives \/ FilteredArrives \/ PacketsArrive

Scroll ==
    /\ scrolls + changes < MaxGestures /\ scrolls' = scrolls + 1
    /\ \E top \in 0..MaxPackets : Update([view EXCEPT !.top = top], rows, filled, calls)
    /\ UNCHANGED <<serverVars, answers, cached, changes, heardVars>>

\* Mutation: the list keeps its rows until it is told of the new filter.
ChangeFilterKeeping ==
    /\ scrolls + changes < MaxGestures /\ changes' = changes + 1
    /\ \E f \in Filters \cup {NoFilter} :
          Update([view EXCEPT !.filtered = 0, !.prev = <<-1, -1>>], rows, filled,
                 Append(calls, [name |-> "filter", filter |-> f]))
    /\ heard' = "nothing"
    /\ UNCHANGED <<serverVars, answers, cached, scrolls, old>>

\* packet-filter-view:filter goes to the list, which empties itself, and to
\* the session.
ChangeFilter ==
    /\ scrolls + changes < MaxGestures /\ changes' = changes + 1
    /\ \E f \in Filters \cup {NoFilter} :
          Update([view EXCEPT !.filtered = 0, !.prev = <<-1, -1>>], {}, {},
                 Append(calls, [name |-> "filter", filter |-> f]))
    /\ heard' = "nothing"
    /\ UNCHANGED <<serverVars, answers, cached, scrolls, old>>

Next == Dissect \/ EndVisit \/ FilterOne \/ Serve \/ Poll \/ Receive \/ Scroll \/ ChangeFilter

Spec == Init /\ [][Next]_vars

\* The server thread, the timer and the client's event loop run. Nothing is
\* said of the other threads: a packet may stay unpublished, and a filter
\* thread, which nobody wakes when one is published, may sleep for ever.
FairSpec == Spec /\ WF_vars(Serve) /\ WF_vars(Poll) /\ WF_vars(Receive)

-----------------------------------------------------------------------------
(* Properties.                                                             *)

\* Types. Only visible cells are filled.
TypeOK ==
    /\ match \in [Filters -> SUBSET Ids] /\ filter \in Filters \cup {NoFilter}
    /\ dissected \in Counts /\ size \in 0..dissected /\ fetched \in 0..size
    /\ status \in Status /\ status.packets <= dissected
    /\ view.packets \in Counts /\ view.filtered \in Counts \cup {-1}
    /\ rows \subseteq (0..(MaxPackets - 1)) \X Ids
    /\ filled \subseteq {r[2] : r \in rows} /\ cached \subseteq Ids
    /\ old \in 0..Len(answers) /\ heard \in {"nothing", "current", "late"}

\* get(list) gives out packets the stream thread is still changing, but the
\* list asks only for packets the thread is done with, and the client caches
\* none before.
AsksFinishedPackets ==
    /\ cached \subseteq 1..size
    /\ \A i \in DOMAIN calls : calls[i].name = "packets" => calls[i].ids \subseteq 1..size

\* The packets the list should show, in their order.
List == IF filter = NoFilter THEN [n \in 1..size |-> n] ELSE Filtered

\* A row shows the packet of its place, however statuses, answers, scrolling and
\* new filters cross each other, unless a status or a page of the old filter has
\* arrived after the new one was applied: such a page puts packets among the
\* rows that are not of the new list.
RowsAreRight ==
    heard # "late" => \A r \in rows : r[1] + 1 \in DOMAIN List /\ List[r[1] + 1] = r[2]

InSight == First(view)..Min({Len(List), view.top + Rows})

\* The list has emptied itself for a filter and is told nothing, for the counts
\* are those told last.
LeftEmpty ==
    /\ heard = "nothing"
    /\ status = [packets |-> size, filtered |-> IF filter = NoFilter THEN -1 ELSE Len(Filtered)]

\* In the end every row in sight shows its packet, of whatever filter was applied
\* last and wherever the user scrolled; but for a late answer, and for a list
\* that is left empty.
RowsConverge ==
    <>[](\/ heard = "late" \/ LeftEmpty
         \/ \A n \in InSight : <<n - 1, List[n]>> \in rows /\ List[n] \in filled)

\* In the end the list shows something if the filter lets something pass.
ShowsPackets == <>[](InSight # {} => rows # {})
=============================================================================
