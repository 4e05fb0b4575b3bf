----------------------------- MODULE PacketLog ------------------------------
(***************************************************************************)
(* What the dispatcher promises its clients, without threads, queues or    *)
(* caches: a numbered log of packets whose readable prefix only grows, and *)
(* the result list of one filter, which is at every moment the ascending   *)
(* list of the matches among the first "scanned" readable packets.         *)
(***************************************************************************)
EXTENDS Integers, Sequences

CONSTANTS Filters, Matching, NoFilter

VARIABLES accepted,  \* packets accepted so far; their ids are 1..accepted
          readable,  \* packets 1..readable can be fetched
          filter,    \* the selected filter, or NoFilter
          scanned,   \* packets 1..scanned have been matched
          results    \* the ids of the matches among them

logVars == <<accepted, readable, filter, scanned, results>>

\* s lists the members of S in ascending order.
Lists(s, S) ==
    /\ {s[i] : i \in 1..Len(s)} = S
    /\ \A i, j \in 1..Len(s) : i < j => s[i] < s[j]

IsPrefixOf(s, t) == Len(s) <= Len(t) /\ \A i \in 1..Len(s) : t[i] = s[i]

Init ==
    /\ accepted = 0
    /\ readable = 0
    /\ filter = NoFilter
    /\ scanned = 0
    /\ results = <<>>

Accept ==
    /\ accepted' = accepted + 1
    /\ UNCHANGED <<readable, filter, scanned, results>>

\* Packets become readable one by one, in the order of their ids.
Publish ==
    /\ readable < accepted
    /\ readable' = readable + 1
    /\ UNCHANGED <<accepted, filter, scanned, results>>

Select(g) ==
    /\ filter' = g
    /\ scanned' = 0
    /\ results' = <<>>
    /\ UNCHANGED <<accepted, readable>>

\* Any number of readable packets is matched; the matches are appended.
Scan ==
    /\ filter # NoFilter
    /\ \E n \in scanned..readable : scanned' = n
    /\ Lists(results', Matching[filter] \cap (1..scanned'))
    /\ IsPrefixOf(results, results')
    /\ UNCHANGED <<accepted, readable, filter>>

Next == \/ Accept
        \/ Publish
        \/ \E g \in Filters \cup {NoFilter} : Select(g)
        \/ Scan

Spec == Init /\ [][Next]_logVars
=============================================================================
