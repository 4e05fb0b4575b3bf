----------------------- MODULE DispatcherFilterProofs -----------------------
(***************************************************************************)
(* The order of the pipeline's watermarks, the exactness of the filter     *)
(* results, what readers see, and that the dispatcher implements the       *)
(* packet log, for any number of threads, any filters and any bounds.      *)
(***************************************************************************)
EXTENDS DispatcherProofs

-----------------------------------------------------------------------------
(* The watermarks.                                                         *)

\* streamMaxID trails the stream thread's cursor by the packet it visits.
StreamInv ==
    /\ streamPc = "visiting" => streamCursor = streamMaxID + 1
    /\ streamPc # "visiting" => streamCursor = streamMaxID

\* PipelineOrder is inductive together with StreamInv.
PipelineInv == PipelineOrder /\ StreamInv

LEMMA InitPipelineInv == Init => PipelineInv
BY DEF Init, PipelineInv, PipelineOrder, StreamInv

\* The steps that move none of the variables of PipelineInv.
LEMMA PipelineInvUnchanged ==
    ASSUME PipelineInv,
           UNCHANGED <<count, packets, maxID, streamVars, fetchedMaxID, filteredMaxID>>
    PROVE  PipelineInv'
BY DEF PipelineInv, PipelineOrder, StreamInv, streamVars

LEMMA NextPipelineInv == TypeOK /\ PipelineInv /\ [Next]_vars => PipelineInv'
<1>. SUFFICES ASSUME TypeOK, PipelineInv, [Next]_vars PROVE PipelineInv'
  OBVIOUS
<1>. USE DEF PipelineInv, PipelineOrder, StreamInv
<1>t. /\ count \in Nat /\ maxID \in Nat /\ streamMaxID \in Nat
      /\ streamCursor \in Nat /\ fetchedMaxID \in Nat /\ filteredMaxID \in Nat
  BY DEF TypeOK, InsertTypes, DissectorTypes, StreamTypes, ContextTypes
<1>1. ASSUME NEW p \in Inserters, Insert(p) PROVE PipelineInv'
  BY <1>1, <1>t DEF Insert, DropPacket, NumberPacket, PushPacket, NotifyDissectors,
     dissectorVars, streamVars, filterVars, contextVars
<1>2. ASSUME NEW w \in Dissectors, Dissect(w) PROVE PipelineInv'
  <2>1. CASE DissectorRest(w) \/ DissectorTake(w)
    BY <2>1, PipelineInvUnchanged DEF DissectorRest, DissectorTake, insertVars,
       filterVars, contextVars
  <2>2. CASE StorePacket(w)
    <3>1. maxID' \in maxID..count /\ (maxID + 1)..maxID' \subseteq packets'
          /\ maxID' + 1 \notin packets'
      BY <2>2 DEF StorePacket, Advanced
    <3>2. 1..maxID' \subseteq packets'
      <4>1. packets \subseteq packets'
        BY <2>2 DEF StorePacket
      <4>2. ASSUME NEW i \in 1..maxID' PROVE i \in packets'
        <5>1. CASE i <= maxID
          BY <1>t, <4>1, <5>1
        <5>2. CASE i > maxID
          BY <1>t, <3>1, <5>2
        <5>. QED
          BY <1>t, <3>1, <5>1, <5>2
      <4>. QED
        BY <4>2
    <3>3. UNCHANGED <<count, streamMaxID, streamCursor, fetchedMaxID, filteredMaxID>>
      BY <2>2 DEF StorePacket, insertVars, contextVars
    <3>4. streamPc' = "visiting" <=> streamPc = "visiting"
      BY <2>2 DEF StorePacket, NotifiedStream
    <3>. QED
      BY <1>t, <3>1, <3>2, <3>3, <3>4
  <2>. QED
    BY <1>2, <2>1, <2>2 DEF Dissect
<1>3. ASSUME Stream PROVE PipelineInv'
  BY <1>3, <1>t DEF Stream, StreamRest, StreamTake, StreamPublish, insertVars,
     dissectorVars, filterVars, contextVars
<1>4. ASSUME NEW f \in FilterThreads, Filter(f) PROVE PipelineInv'
  <2>1. CASE FilterLoad(f) \/ FilterRest(f)
    BY <2>1, PipelineInvUnchanged DEF FilterLoad, FilterRest, pipelineVars,
       insertVars, dissectorVars, contextVars
  <2>2. CASE FilterTake(f)
    BY <2>2, <1>t DEF FilterTake, Fetchable, pipelineVars, insertVars,
       dissectorVars, streamVars
  <2>3. CASE FilterMatch(f)
    BY <2>3, <1>t DEF FilterMatch, Frontier, pipelineVars, insertVars,
       dissectorVars, streamVars
  <2>. QED
    BY <1>4, <2>1, <2>2, <2>3 DEF Filter
<1>5. ASSUME NEW g, Install(g), UNCHANGED pipelineVars PROVE PipelineInv'
  BY <1>5, <1>t DEF Install, pipelineVars, insertVars, dissectorVars, streamVars
<1>6. ASSUME ServerContinues PROVE PipelineInv'
  <2>1. CASE InstallNext
    BY <2>1, <1>5 DEF InstallNext
  <2>2. CASE NotifyAll
    <3>1. streamPc' = "visiting" <=> streamPc = "visiting"
      BY <2>2 DEF NotifyAll, NotifiedStream
    <3>. QED
      BY <2>2, <3>1 DEF NotifyAll, insertVars, contextVars
  <2>3. CASE NotifyFilters \/ JoinWorkers \/ DrainQueue \/ JoinStream
    BY <2>3, PipelineInvUnchanged DEF NotifyFilters, JoinWorkers, DrainQueue,
       JoinStream, pipelineVars, insertVars, dissectorVars, filterVars, contextVars
  <2>. QED
    BY <1>6, <2>1, <2>2, <2>3 DEF ServerContinues
<1>7. ASSUME NEW g \in Filters, SetNewFilter(g) PROVE PipelineInv'
  BY <1>7, <1>5 DEF SetNewFilter
<1>8. ASSUME \/ \E g \in Filters \cup {NoFilter} : ReplaceFilter(g)
             \/ Close
      PROVE  PipelineInv'
  BY <1>8, PipelineInvUnchanged DEF ReplaceFilter, Close, pipelineVars,
     insertVars, dissectorVars, filterVars, contextVars
<1>9. ASSUME SpuriousWakeup PROVE PipelineInv'
  BY <1>9 DEF SpuriousWakeup, insertVars, contextVars
<1>10. ASSUME UNCHANGED vars PROVE PipelineInv'
  BY <1>10, PipelineInvUnchanged DEF vars, pipelineVars, insertVars,
     dissectorVars, filterVars, contextVars
<1>. QED
  BY <1>1, <1>2, <1>3, <1>4, <1>6, <1>7, <1>8, <1>9, <1>10 DEF Next, Terminated

LEMMA PipelineInvariant == Spec => []PipelineInv
BY InitPipelineInv, NextPipelineInv, TypeCorrect, PTL DEF Spec

\* The stages of the pipeline never overtake each other, and maxID is the end
\* of the gapless prefix of stored ids in whatever order dissectors finish.
THEOREM PipelineOrdered == Spec => []PipelineOrder
BY PipelineInvariant, PTL DEF PipelineInv

-----------------------------------------------------------------------------
(* The filter context.                                                     *)

\* The packets in the hands of the filter threads are different members of
\* filtering; without a filter there is no thread.
HandsInv ==
    /\ \A f \in FilterThreads : filterPc[f] = "filtering" => filterId[f] \in filtering
    /\ \A f, g \in FilterThreads :
          filterPc[f] = "filtering" /\ filterPc[g] = "filtering"
            /\ filterId[f] = filterId[g] => f = g
    /\ filter = NoFilter => /\ \A f \in FilterThreads : filterPc[f] = "done"
                            /\ filtered = <<>>

\* Beyond the frontier and up to the last fetched packet, a packet is still
\* being matched or it is in matched exactly if it matches.
ContextInv ==
    /\ \A i \in filtering : filteredMaxID < i /\ i <= fetchedMaxID
    /\ \A i \in matched : /\ filteredMaxID < i /\ i <= fetchedMaxID
                           /\ i \in Matching[filter] \ filtering
    /\ \A i \in Nat : filteredMaxID < i /\ i <= fetchedMaxID /\ i \notin filtering
                         /\ i \in Matching[filter] => i \in matched
    /\ filtering = {} => filteredMaxID = fetchedMaxID

\* The inductive invariant of the filter context.
FilterInv == HandsInv /\ ContextInv /\ FilteredIsExact

\* Appending a batch of larger ids in ascending order keeps a list ascending.
LEMMA AscendingConcat ==
    ASSUME NEW s \in Seq(Nat), NEW t \in Seq(Nat), Ascending(s), Ascending(t),
           \A i \in Elements(s), j \in Elements(t) : i < j
    PROVE  Ascending(s \o t) /\ Elements(s \o t) = Elements(s) \cup Elements(t)
<1>1. /\ Len(s) \in Nat /\ Len(t) \in Nat /\ Len(s \o t) = Len(s) + Len(t)
      /\ \A k \in 1..Len(s) : (s \o t)[k] = s[k]
      /\ \A k \in 1..Len(t) : (s \o t)[k + Len(s)] = t[k]
  OBVIOUS
<1>2. \A k \in 1..Len(s \o t) : k > Len(s) =>
         k - Len(s) \in 1..Len(t) /\ (s \o t)[k] = t[k - Len(s)]
  <2>. SUFFICES ASSUME NEW k \in 1..Len(s \o t), k > Len(s)
                PROVE  k - Len(s) \in 1..Len(t) /\ (s \o t)[k] = t[k - Len(s)]
    OBVIOUS
  <2>1. k - Len(s) \in 1..Len(t)
    BY <1>1
  <2>2. (k - Len(s)) + Len(s) = k
    BY <1>1
  <2>. QED
    BY <1>1, <2>1, <2>2
<1>3. Ascending(s \o t)
  <2>. SUFFICES ASSUME NEW i \in 1..Len(s \o t), NEW j \in 1..Len(s \o t), i < j
                PROVE  (s \o t)[i] < (s \o t)[j]
    BY DEF Ascending
  <2>1. CASE j <= Len(s)
    BY <1>1, <2>1 DEF Ascending
  <2>2. CASE i > Len(s)
    <3>1. /\ i - Len(s) \in 1..Len(t) /\ j - Len(s) \in 1..Len(t)
          /\ i - Len(s) < j - Len(s)
      BY <1>1, <1>2, <2>2
    <3>2. t[i - Len(s)] < t[j - Len(s)]
      BY <3>1 DEF Ascending
    <3>3. (s \o t)[i] = t[i - Len(s)] /\ (s \o t)[j] = t[j - Len(s)]
      BY <1>1, <1>2, <2>2
    <3>. QED
      BY <3>2, <3>3
  <2>3. CASE i <= Len(s) /\ j > Len(s)
    BY <1>1, <1>2, <2>3 DEF Elements
  <2>. QED
    BY <1>1, <2>1, <2>2, <2>3
<1>4. Elements(s \o t) \subseteq Elements(s) \cup Elements(t)
  <2>. SUFFICES ASSUME NEW k \in 1..Len(s \o t)
                PROVE  (s \o t)[k] \in Elements(s) \cup Elements(t)
    BY DEF Elements
  <2>. QED
    BY <1>1, <1>2 DEF Elements
<1>5. Elements(s) \subseteq Elements(s \o t)
  BY <1>1 DEF Elements
<1>6. Elements(t) \subseteq Elements(s \o t)
  <2>. SUFFICES ASSUME NEW k \in 1..Len(t) PROVE t[k] \in Elements(s \o t)
    BY DEF Elements
  <2>1. k + Len(s) \in 1..Len(s \o t)
    BY <1>1
  <2>. QED
    BY <1>1, <2>1 DEF Elements
<1>. QED
  BY <1>3, <1>4, <1>5, <1>6

LEMMA InitFilterInv == Init => FilterInv
BY DEF Init, FilterInv, HandsInv, ContextInv, FilteredIsExact

\* The steps of the other threads, and of a filter thread between packets.
LEMMA FilterInvUnchanged ==
    ASSUME TypeOK, FilterInv, UNCHANGED <<contextVars, filterId, filter>>,
           \A f \in FilterThreads :
              /\ filterPc'[f] = "filtering" => filterPc[f] = "filtering"
              /\ filterPc[f] = "done" => filterPc'[f] = "done"
    PROVE  FilterInv'
<1>1. HandsInv'
  BY DEF FilterInv, HandsInv, contextVars
<1>2. ContextInv' /\ FilteredIsExact'
  BY DEF FilterInv, ContextInv, FilteredIsExact, contextVars
<1>. QED
  BY <1>1, <1>2 DEF FilterInv

\* A wakeup takes no thread into or out of its work.
LEMMA NotifiedFilters ==
    ASSUME FilterTypes, filterPc' = Notified(filterPc)
    PROVE  \A f \in FilterThreads :
              /\ filterPc'[f] = "filtering" => filterPc[f] = "filtering"
              /\ filterPc[f] = "done" => filterPc'[f] = "done"
BY DEF FilterTypes, Notified

LEMMA TakeFilterInv ==
    ASSUME TypeOK, PipelineOrder, FilterInv, NEW f \in FilterThreads, FilterTake(f)
    PROVE  FilterInv'
<1>t. /\ fetchedMaxID \in Nat /\ filteredMaxID \in Nat
      /\ filtering \subseteq Nat /\ matched \subseteq Nat
      /\ filterPc \in [FilterThreads ->
                        {"loading", "ready", "waiting", "filtering", "done"}]
      /\ filterId \in [FilterThreads -> Nat]
  BY DEF TypeOK, ContextTypes, FilterTypes
<1>1. /\ filterPc[f] = "ready"
      /\ fetchedMaxID' = fetchedMaxID + 1
      /\ filtering' = filtering \cup {fetchedMaxID + 1}
      /\ filterId' = [filterId EXCEPT ![f] = fetchedMaxID + 1]
      /\ filterPc' = [filterPc EXCEPT ![f] = "filtering"]
      /\ UNCHANGED <<filteredMaxID, matched, filtered, filter>>
  BY DEF FilterTake, serverVars, requestVars
<1>2. filteredMaxID <= fetchedMaxID
  BY DEF PipelineOrder
<1>3. /\ \A i \in filtering : filteredMaxID < i /\ i <= fetchedMaxID
      /\ \A i \in matched : /\ filteredMaxID < i /\ i <= fetchedMaxID
                             /\ i \in Matching[filter] \ filtering
      /\ \A i \in Nat : filteredMaxID < i /\ i <= fetchedMaxID /\ i \notin filtering
                           /\ i \in Matching[filter] => i \in matched
  BY DEF FilterInv, ContextInv
<1>4. HandsInv'
  BY <1>t, <1>1, <1>3 DEF FilterInv, HandsInv
<1>5. ContextInv'
  <2>1. ASSUME NEW i \in filtering' PROVE filteredMaxID' < i /\ i <= fetchedMaxID'
    <3>1. CASE i = fetchedMaxID + 1
      BY <1>t, <1>1, <1>2, <3>1
    <3>2. CASE i \in filtering
      <4>1. i \in Nat /\ filteredMaxID < i /\ i <= fetchedMaxID
        BY <1>t, <1>3, <3>2
      <4>. QED
        BY <1>t, <1>1, <4>1
    <3>. QED
      BY <1>1, <3>1, <3>2
  <2>2. \A i \in matched' : /\ filteredMaxID' < i /\ i <= fetchedMaxID'
                            /\ i \in Matching[filter'] \ filtering'
    BY <1>t, <1>1, <1>2, <1>3
  <2>3. \A i \in Nat : filteredMaxID' < i /\ i <= fetchedMaxID' /\ i \notin filtering'
                         /\ i \in Matching[filter'] => i \in matched'
    BY <1>t, <1>1, <1>2, <1>3
  <2>4. filtering' # {}
    BY <1>1
  <2>. QED
    BY <2>1, <2>2, <2>3, <2>4 DEF ContextInv
<1>6. FilteredIsExact'
  BY <1>1 DEF FilterInv, FilteredIsExact
<1>. QED
  BY <1>4, <1>5, <1>6 DEF FilterInv

\* The frontier only advances, and stays below what is still being matched.
LEMMA FrontierAdvances ==
    ASSUME TypeOK, FilterInv, NEW f \in FilterThreads, FilterMatch(f)
    PROVE  /\ filteredMaxID' \in Nat
           /\ filteredMaxID <= filteredMaxID' /\ filteredMaxID' <= fetchedMaxID
           /\ \A i \in filtering' : filteredMaxID' < i
           /\ filtering' = {} => filteredMaxID' = fetchedMaxID
<1>. DEFINE m == filteredMaxID'
<1>t. /\ fetchedMaxID \in Nat /\ filteredMaxID \in Nat /\ filtering \subseteq Nat
  BY DEF TypeOK, ContextTypes
<1>1. filtering' = filtering \ {filterId[f]} /\ m \in Frontier(filtering')
  BY DEF FilterMatch
<1>h. filterId[f] \in filtering
  BY DEF FilterInv, HandsInv, FilterMatch
<1>c. \A i \in filtering : filteredMaxID < i /\ i <= fetchedMaxID
  BY DEF FilterInv, ContextInv
<1>2. /\ m \in Nat /\ filteredMaxID <= m /\ m <= fetchedMaxID
      /\ \A i \in filtering' : m < i
      /\ filtering' = {} => m = fetchedMaxID
  <2>1. CASE filtering' = {}
    <3>1. m = fetchedMaxID
      BY <1>1, <2>1 DEF Frontier
    <3>2. filteredMaxID <= fetchedMaxID
      <4>1. /\ filterId[f] \in Nat
            /\ filteredMaxID < filterId[f] /\ filterId[f] <= fetchedMaxID
        BY <1>t, <1>h, <1>c
      <4>. QED
        BY <1>t, <4>1
    <3>. QED
      BY <1>t, <2>1, <3>1, <3>2
  <2>2. CASE filtering' # {}
    <3>1. m \in 0..fetchedMaxID /\ m + 1 \in filtering' /\ \A i \in filtering' : m < i
      BY <1>1, <2>2 DEF Frontier
    <3>2. filteredMaxID < m + 1
      BY <1>1, <1>c, <3>1
    <3>3. m \in 0..fetchedMaxID /\ fetchedMaxID \in Nat /\ filteredMaxID \in Nat
      BY <1>t, <3>1
    <3>4. m \in Nat /\ m <= fetchedMaxID /\ filteredMaxID <= m
      <4>. HIDE DEF m
      <4>. QED
        BY <3>2, <3>3
    <3>. QED
      BY <2>2, <3>1, <3>4
  <2>. QED
    BY <2>1, <2>2
<1>. QED
  BY <1>2

LEMMA MatchFilterInv ==
    ASSUME TypeOK, FilterInv, NEW f \in FilterThreads, FilterMatch(f)
    PROVE  FilterInv'
<1>. DEFINE id      == filterId[f]
            known   == IF id \in Matching[filter] THEN matched \cup {id} ELSE matched
            m       == filteredMaxID'
            settled == {i \in known : i <= m}
<1>t. /\ fetchedMaxID \in Nat /\ filteredMaxID \in Nat
      /\ filtering \subseteq Nat /\ matched \subseteq Nat /\ IsFiniteSet(matched)
      /\ filtered \in Seq(Nat) /\ id \in Nat
      /\ filterPc \in [FilterThreads ->
                        {"loading", "ready", "waiting", "filtering", "done"}]
      /\ filterId \in [FilterThreads -> Nat]
  BY DEF TypeOK, ContextTypes, FilterTypes
<1>1. /\ filterPc[f] = "filtering"
      /\ filtering' = filtering \ {id}
      /\ m \in Frontier(filtering')
      /\ matched' = known \ settled
      /\ filterId' = [filterId EXCEPT ![f] = 0]
      /\ filterPc' = [filterPc EXCEPT ![f] = "ready"]
      /\ UNCHANGED <<fetchedMaxID, filter>>
  BY DEF FilterMatch, serverVars, requestVars
<1>2. PICK batch \in Enumerations(settled) : filtered' = filtered \o batch
  BY DEF FilterMatch
<1>3. id \in filtering /\ filter # NoFilter
  BY <1>1 DEF FilterInv, HandsInv
<1>4. /\ \A i \in filtering : filteredMaxID < i /\ i <= fetchedMaxID
      /\ \A i \in matched : /\ filteredMaxID < i /\ i <= fetchedMaxID
                             /\ i \in Matching[filter] \ filtering
      /\ \A i \in Nat : filteredMaxID < i /\ i <= fetchedMaxID /\ i \notin filtering
                           /\ i \in Matching[filter] => i \in matched
  BY DEF FilterInv, ContextInv
<1>5. /\ m \in Nat /\ filteredMaxID <= m /\ m <= fetchedMaxID
      /\ \A i \in filtering' : m < i
      /\ filtering' = {} => m = fetchedMaxID
  BY FrontierAdvances
\* Every id in known is a match beyond the old frontier that is not in
\* filtering any more, and known has all of those.
<1>6. /\ known \subseteq Nat /\ IsFiniteSet(known)
      /\ \A i \in known : /\ filteredMaxID < i /\ i <= fetchedMaxID
                           /\ i \in Matching[filter] \ filtering'
      /\ \A i \in Nat : filteredMaxID < i /\ i <= fetchedMaxID /\ i \notin filtering'
                           /\ i \in Matching[filter] => i \in known
  <2>1. known \subseteq Nat
    BY <1>t
  <2>2. IsFiniteSet(known)
    BY <1>t, FS_AddElement
  <2>3. \A i \in known : /\ filteredMaxID < i /\ i <= fetchedMaxID
                           /\ i \in Matching[filter] \ filtering'
    BY <1>1, <1>3, <1>4
  <2>4. \A i \in Nat : filteredMaxID < i /\ i <= fetchedMaxID /\ i \notin filtering'
                           /\ i \in Matching[filter] => i \in known
    BY <1>1, <1>4
  <2>. QED
    BY <2>1, <2>2, <2>3, <2>4
<1>7. batch \in Seq(Nat) /\ Ascending(batch) /\ Elements(batch) = settled
  <2>1. settled \subseteq Nat /\ IsFiniteSet(settled)
    BY <1>6, FS_Subset
  <2>. HIDE DEF settled
  <2>. QED
    BY <1>2, <2>1, EnumerationsLemma
<1>8. HandsInv'
  BY <1>t, <1>1, <1>3 DEF FilterInv, HandsInv
<1>9. ContextInv'
  <2>1. \A i \in filtering' : filteredMaxID' < i /\ i <= fetchedMaxID'
    BY <1>1, <1>4, <1>5
  <2>2. \A i \in matched' : /\ filteredMaxID' < i /\ i <= fetchedMaxID'
                            /\ i \in Matching[filter'] \ filtering'
    <3>. SUFFICES ASSUME NEW i \in known \ settled
                  PROVE  /\ m < i /\ i <= fetchedMaxID
                         /\ i \in Matching[filter] \ filtering'
      BY <1>1
    <3>. HIDE DEF known
    <3>1. i \in known /\ i \in Nat /\ ~(i <= m)
      BY <1>6
    <3>2. i <= fetchedMaxID /\ i \in Matching[filter] \ filtering'
      BY <1>6
    <3>. QED
      BY <1>5, <3>1, <3>2
  <2>3. \A i \in Nat : filteredMaxID' < i /\ i <= fetchedMaxID' /\ i \notin filtering'
                         /\ i \in Matching[filter'] => i \in matched'
    <3>. HIDE DEF known
    <3>. QED
      BY <1>t, <1>1, <1>5, <1>6
  <2>4. filtering' = {} => filteredMaxID' = fetchedMaxID'
    BY <1>1, <1>5
  <2>. QED
    BY <2>1, <2>2, <2>3, <2>4 DEF ContextInv
<1>10. FilteredIsExact'
  <2>1. Ascending(filtered) /\ Elements(filtered) = Matching[filter] \cap (1..filteredMaxID)
    BY <1>3 DEF FilterInv, FilteredIsExact
  <2>. HIDE DEF known
  <2>2. ASSUME NEW i \in Elements(filtered), NEW j \in Elements(batch) PROVE i < j
    <3>1. i \in Nat /\ i <= filteredMaxID
      BY <1>t, <2>1
    <3>2. j \in Nat /\ filteredMaxID < j
      BY <1>6, <1>7
    <3>. QED
      BY <1>t, <3>1, <3>2
  <2>3. Ascending(filtered') /\ Elements(filtered') = Elements(filtered) \cup settled
    BY <1>t, <1>2, <1>7, <2>1, <2>2, AscendingConcat
  <2>4. ASSUME NEW i \in Elements(filtered') PROVE i \in Matching[filter] \cap (1..m)
    <3>1. CASE i \in Elements(filtered)
      BY <1>t, <1>5, <2>1, <3>1
    <3>2. CASE i \in settled
      <4>1. i \in Nat /\ filteredMaxID < i /\ i <= m /\ i \in Matching[filter]
        BY <1>6, <3>2
      <4>. QED
        BY <1>t, <1>5, <4>1
    <3>. QED
      BY <2>3, <3>1, <3>2
  <2>5. ASSUME NEW i \in Matching[filter] \cap (1..m) PROVE i \in Elements(filtered')
    <3>1. CASE i <= filteredMaxID
      BY <1>t, <2>1, <2>3, <3>1
    <3>2. CASE i > filteredMaxID
      <4>1. i \notin filtering'
        BY <1>5
      <4>2. i \in known
        BY <1>t, <1>5, <1>6, <3>2, <4>1
      <4>. QED
        BY <1>5, <2>3, <4>2
    <3>. QED
      BY <1>t, <1>5, <3>1, <3>2
  <2>6. Elements(filtered') = Matching[filter] \cap (1..m)
    BY <2>4, <2>5
  <2>. QED
    BY <1>1, <1>3, <2>3, <2>6 DEF FilteredIsExact
<1>. QED
  BY <1>8, <1>9, <1>10 DEF FilterInv

\* A fresh filter context has seen nothing.
LEMMA InstallFilterInv ==
    ASSUME NEW g \in Filters \cup {NoFilter}, Install(g)
    PROVE  FilterInv'
<1>1. HandsInv'
  BY DEF Install, HandsInv
<1>2. ContextInv' /\ FilteredIsExact'
  BY DEF Install, ContextInv, FilteredIsExact, Ascending, Elements
<1>. QED
  BY <1>1, <1>2 DEF FilterInv

LEMMA NextFilterInv ==
    TypeOK /\ PipelineOrder /\ FilterInv /\ [Next]_vars => FilterInv'
<1>. SUFFICES ASSUME TypeOK, PipelineOrder, FilterInv, [Next]_vars PROVE FilterInv'
  OBVIOUS
<1>t. FilterTypes /\ ServerTypes
  BY DEF TypeOK
<1>1. ASSUME NEW p \in Inserters, Insert(p) PROVE FilterInv'
  BY <1>1, FilterInvUnchanged DEF Insert, DropPacket, NumberPacket, PushPacket,
     NotifyDissectors, filterVars, serverVars, requestVars
<1>2. ASSUME NEW w \in Dissectors, Dissect(w) PROVE FilterInv'
  <2>1. CASE DissectorRest(w) \/ DissectorTake(w)
    BY <2>1, FilterInvUnchanged DEF DissectorRest, DissectorTake, filterVars,
       serverVars, requestVars
  <2>2. CASE StorePacket(w)
    BY <1>t, <2>2, NotifiedFilters, FilterInvUnchanged DEF StorePacket, serverVars,
       requestVars
  <2>. QED
    BY <1>2, <2>1, <2>2 DEF Dissect
<1>3. ASSUME Stream PROVE FilterInv'
  BY <1>3, FilterInvUnchanged DEF Stream, StreamRest, StreamTake, StreamPublish,
     filterVars, serverVars, requestVars
<1>4. ASSUME NEW f \in FilterThreads, Filter(f) PROVE FilterInv'
  <2>1. CASE FilterLoad(f) \/ FilterRest(f)
    BY <1>t, <2>1, FilterInvUnchanged DEF FilterLoad, FilterRest, FilterTypes,
       serverVars, requestVars
  <2>. QED
    BY <1>4, <2>1, TakeFilterInv, MatchFilterInv DEF Filter
<1>5. ASSUME NEW g \in Filters, SetNewFilter(g) PROVE FilterInv'
  BY <1>5, InstallFilterInv DEF SetNewFilter
<1>6. ASSUME \/ \E g \in Filters \cup {NoFilter} : ReplaceFilter(g)
             \/ Close
      PROVE  FilterInv'
  BY <1>6, FilterInvUnchanged DEF ReplaceFilter, Close, filterVars
<1>7. ASSUME ServerContinues PROVE FilterInv'
  <2>1. CASE InstallNext
    BY <1>t, <2>1, InstallFilterInv DEF InstallNext, ServerTypes
  <2>2. CASE NotifyFilters \/ NotifyAll
    BY <1>t, <2>2, NotifiedFilters, FilterInvUnchanged DEF NotifyFilters, NotifyAll,
       requestVars
  <2>3. CASE JoinWorkers \/ DrainQueue \/ JoinStream
    BY <2>3, FilterInvUnchanged DEF JoinWorkers, DrainQueue, JoinStream,
       filterVars, requestVars
  <2>. QED
    BY <1>7, <2>1, <2>2, <2>3 DEF ServerContinues
<1>8. ASSUME SpuriousWakeup PROVE FilterInv'
  BY <1>t, <1>8, FilterInvUnchanged DEF SpuriousWakeup, FilterTypes, serverVars,
     requestVars
<1>9. ASSUME UNCHANGED vars PROVE FilterInv'
  BY <1>9, FilterInvUnchanged DEF vars, filterVars, serverVars, requestVars
<1>. QED
  BY <1>1, <1>2, <1>3, <1>4, <1>5, <1>6, <1>7, <1>8, <1>9 DEF Next, Terminated

LEMMA FilterInvariant == Spec => []FilterInv
<1>1. Spec => []PipelineOrder
  BY PipelineOrdered
<1>. QED
  BY <1>1, InitFilterInv, NextFilterInv, TypeCorrect, PTL DEF Spec

\* The result list of a filter is exactly the ascending list of the matches
\* among the first filteredMaxID packets, however many threads match packets
\* and in whatever order they finish.
THEOREM FilteredExact == Spec => []FilteredIsExact
BY FilterInvariant, PTL DEF FilterInv

\* Whenever no packet is being matched, everything fetched is settled and no
\* recorded match is missing from the result list.
THEOREM NothingHeldBack == Spec => []NoMatchHeldBack
<1>1. FilterInv /\ TypeOK => NoMatchHeldBack
  <2>. SUFFICES ASSUME FilterInv, TypeOK, filtering = {}
                PROVE  matched = {} /\ filteredMaxID = fetchedMaxID
    BY DEF NoMatchHeldBack
  <2>1. filteredMaxID = fetchedMaxID
    BY DEF FilterInv, ContextInv
  <2>2. ASSUME NEW i \in matched PROVE FALSE
    <3>1. filteredMaxID < i /\ i <= fetchedMaxID
      BY DEF FilterInv, ContextInv
    <3>2. i \in Nat /\ filteredMaxID \in Nat
      BY DEF TypeOK, ContextTypes
    <3>. QED
      BY <2>1, <3>1, <3>2
  <2>. QED
    BY <2>1, <2>2
<1>. QED
  BY <1>1, FilterInvariant, TypeCorrect, PTL

-----------------------------------------------------------------------------
(* The abstract packet log: every step of a thread is a step of the log or *)
(* leaves the log alone.                                                   *)

LogInv == TypeOK /\ PipelineInv /\ FilterInv

LEMMA LogInvariant == Spec => []LogInv
BY TypeCorrect, PipelineInvariant, FilterInvariant, PTL DEF LogInv

LEMMA InitRefines == Init => Log!Init
BY DEF Init, Log!Init

\* Matching a packet is a Scan, even when it publishes nothing.
LEMMA MatchRefines ==
    ASSUME LogInv, LogInv', NEW f \in FilterThreads, FilterMatch(f)
    PROVE  Log!Scan
<1>. DEFINE known   == IF filterId[f] \in Matching[filter]
                       THEN matched \cup {filterId[f]} ELSE matched
            settled == {i \in known : i <= filteredMaxID'}
<1>1. filter # NoFilter /\ filter' = filter
  BY DEF LogInv, FilterInv, HandsInv, FilterMatch, serverVars, requestVars
<1>2. \E n \in filteredMaxID..streamMaxID : filteredMaxID' = n
  <2>1. filteredMaxID' \in Nat /\ filteredMaxID <= filteredMaxID'
        /\ filteredMaxID' <= fetchedMaxID
    BY FrontierAdvances DEF LogInv
  <2>2. filteredMaxID \in Nat /\ fetchedMaxID \in Nat /\ streamMaxID \in Nat
    BY DEF LogInv, TypeOK, ContextTypes, StreamTypes
  <2>3. fetchedMaxID <= streamMaxID
    BY DEF LogInv, PipelineInv, PipelineOrder
  <2>. QED
    BY <2>1, <2>2, <2>3
<1>3. Log!Lists(filtered', Matching[filter] \cap (1..filteredMaxID'))
  <2>1. /\ Ascending(filtered')
        /\ Elements(filtered') = Matching[filter] \cap (1..filteredMaxID')
    BY <1>1 DEF LogInv, FilterInv, FilteredIsExact
  <2>. QED
    BY <2>1 DEF Log!Lists, Ascending, Elements
<1>4. Log!IsPrefixOf(filtered, filtered')
  <2>1. PICK batch \in Enumerations(settled) : filtered' = filtered \o batch
    BY DEF FilterMatch
  <2>2. known \subseteq Nat /\ IsFiniteSet(known)
    BY FS_AddElement DEF LogInv, TypeOK, ContextTypes, FilterTypes
  <2>3. settled \subseteq Nat /\ IsFiniteSet(settled)
    BY <2>2, FS_Subset
  <2>4. batch \in Seq(Nat)
    <3>. HIDE DEF settled
    <3>. QED
      BY <2>1, <2>3, EnumerationsLemma
  <2>5. filtered \in Seq(Nat)
    BY DEF LogInv, TypeOK, ContextTypes
  <2>. QED
    BY <2>1, <2>4, <2>5 DEF Log!IsPrefixOf
<1>5. UNCHANGED <<count, streamMaxID>>
  BY DEF FilterMatch, pipelineVars, insertVars, streamVars
<1>. QED
  BY <1>1, <1>2, <1>3, <1>4, <1>5 DEF Log!Scan

LEMMA NextRefines == LogInv /\ LogInv' /\ [Next]_vars => [Log!Next]_(Log!logVars)
<1>. SUFFICES ASSUME LogInv, LogInv', [Next]_vars
              PROVE  Log!Next \/ UNCHANGED Log!logVars
  OBVIOUS
<1>. USE DEF Log!logVars
<1>1. ASSUME NEW p \in Inserters, Insert(p) PROVE Log!Next \/ UNCHANGED Log!logVars
  <2>1. CASE NumberPacket(p)
    BY <2>1 DEF NumberPacket, streamVars, filterVars, contextVars, serverVars,
       requestVars, Log!Next, Log!Accept
  <2>2. CASE DropPacket(p) \/ PushPacket(p) \/ NotifyDissectors(p)
    BY <2>2 DEF DropPacket, PushPacket, NotifyDissectors, streamVars, filterVars,
       contextVars, serverVars, requestVars
  <2>. QED
    BY <1>1, <2>1, <2>2 DEF Insert
<1>2. ASSUME NEW w \in Dissectors, Dissect(w) PROVE UNCHANGED Log!logVars
  BY <1>2 DEF Dissect, DissectorRest, DissectorTake, StorePacket, insertVars,
     streamVars, filterVars, contextVars, serverVars, requestVars
<1>3. ASSUME Stream PROVE Log!Next \/ UNCHANGED Log!logVars
  <2>1. CASE StreamRest \/ StreamTake
    BY <2>1 DEF StreamRest, StreamTake, insertVars, filterVars, contextVars,
       serverVars, requestVars
  <2>2. CASE StreamPublish
    <3>1. streamMaxID' = streamMaxID + 1 /\ streamMaxID + 1 <= count
      BY <2>2 DEF StreamPublish, LogInv, PipelineInv, PipelineOrder, StreamInv,
         TypeOK, StreamTypes, InsertTypes, DissectorTypes
    <3>2. streamMaxID < count
      BY <3>1 DEF LogInv, TypeOK, StreamTypes, InsertTypes
    <3>3. UNCHANGED <<count, filter, filteredMaxID, filtered>>
      BY <2>2 DEF StreamPublish, insertVars, filterVars, contextVars, serverVars,
         requestVars
    <3>. QED
      BY <3>1, <3>2, <3>3 DEF Log!Next, Log!Publish
  <2>. QED
    BY <1>3, <2>1, <2>2 DEF Stream
<1>4. ASSUME NEW f \in FilterThreads, Filter(f)
      PROVE  Log!Next \/ UNCHANGED Log!logVars
  <2>1. CASE FilterLoad(f) \/ FilterRest(f) \/ FilterTake(f)
    BY <2>1 DEF FilterLoad, FilterRest, FilterTake, pipelineVars, insertVars,
       streamVars, contextVars, serverVars, requestVars
  <2>2. CASE FilterMatch(f)
    BY <2>2, MatchRefines DEF Log!Next
  <2>. QED
    BY <1>4, <2>1, <2>2 DEF Filter
<1>5. ASSUME NEW g \in Filters \cup {NoFilter}, Install(g), UNCHANGED pipelineVars
      PROVE  Log!Next
  <2>1. Log!Select(g)
    BY <1>5 DEF Install, pipelineVars, insertVars, streamVars, Log!Select
  <2>. QED
    BY <2>1 DEF Log!Next
<1>6. ASSUME ServerContinues PROVE Log!Next \/ UNCHANGED Log!logVars
  <2>1. CASE InstallNext
    BY <1>5, <2>1 DEF InstallNext, LogInv, TypeOK, ServerTypes
  <2>2. CASE NotifyFilters \/ NotifyAll \/ JoinWorkers \/ DrainQueue \/ JoinStream
    BY <2>2 DEF NotifyFilters, NotifyAll, JoinWorkers, DrainQueue, JoinStream,
       pipelineVars, insertVars, streamVars, filterVars, contextVars, requestVars
  <2>. QED
    BY <1>6, <2>1, <2>2 DEF ServerContinues
<1>7. ASSUME NEW g \in Filters, SetNewFilter(g) PROVE Log!Next
  BY <1>5, <1>7 DEF SetNewFilter
<1>8. ASSUME \/ \E g \in Filters \cup {NoFilter} : ReplaceFilter(g)
             \/ Close
      PROVE  UNCHANGED Log!logVars
  BY <1>8 DEF ReplaceFilter, Close, pipelineVars, insertVars, streamVars,
     filterVars, contextVars
<1>9. ASSUME SpuriousWakeup PROVE UNCHANGED Log!logVars
  BY <1>9 DEF SpuriousWakeup, insertVars, contextVars, serverVars, requestVars
<1>10. ASSUME UNCHANGED vars PROVE UNCHANGED Log!logVars
  BY <1>10 DEF vars, pipelineVars, insertVars, streamVars, filterVars,
     contextVars, serverVars, requestVars
<1>. QED
  BY <1>1, <1>2, <1>3, <1>4, <1>6, <1>7, <1>8, <1>9, <1>10 DEF Next, Terminated

\* Clients see a packet log: the threads, the queue, the out-of-order
\* dissection and the out-of-order matching cannot be told from a single
\* thread that publishes packets one by one and scans them in order.
THEOREM Refinement == Spec => ImplementsPacketLog
BY InitRefines, NextRefines, LogInvariant, PTL DEF Spec, ImplementsPacketLog, Log!Spec

-----------------------------------------------------------------------------
(* What readers see.                                                       *)

\* A packet below streamMaxID is in the cache, so it is in no dissector's
\* hands; the stream thread is past it; the filter threads fetch no other.
THEOREM ReadersSafe == Spec => []ReadersSeeFinishedPackets
<1>1. TypeOK /\ PlaceInv /\ PipelineInv /\ FilterInv => ReadersSeeFinishedPackets
  <2>. SUFFICES ASSUME TypeOK, PlaceInv, PipelineInv, FilterInv
                PROVE  ReadersSeeFinishedPackets
    OBVIOUS
  <2>t. /\ maxID \in Nat /\ streamMaxID \in Nat /\ streamCursor \in Nat
        /\ fetchedMaxID \in Nat /\ filtering \subseteq Nat
    BY DEF TypeOK, DissectorTypes, StreamTypes, ContextTypes
  <2>1. /\ fetchedMaxID <= streamMaxID
        /\ streamMaxID <= streamCursor /\ streamCursor <= maxID
        /\ 1..maxID \subseteq packets
    BY DEF PipelineInv, PipelineOrder
  <2>2. ASSUME NEW i \in 1..streamMaxID
        PROVE  /\ i \in packets
               /\ \A w \in Dissectors : dissecting[w] # i
               /\ ~(streamPc = "visiting" /\ streamCursor = i)
    <3>1. i \in packets
      BY <2>t, <2>1
    <3>2. \A w \in Dissectors : dissecting[w] # i
      BY <3>1 DEF PlaceInv, ApartInv
    <3>3. ~(streamPc = "visiting" /\ streamCursor = i)
      BY <2>t DEF PipelineInv, StreamInv
    <3>. QED
      BY <3>1, <3>2, <3>3
  <2>3. ASSUME NEW f \in FilterThreads PROVE filterId[f] <= streamMaxID
    <3>1. CASE filterPc[f] = "filtering"
      <4>1. filterId[f] \in filtering /\ filterId[f] <= fetchedMaxID
        BY <3>1 DEF FilterInv, HandsInv, ContextInv
      <4>2. filterId[f] \in Nat
        BY <2>t, <4>1
      <4>. QED
        BY <2>t, <2>1, <4>1, <4>2
    <3>2. CASE filterPc[f] # "filtering"
      <4>1. filterId[f] = 0
        BY <3>2 DEF TypeOK, FilterTypes
      <4>. QED
        BY <2>t, <4>1
    <3>. QED
      BY <3>1, <3>2
  <2>. QED
    BY <2>2, <2>3 DEF ReadersSeeFinishedPackets
<1>. QED
  BY <1>1, TypeCorrect, PlaceInvariant, PipelineInvariant, FilterInvariant, PTL

\* As long as the filter stays the result list only grows at its end.
LEMMA FilteredGrows ==
    ASSUME LogInv, LogInv', [Next]_vars, ~InstallNext
    PROVE  Log!IsPrefixOf(filtered, filtered')
<1>t. filtered \in Seq(Nat) /\ filtered' \in Seq(Nat)
  BY DEF LogInv, TypeOK, ContextTypes
<1>0. CASE filtered' = filtered
  BY <1>t, <1>0 DEF Log!IsPrefixOf
<1>1. ASSUME NEW p \in Inserters, Insert(p) PROVE filtered' = filtered
  BY <1>1 DEF Insert, DropPacket, NumberPacket, PushPacket, NotifyDissectors,
     filterVars, contextVars
<1>2. ASSUME NEW w \in Dissectors, Dissect(w) PROVE filtered' = filtered
  BY <1>2 DEF Dissect, DissectorRest, DissectorTake, StorePacket, filterVars, contextVars
<1>3. ASSUME Stream PROVE filtered' = filtered
  BY <1>3 DEF Stream, StreamRest, StreamTake, StreamPublish, filterVars, contextVars
<1>4. ASSUME NEW f \in FilterThreads, Filter(f)
      PROVE  filtered' = filtered \/ Log!IsPrefixOf(filtered, filtered')
  <2>1. CASE FilterMatch(f)
    BY <2>1, MatchRefines DEF Log!Scan
  <2>2. CASE FilterLoad(f) \/ FilterRest(f) \/ FilterTake(f)
    BY <2>2 DEF FilterLoad, FilterRest, FilterTake, contextVars
  <2>. QED
    BY <1>4, <2>1, <2>2 DEF Filter
<1>5. ASSUME NEW g \in Filters, SetNewFilter(g) PROVE filtered' = filtered
  <2>1. filtered = <<>> /\ filtered' = <<>>
    BY <1>5 DEF SetNewFilter, Install, LogInv, FilterInv, HandsInv
  <2>. QED
    BY <2>1
<1>6. ASSUME \/ \E g \in Filters \cup {NoFilter} : ReplaceFilter(g)
             \/ Close
             \/ SpuriousWakeup
             \/ UNCHANGED vars
      PROVE  filtered' = filtered
  BY <1>6 DEF ReplaceFilter, Close, SpuriousWakeup, vars, filterVars, contextVars
<1>7. ASSUME ServerContinues PROVE filtered' = filtered
  BY <1>7 DEF ServerContinues, NotifyFilters, NotifyAll, JoinWorkers, DrainQueue,
     JoinStream, filterVars, contextVars
<1>. QED
  BY <1>0, <1>1, <1>2, <1>3, <1>4, <1>5, <1>6, <1>7 DEF Next, Terminated

\* A page of a longer list begins with the page of the list it continues.
LEMMA PageOfPrefix ==
    ASSUME filtered \in Seq(Nat), filtered' \in Seq(Nat),
           Log!IsPrefixOf(filtered, filtered'),
           NEW start \in Nat, NEW end \in Nat, NEW i \in DOMAIN Page(start, end)
    PROVE  i \in DOMAIN Page(start, end)' /\ Page(start, end)'[i] = Page(start, end)[i]
<1>. DEFINE length(s) == IF end <= Len(s) THEN end - start + 1
                         ELSE IF start <= Len(s) THEN Len(s) - start + 1
                         ELSE 0
<1>t. /\ Len(filtered) \in Nat /\ Len(filtered') \in Nat
      /\ Len(filtered) <= Len(filtered')
      /\ \A k \in 1..Len(filtered) : filtered'[k] = filtered[k]
  BY DEF Log!IsPrefixOf
<1>1. start # 0 /\ ~(start > end)
  BY DEF Page
<1>2. /\ Page(start, end) = [k \in 1..length(filtered) |-> filtered[start + k - 1]]
      /\ Page(start, end)' = [k \in 1..length(filtered') |-> filtered'[start + k - 1]]
  BY <1>1 DEF Page
<1>3. i \in 1..length(filtered)
  BY <1>2
<1>4. length(filtered) \in Nat /\ length(filtered') \in Nat /\ length(filtered) <= length(filtered')
  BY <1>t, <1>1
<1>5. start + i - 1 \in 1..Len(filtered)
  <2>. DEFINE n == Len(filtered)
  <2>1. /\ i \in Nat /\ 1 <= i /\ i <= length(filtered)
        /\ n \in Nat /\ start \in Nat /\ end \in Nat /\ start # 0 /\ start <= end
    BY <1>t, <1>1, <1>3, <1>4
  <2>2. \/ end <= n /\ length(filtered) = end - start + 1
        \/ start <= n /\ length(filtered) = n - start + 1
        \/ length(filtered) = 0
    OBVIOUS
  <2>. HIDE DEF length, n
  <2>3. start + i - 1 \in 1..n
    BY <2>1, <2>2
  <2>. QED
    BY <2>3 DEF n
<1>6. i \in 1..length(filtered')
  <2>. HIDE DEF length
  <2>. QED
    BY <1>3, <1>4
<1>. HIDE DEF length
<1>. QED
  BY <1>t, <1>2, <1>3, <1>5, <1>6

\* What a position of the result list showed it shows for ever, as long as
\* the filter is not replaced: a client can fetch the list page by page while
\* filter threads append to it (getFiltered, dispatcher.cpp).
THEOREM PagesStay == Spec => PagesAreStable
<1>1. LogInv /\ LogInv' /\ [Next]_vars =>
         [~InstallNext =>
             \A start, end \in 1..MaxPackets : \A i \in DOMAIN Page(start, end) :
                 /\ i \in DOMAIN Page(start, end)'
                 /\ Page(start, end)'[i] = Page(start, end)[i]]_vars
  <2>. SUFFICES ASSUME LogInv, LogInv', [Next]_vars, ~InstallNext,
                       NEW start \in 1..MaxPackets, NEW end \in 1..MaxPackets,
                       NEW i \in DOMAIN Page(start, end)
                PROVE  /\ i \in DOMAIN Page(start, end)'
                       /\ Page(start, end)'[i] = Page(start, end)[i]
    OBVIOUS
  <2>1. start \in Nat /\ end \in Nat
    BY ConstantsAssumption
  <2>2. filtered \in Seq(Nat) /\ filtered' \in Seq(Nat)
    BY DEF LogInv, TypeOK, ContextTypes
  <2>. QED
    BY <2>1, <2>2, FilteredGrows, PageOfPrefix
<1>. QED
  BY <1>1, LogInvariant, PTL DEF Spec, PagesAreStable
=============================================================================
