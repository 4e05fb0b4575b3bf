-------------------------- MODULE PacketViewProofs --------------------------
(***************************************************************************)
(* PacketView: its types, that the client asks only for packets the stream *)
(* thread is done with, and that a row shows the packet of its place,      *)
(* through any changes of the filter, for any filters, bounds and height   *)
(* of the list.                                                            *)
(***************************************************************************)
EXTENDS PacketView, FunctionTheorems, FiniteSetTheorems, SequenceTheorems, TLAPS

-----------------------------------------------------------------------------
(* The calls and answers under way.                                        *)

Calls ==
    [name : {"status"}] \cup [name : {"filtered"}, start : Nat \ {0}, end : Int]
        \cup [name : {"packets"}, ids : SUBSET Ids]
        \cup [name : {"filter"}, filter : Filters \cup {NoFilter}]

Answers ==
    [name : {"status"}, status : Status]
        \cup [name : {"filtered"}, start : Nat \ {0}, list : Seq(Ids)]
        \cup [name : {"packets"}, ids : SUBSET Ids]

Views == [packets : Counts, filtered : Counts \cup {-1}, top : Counts, prev : Seq(Int)]

Cells == (0..(MaxPackets - 1)) \X Ids

\* What a call asks for is finished.
Asked(c) == c.name = "packets" => c.ids \subseteq 1..size

\* What an answer tells is finished, and a list of the filter has its place
\* among the packets.
Told(a) ==
    /\ a.name = "status" => a.status.packets <= size
    /\ a.name = "packets" => a.ids \subseteq 1..size
    /\ a.name = "filtered" => \A n \in 1..Len(a.list) :
          a.start + n - 1 <= MaxPackets /\ a.list[n] <= size

-----------------------------------------------------------------------------
(* Types.                                                                  *)

\* The state of the server.
ServerInv ==
    /\ match \in [Filters -> SUBSET Ids] /\ filter \in Filters \cup {NoFilter}
    /\ dissected \in Counts /\ size \in 0..dissected /\ fetched \in 0..size
    /\ status \in Status /\ status.packets <= dissected
    /\ reading \in Seq(Int) /\ \A i \in 1..Len(reading) : reading[i] \in 0..size

\* The wire.
CallsInv   == calls \in Seq(Calls) /\ \A i \in 1..Len(calls) : Asked(calls[i])
AnswersInv == answers \in Seq(Answers) /\ \A i \in 1..Len(answers) : Told(answers[i])

\* The list: what it was told and what it shows.
ViewInv == view \in Views /\ view.packets <= size

CellInv ==
    /\ rows \subseteq Cells
    /\ filled \subseteq {r[2] : r \in rows}
    /\ cached \subseteq 1..size

UserInv == scrolls \in Nat /\ changes \in Nat

ListInv == ServerInv /\ CallsInv /\ AnswersInv /\ ViewInv /\ CellInv /\ UserInv

-----------------------------------------------------------------------------
(* What the list has been told of the filter that is applied.              *)

HeardInv == old \in Nat /\ old <= Len(answers) /\ heard \in {"nothing", "current", "late"}

\* Id is the packet of a place of the list, counted from one.
AtPlace(n, id) == n \in DOMAIN List /\ List[n] = id

\* An answer that is of the server's filter: a status without a count means
\* that there is none, and a page gives packets of its list with their places.
OfFilter(a) ==
    /\ a.name = "status" => (a.status.filtered = -1 => filter = NoFilter)
    /\ a.name = "filtered" => \A n \in 1..Len(a.list) : AtPlace(a.start + n - 1, a.list[n])

AnswersRight == \A i \in 1..Len(answers) : i > old => OfFilter(answers[i])

\* The view of a list that was told of the server's filter alone.
ViewRight ==
    /\ \A i \in 1..Len(calls) : calls[i].name # "filter"
    /\ \A r \in rows : AtPlace(r[1] + 1, r[2])
    /\ view.filtered = -1 => filter = NoFilter \/ view.packets = 0

RowsInv ==
    /\ AnswersRight
    /\ heard = "nothing" => rows = {} /\ view.filtered = 0
    /\ heard = "current" => ViewRight

-----------------------------------------------------------------------------
(* The list of a filter. The n-th of a set of ids is well defined: that n  *)
(* ids of the set go up to it singles out one of them, and it stays the    *)
(* n-th when greater ids join the set.                                     *)

UpTo(ids, id) == {i \in ids : i <= id}

\* The number of ids up to an id tells ids apart.
LEMMA UpToGrows ==
    ASSUME NEW m \in Nat, NEW S \in SUBSET (1..m)
    PROVE  /\ IsFiniteSet(S) /\ Cardinality(S) \in 0..m
           /\ \A x \in S : Cardinality(UpTo(S, x)) \in 1..Cardinality(S)
           /\ \A x, y \in S : Cardinality(UpTo(S, x)) = Cardinality(UpTo(S, y)) => x = y
<1>1. IsFiniteSet(1..m) /\ Cardinality(1..m) = m
    BY FS_Interval
<1>2. IsFiniteSet(S) /\ Cardinality(S) \in 0..m
  <2>1. IsFiniteSet(S) /\ Cardinality(S) <= Cardinality(1..m)
      BY <1>1, FS_Subset
  <2>2. Cardinality(S) \in Nat
      BY <2>1, FS_CardinalityType
  <2> QED  BY <1>1, <2>1, <2>2
<1>3. \A x \in S : Cardinality(UpTo(S, x)) \in 1..Cardinality(S)
  <2> TAKE x \in S
  <2>1. UpTo(S, x) \subseteq S /\ x \in UpTo(S, x)
      BY DEF UpTo
  <2>2. /\ IsFiniteSet(UpTo(S, x)) /\ Cardinality(UpTo(S, x)) \in Nat
        /\ Cardinality(UpTo(S, x)) <= Cardinality(S)
      BY <1>2, <2>1, FS_Subset, FS_CardinalityType
  <2>3. Cardinality(UpTo(S, x)) # 0
      BY <2>1, <2>2, FS_EmptySet
  <2> QED  BY <1>2, <2>2, <2>3
<1>4. ASSUME NEW x \in S, NEW y \in S, x < y
      PROVE  Cardinality(UpTo(S, x)) < Cardinality(UpTo(S, y))
  <2>1. \A i \in S : i \in Int
      OBVIOUS
  <2>2. \A i \in S : i <= x => i <= y
      BY <1>4, <2>1
  <2>3. y <= y /\ ~(y <= x)
      BY <1>4, <2>1
  <2>4. UpTo(S, x) \subseteq UpTo(S, y) /\ y \in UpTo(S, y) /\ y \notin UpTo(S, x)
      BY <2>2, <2>3 DEF UpTo
  <2>5. UpTo(S, y) \subseteq S
      BY DEF UpTo
  <2>6. IsFiniteSet(UpTo(S, y))
      BY <1>2, <2>5, FS_Subset
  <2>7. /\ Cardinality(UpTo(S, x)) <= Cardinality(UpTo(S, y))
        /\ Cardinality(UpTo(S, x)) # Cardinality(UpTo(S, y))
      BY <2>4, <2>6, FS_Subset
  <2> QED  BY <1>3, <2>7
<1>5. \A x, y \in S : Cardinality(UpTo(S, x)) = Cardinality(UpTo(S, y)) => x = y
  <2> SUFFICES ASSUME NEW x \in S, NEW y \in S,
                      Cardinality(UpTo(S, x)) = Cardinality(UpTo(S, y))
               PROVE  x = y
      OBVIOUS
  <2>1. x \in Int /\ y \in Int
      OBVIOUS
  <2>2. Cardinality(UpTo(S, x)) \in Int
      BY <1>2, <1>3
  <2> QED  BY <1>4, <2>1, <2>2
<1> QED  BY <1>2, <1>3, <1>5

\* There is an n-th id for every n up to the size of the set.
LEMMA NthExists ==
    ASSUME NEW m \in Nat, NEW S \in SUBSET (1..m), NEW n \in 1..Cardinality(S)
    PROVE  Nth(S, n) \in S /\ Cardinality(UpTo(S, Nth(S, n))) = n
<1> DEFINE f == [x \in S |-> Cardinality(UpTo(S, x))]
           c == Cardinality(S)
<1>1. IsFiniteSet(S) /\ c \in Nat
    BY UpToGrows, FS_CardinalityType
<1>2. IsFiniteSet(1..c) /\ Cardinality(1..c) = c
    BY <1>1, FS_Interval
<1>3. f \in [S -> 1..c]
    BY UpToGrows
<1>4. \A x, y \in S : f[x] = f[y] => x = y
    BY UpToGrows
<1>5. f \in Injection(S, 1..c)
    BY <1>3, <1>4 DEF Injection, IsInjective
<1>6. f \in Surjection(S, 1..c)
    BY <1>2, <1>5, FS_Injection
<1>7. PICK x \in S : f[x] = n
  <2> HIDE DEF f
  <2>1. \A k \in 1..c : \E x \in S : f[x] = k
      BY <1>6, Fun_SurjectionProperties
  <2> QED  BY <2>1
<1>8. \E id \in S : Cardinality({i \in S : i <= id}) = n
    BY <1>7 DEF UpTo
<1> QED  BY <1>8 DEF Nth, UpTo

\* It is the only one.
LEMMA NthIs ==
    ASSUME NEW m \in Nat, NEW S \in SUBSET (1..m), NEW x \in S
    PROVE  Nth(S, Cardinality(UpTo(S, x))) = x
<1>1. Cardinality(UpTo(S, x)) \in 1..Cardinality(S)
    BY UpToGrows
<1>2. /\ Nth(S, Cardinality(UpTo(S, x))) \in S
      /\ Cardinality(UpTo(S, Nth(S, Cardinality(UpTo(S, x))))) = Cardinality(UpTo(S, x))
    BY <1>1, NthExists
<1> QED  BY <1>2, UpToGrows

\* Greater ids do not move it.
LEMMA NthStays ==
    ASSUME NEW m \in Nat, NEW S \in SUBSET (1..m), NEW T \in SUBSET (1..m), S \subseteq T,
           \A s \in S : \A t \in T \ S : s < t,
           NEW n \in 1..Cardinality(S)
    PROVE  n \in 1..Cardinality(T) /\ Nth(T, n) = Nth(S, n)
<1> DEFINE x == Nth(S, n)
<1>1. x \in S /\ Cardinality(UpTo(S, x)) = n
    BY NthExists
<1>2. x \in T
    BY <1>1
<1> HIDE DEF x
<1>3. UpTo(T, x) = UpTo(S, x)
  <2> \A i \in T : i \in Int
      OBVIOUS
  <2>1. \A i \in T : i <= x => i \in S
      BY <1>1
  <2> QED  BY <2>1 DEF UpTo
<1>4. Cardinality(UpTo(T, x)) = n
    BY <1>1, <1>3
<1>5. n \in 1..Cardinality(T)
    BY <1>2, <1>4, UpToGrows
<1>6. Nth(T, n) = x
    BY <1>2, <1>4, NthIs
<1> QED  BY <1>5, <1>6 DEF x

\* The list of the filter is no longer than the server has fetched packets.
LEMMA FilteredIs ==
    ASSUME ServerInv
    PROVE  /\ Filtered \in Seq(1..fetched) /\ Len(Filtered) = Cardinality(Passed)
           /\ Len(Filtered) \in 0..fetched /\ Filtered \in [1..Len(Filtered) -> 1..fetched]
<1>1. Passed \in SUBSET (1..fetched) /\ fetched \in Nat
    BY DEF ServerInv, Passed, Counts
<1>2. Cardinality(Passed) \in 0..fetched
    BY <1>1, UpToGrows
<1>3. \A n \in 1..Cardinality(Passed) : Nth(Passed, n) \in 1..fetched
    BY <1>1, NthExists
<1>4. Filtered \in [1..Cardinality(Passed) -> 1..fetched]
    BY <1>3 DEF Filtered
<1>5. Filtered \in Seq(1..fetched) /\ Len(Filtered) = Cardinality(Passed)
    BY <1>1, <1>2, <1>4
<1> QED  BY <1>2, <1>4, <1>5

\* It only grows while the filter stays.
LEMMA FilteredStays ==
    ASSUME ServerInv, fetched' \in {fetched, fetched + 1}, UNCHANGED <<match, filter>>
    PROVE  \A n \in DOMAIN Filtered : n \in DOMAIN Filtered' /\ Filtered'[n] = Filtered[n]
<1>1. fetched \in Nat /\ Passed \in SUBSET (1..fetched + 1)
    BY DEF ServerInv, Passed, Counts
<1>2. Passed' \in SUBSET (1..fetched + 1) /\ Passed \subseteq Passed'
    BY <1>1 DEF ServerInv, Passed
<1>3. \A t \in Passed' \ Passed : t = fetched + 1
    BY <1>1 DEF ServerInv, Passed
<1>4. \A s \in Passed : s < fetched + 1
    BY DEF ServerInv, Passed, Counts
<1>5. \A s \in Passed : \A t \in Passed' \ Passed : s < t
    BY <1>3, <1>4
<1>6. fetched + 1 \in Nat
    BY <1>1
<1>7. \A n \in 1..Cardinality(Passed) :
          n \in 1..Cardinality(Passed') /\ Nth(Passed', n) = Nth(Passed, n)
    BY <1>1, <1>2, <1>5, <1>6, NthStays
<1> QED  BY <1>7 DEF Filtered

-----------------------------------------------------------------------------
(* Sequences.                                                              *)

LEMMA Appended ==
    ASSUME NEW S, NEW s \in Seq(S), NEW e \in S
    PROVE  /\ Append(s, e) \in Seq(S)
           /\ \A i \in 1..Len(Append(s, e)) :
                 (i \in 1..Len(s) /\ Append(s, e)[i] = s[i]) \/ Append(s, e)[i] = e
    OBVIOUS

LEMMA Taken ==
    ASSUME NEW S, NEW s \in Seq(S), s # <<>>
    PROVE  /\ Tail(s) \in Seq(S) /\ Head(s) = s[1] /\ 1 \in 1..Len(s) /\ Head(s) \in S
           /\ \A i \in 1..Len(Tail(s)) : i + 1 \in 1..Len(s) /\ Tail(s)[i] = s[i + 1]
    OBVIOUS

LEMMA CallIs ==
    ASSUME NEW c \in Calls
    PROVE  /\ c.name \in {"status", "filtered", "packets", "filter"}
           /\ c.name = "filtered" => c.start \in Nat \ {0} /\ c.end \in Int
           /\ c.name = "packets" => c.ids \in SUBSET Ids
           /\ c.name = "filter" => c.filter \in Filters \cup {NoFilter}
    BY DEF Calls

LEMMA AnswerIs ==
    ASSUME NEW a \in Answers
    PROVE  /\ a.name \in {"status", "filtered", "packets"}
           /\ a.name = "status" =>
                 /\ a.status \in Status
                 /\ a.status.packets \in Counts /\ a.status.filtered \in Counts \cup {-1}
           /\ a.name = "filtered" => a.start \in Nat \ {0} /\ a.list \in Seq(Ids)
           /\ a.name = "packets" => a.ids \in SUBSET Ids
    BY DEF Answers, Status

\* A call that is answered leaves the others as they were, and so does an
\* answer that is taken.
LEMMA CallTaken ==
    ASSUME CallsInv, calls # <<>>, calls' = Tail(calls), size' = size
    PROVE  /\ Head(calls) \in Calls /\ Asked(Head(calls)) /\ CallsInv'
           /\ \A i \in 1..Len(calls') : \E k \in 1..Len(calls) : calls'[i] = calls[k]
           /\ Head(calls) = calls[1] /\ 1 \in 1..Len(calls)
<1>1. calls \in Seq(Calls)
    BY DEF CallsInv
<1>2. /\ Tail(calls) \in Seq(Calls) /\ Head(calls) = calls[1] /\ 1 \in 1..Len(calls)
      /\ Head(calls) \in Calls
      /\ \A i \in 1..Len(Tail(calls)) : i + 1 \in 1..Len(calls) /\ Tail(calls)[i] = calls[i + 1]
    BY <1>1, Taken
<1>3. \A i \in 1..Len(calls') : \E k \in 1..Len(calls) : calls'[i] = calls[k]
    BY <1>2
<1>4. \A i \in 1..Len(calls') : Asked(calls'[i])
    BY <1>3 DEF CallsInv
<1> QED  BY <1>2, <1>3, <1>4 DEF CallsInv, Asked

LEMMA AnswerTaken ==
    ASSUME AnswersInv, answers # <<>>, answers' = Tail(answers), size' = size
    PROVE  /\ Head(answers) \in Answers /\ Told(Head(answers)) /\ AnswersInv'
           /\ \A i \in 1..Len(answers') : \E k \in 1..Len(answers) : answers'[i] = answers[k]
           /\ Head(answers) = answers[1] /\ 1 \in 1..Len(answers)
<1>1. answers \in Seq(Answers)
    BY DEF AnswersInv
<1>2. /\ Tail(answers) \in Seq(Answers) /\ Head(answers) = answers[1] /\ 1 \in 1..Len(answers)
      /\ Head(answers) \in Answers
      /\ \A i \in 1..Len(Tail(answers)) :
            i + 1 \in 1..Len(answers) /\ Tail(answers)[i] = answers[i + 1]
    BY <1>1, Taken
<1>3. \A i \in 1..Len(answers') : \E k \in 1..Len(answers) : answers'[i] = answers[k]
    BY <1>2
<1>4. \A i \in 1..Len(answers') : Told(answers'[i])
    BY <1>3 DEF AnswersInv
<1> QED  BY <1>2, <1>3, <1>4 DEF AnswersInv, Told

\* An answer that may be told joins those under way.
LEMMA AnswerGiven ==
    ASSUME AnswersInv, NEW a \in Answers, Told(a), answers' = Append(answers, a), size' = size
    PROVE  /\ AnswersInv'
           /\ \A i \in 1..Len(answers') :
                 (i \in 1..Len(answers) /\ answers'[i] = answers[i]) \/ answers'[i] = a
<1>1. answers \in Seq(Answers)
    BY DEF AnswersInv
<1>2. /\ Append(answers, a) \in Seq(Answers)
      /\ \A i \in 1..Len(Append(answers, a)) :
            (i \in 1..Len(answers) /\ Append(answers, a)[i] = answers[i]) \/ Append(answers, a)[i] = a
    BY <1>1, Appended
<1>3. \A i \in 1..Len(answers') : Told(answers'[i])
    BY <1>2 DEF AnswersInv
<1> QED  BY <1>2, <1>3 DEF AnswersInv, Told

-----------------------------------------------------------------------------
(* Types.                                                                  *)

LEMMA InitListInv ==
    ASSUME Init PROVE ListInv
<1>1. MaxPackets \in Nat /\ Counts \subseteq Nat /\ 0 \in Counts
    BY BoundsAssumption DEF Counts
<1>2. ServerInv
    BY <1>1 DEF Init, ServerInv, Status
<1>3. CallsInv /\ AnswersInv
    BY DEF Init, CallsInv, AnswersInv
<1>4. ViewInv
    BY <1>1 DEF Init, ViewInv, Views
<1>5. CellInv /\ UserInv
    BY DEF Init, CellInv, UserInv
<1> QED  BY <1>2, <1>3, <1>4, <1>5 DEF ListInv

\* The wire and the list stay as they should be when packets are finished.
LEMMA SizeGrows ==
    ASSUME ListInv, size' \in Nat, size <= size',
           UNCHANGED <<calls, answers, view, cellVars, cached>>
    PROVE  CallsInv' /\ AnswersInv' /\ ViewInv' /\ CellInv'
<1>1. size \in Nat /\ 1..size \subseteq 1..size'
    BY DEF ListInv, ServerInv, Counts
<1>2. CallsInv'
    BY <1>1 DEF ListInv, CallsInv, Asked
<1>3. AnswersInv'
  <2>1. answers' \in Seq(Answers)
      BY DEF ListInv, AnswersInv
  <2>2. ASSUME NEW i \in 1..Len(answers') PROVE Told(answers[i])'
    <3>1. answers[i] \in Answers /\ Told(answers[i]) /\ answers'[i] = answers[i]
        BY <2>2 DEF ListInv, AnswersInv
    <3>2. answers[i].name = "status" => answers[i].status.packets <= size'
      <4>1. answers[i].name = "status" => answers[i].status.packets \in Nat
          BY <3>1, AnswerIs, BoundsAssumption DEF Counts
      <4> QED  BY <1>1, <3>1, <4>1 DEF Told
    <3>3. answers[i].name = "packets" => answers[i].ids \subseteq 1..size'
        BY <1>1, <3>1 DEF Told
    <3>4. answers[i].name = "filtered" => \A n \in 1..Len(answers[i].list) :
             answers[i].start + n - 1 <= MaxPackets /\ answers[i].list[n] <= size'
      <4> SUFFICES ASSUME answers[i].name = "filtered", NEW n \in 1..Len(answers[i].list)
                   PROVE  /\ answers[i].start + n - 1 <= MaxPackets
                          /\ answers[i].list[n] <= size'
          OBVIOUS
      <4>1. answers[i].list \in Seq(Ids)
          BY <3>1, AnswerIs
      <4>2. answers[i].list[n] \in Int
          BY <4>1, BoundsAssumption DEF Ids
      <4> QED  BY <1>1, <3>1, <4>2 DEF Told
    <3> QED  BY <3>1, <3>2, <3>3, <3>4 DEF Told
  <2> QED  BY <2>1, <2>2 DEF AnswersInv
<1>4. ViewInv'
    BY <1>1, BoundsAssumption DEF ListInv, ViewInv, Views, Counts
<1>5. CellInv'
    BY <1>1 DEF ListInv, CellInv, Cells, cellVars
<1> QED  BY <1>2, <1>3, <1>4, <1>5

LEMMA DispatcherListInv ==
    ASSUME ListInv, Dissect \/ EndVisit \/ FilterOne
    PROVE  ListInv'
<1>1. /\ dissected \in Counts /\ size \in 0..dissected /\ fetched \in 0..size
      /\ dissected \in Nat /\ size \in Nat /\ fetched \in Nat /\ MaxPackets \in Nat
    BY BoundsAssumption DEF ListInv, ServerInv, Counts
<1>2. dissected' \in Counts /\ size' \in 0..dissected' /\ fetched' \in 0..size' /\ dissected <= dissected'
    BY <1>1 DEF Dissect, EndVisit, FilterOne, Counts
<1>3. size' \in Nat /\ size <= size'
    BY <1>1 DEF Dissect, EndVisit, FilterOne
<1>4. UNCHANGED <<match, filter, status, reading, calls, answers, view, cellVars, cached, userVars>>
    BY DEF Dissect, EndVisit, FilterOne
<1>5. ServerInv'
  <2>1. status.packets \in Int /\ status.packets <= dissected'
      BY <1>1, <1>2 DEF ListInv, ServerInv, Status, Counts
  <2>2. reading' \in Seq(Int) /\ \A i \in 1..Len(reading') : reading'[i] \in 0..size'
    <3>1. 0..size \subseteq 0..size'
        BY <1>1, <1>3
    <3> QED  BY <1>4, <3>1 DEF ListInv, ServerInv
  <2> QED  BY <1>2, <1>4, <2>1, <2>2 DEF ListInv, ServerInv
<1>6. CallsInv' /\ AnswersInv' /\ ViewInv' /\ CellInv'
    BY <1>3, <1>4, SizeGrows
<1>7. UserInv'
    BY <1>4 DEF ListInv, UserInv, userVars
<1> QED  BY <1>5, <1>6, <1>7 DEF ListInv

\* The lesser and the greater of two numbers.
LEMMA MinMax ==
    ASSUME NEW a \in Int, NEW b \in Int
    PROVE  /\ Min({a, b}) \in {a, b} /\ Min({a, b}) <= a /\ Min({a, b}) <= b
           /\ Max({a, b}) \in {a, b} /\ Max({a, b}) >= a /\ Max({a, b}) >= b
<1>1. \E x \in {a, b} : \A y \in {a, b} : x <= y
  <2>1. CASE a <= b
      BY <2>1
  <2>2. CASE b <= a
      BY <2>2
  <2> QED  BY <2>1, <2>2
<1>2. \E x \in {a, b} : \A y \in {a, b} : x >= y
  <2>1. CASE a <= b
      BY <2>1
  <2>2. CASE b <= a
      BY <2>2
  <2> QED  BY <2>1, <2>2
<1>3. Min({a, b}) \in {a, b} /\ \A y \in {a, b} : Min({a, b}) <= y
    BY <1>1 DEF Min
<1>4. Max({a, b}) \in {a, b} /\ \A y \in {a, b} : Max({a, b}) >= y
    BY <1>2 DEF Max
<1> QED  BY <1>3, <1>4

\* A part of the list of the filter: its entries with their places.
LEMMA ListPart ==
    ASSUME ServerInv, NEW a \in Nat \ {0}, NEW b \in Int
    PROVE  LET part == SubSeq(Filtered, a, Min({b, Len(Filtered)}))
           IN  /\ part \in Seq(Ids)
               /\ \A n \in 1..Len(part) :
                     /\ a + n - 1 \in 1..Len(Filtered) /\ part[n] = Filtered[a + n - 1]
                     /\ a + n - 1 <= MaxPackets /\ part[n] <= size
<1> DEFINE last == Min({b, Len(Filtered)})
           part == SubSeq(Filtered, a, last)
<1>1. /\ MaxPackets \in Nat /\ size \in Nat /\ size <= MaxPackets
      /\ fetched \in Nat /\ fetched <= size
    BY BoundsAssumption DEF ServerInv, Counts
<1>2. /\ Filtered \in Seq(1..fetched) /\ Len(Filtered) \in 0..fetched
      /\ Filtered \in [1..Len(Filtered) -> 1..fetched]
    BY FilteredIs
<1>3. last \in Int /\ last <= Len(Filtered)
  <2>1. Len(Filtered) \in Int
      BY <1>1, <1>2
  <2> QED  BY <2>1, MinMax
<1>4. Filtered \in Seq(Ids)
  <2>1. Len(Filtered) \in Nat
      BY <1>1, <1>2
  <2>2. 1..fetched \subseteq Ids
      BY <1>1 DEF Ids
  <2>3. Filtered \in [1..Len(Filtered) -> Ids]
      BY <1>2, <2>2
  <2> QED  BY <2>1, <2>3
<1> HIDE DEF last
<1>5. /\ part \in Seq(Ids)
      /\ \A n \in 1..Len(part) : a + n - 1 \in 1..Len(Filtered) /\ part[n] = Filtered[a + n - 1]
  <2>1. CASE a <= last
    <3>1. a \in 1..Len(Filtered) /\ last \in a..Len(Filtered)
        BY <1>1, <1>2, <1>3, <2>1
    <3>2. \A i \in a..last : Filtered[i] \in Ids
        BY <1>2, <1>3, <1>4
    <3>3. /\ part \in Seq(Ids) /\ Len(part) = last - a + 1
          /\ \A i \in 1..(last - a + 1) : part[i] = Filtered[a + i - 1]
        BY <1>3, <2>1, <3>2, SubSeqProperties
    <3> HIDE DEF part
    <3> QED  BY <1>2, <1>3, <3>3
  <2>2. CASE last < a
    <3>1. part = <<>>
        BY <1>3, <2>2, SubSeqEmpty
    <3> QED  BY <3>1
  <2> QED  BY <1>3, <2>1, <2>2
<1>6. ASSUME NEW n \in 1..Len(part)
      PROVE  a + n - 1 <= MaxPackets /\ part[n] <= size
  <2>1. /\ a + n - 1 \in 1..Len(Filtered) /\ part[n] = Filtered[a + n - 1]
      BY <1>5
  <2>2. part[n] \in 1..fetched
      BY <1>2, <2>1
  <2> QED  BY <1>1, <1>2, <2>1, <2>2
<1> QED  BY <1>5, <1>6 DEF last

LEMMA ServerListInv ==
    ASSUME ListInv, Serve
    PROVE  ListInv'
<1>t. /\ dissected \in Nat /\ size \in Nat /\ size <= dissected /\ dissected <= MaxPackets
      /\ fetched \in 0..size /\ MaxPackets \in Nat
    BY BoundsAssumption DEF ListInv, ServerInv, Counts
<1>1. CASE ReadSize
  <2>1. UNCHANGED <<match, dissected, size, filter, fetched, status, calls, answers, view, cellVars, cached, userVars>>
      BY <1>1 DEF ReadSize
  <2>2. reading' \in Seq(Int) /\ \A i \in 1..Len(reading') : reading'[i] \in 0..size'
      BY <1>1, <1>t DEF ReadSize, Size
  <2>3. ServerInv'
      BY <2>1, <2>2 DEF ListInv, ServerInv
  <2>4. CallsInv' /\ AnswersInv' /\ ViewInv' /\ CellInv'
      BY <1>t, <2>1, SizeGrows
  <2> QED  BY <2>1, <2>3, <2>4 DEF ListInv, UserInv, userVars
<1>2. CASE GetStatus
  <2> DEFINE new == [packets  |-> reading[1],
                     filtered |-> IF filter = NoFilter THEN -1 ELSE Len(Filtered)]
             ans == [name |-> "status", status |-> new]
  <2>1. /\ UNCHANGED <<match, dissected, size, filter, fetched, view, cellVars, cached, userVars>>
        /\ reading # <<>> /\ reading' = <<>> /\ calls # <<>> /\ calls' = Tail(calls)
      BY <1>2 DEF GetStatus, Serving
  <2>2. \/ status' = new /\ answers' = Append(answers, ans)
        \/ UNCHANGED <<status, answers>>
      BY <1>2 DEF GetStatus
  <2>3. reading[1] \in 0..size
      BY <2>1 DEF ListInv, ServerInv
  <2>4. Len(Filtered) \in 0..fetched
      BY FilteredIs DEF ListInv
  <2>5. new \in Status /\ new.packets <= size
      BY <1>t, <2>3, <2>4 DEF Status, Counts
  <2>6. ans \in Answers /\ Told(ans)
      BY <2>5 DEF Answers, Told
  <2> HIDE DEF new, ans
  <2>7. ServerInv'
    <3>1. new.packets <= dissected /\ new \in Status
        BY <1>t, <2>5 DEF Status, Counts
    <3>2. status' \in Status /\ status'.packets <= dissected
        BY <2>2, <3>1 DEF ListInv, ServerInv
    <3> QED  BY <2>1, <3>2 DEF ListInv, ServerInv
  <2>8. CallsInv'
      BY <2>1, CallTaken DEF ListInv
  <2>9. AnswersInv'
    <3>1. CASE answers' = Append(answers, ans)
        BY <2>1, <2>6, <3>1, AnswerGiven DEF ListInv
    <3>2. CASE answers' = answers
        BY <2>1, <3>2 DEF ListInv, AnswersInv, Told
    <3> QED  BY <2>2, <3>1, <3>2
  <2> QED  BY <2>1, <2>7, <2>8, <2>9 DEF ListInv, ViewInv, CellInv, UserInv, cellVars, userVars
<1>3. CASE GetFiltered
  <2> DEFINE c == Head(calls)
             part == SubSeq(Filtered, c.start, Min({c.end, Len(Filtered)}))
             ans == [name |-> "filtered", start |-> c.start, list |-> part]
  <2>1. /\ UNCHANGED <<serverVars, view, cellVars, cached, userVars>>
        /\ calls # <<>> /\ calls' = Tail(calls) /\ c.name = "filtered"
        /\ answers' = Append(answers, ans)
      BY <1>3 DEF GetFiltered, Serving
  <2>2. c \in Calls /\ CallsInv'
      BY <2>1, CallTaken DEF ListInv, serverVars
  <2>3. c.start \in Nat \ {0} /\ c.end \in Int
      BY <2>1, <2>2, CallIs
  <2>4. /\ part \in Seq(Ids)
        /\ \A n \in 1..Len(part) : c.start + n - 1 <= MaxPackets /\ part[n] <= size
      BY <2>3, ListPart DEF ListInv
  <2> HIDE DEF part
  <2>5. ans \in Answers /\ Told(ans)
      BY <2>3, <2>4 DEF Answers, Told
  <2> HIDE DEF ans
  <2>6. AnswersInv'
      BY <2>1, <2>5, AnswerGiven DEF ListInv, serverVars
  <2> QED  BY <2>1, <2>2, <2>6 DEF ListInv, ServerInv, ViewInv, CellInv, UserInv, serverVars, cellVars, userVars
<1>4. CASE GetPackets
  <2> DEFINE c == Head(calls)
             ans == [name |-> "packets", ids |-> c.ids \cap 1..dissected]
  <2>1. /\ UNCHANGED <<serverVars, view, cellVars, cached, userVars>>
        /\ calls # <<>> /\ calls' = Tail(calls) /\ c.name = "packets"
        /\ answers' = Append(answers, ans)
      BY <1>4 DEF GetPackets, Serving
  <2>2. c \in Calls /\ Asked(c) /\ CallsInv'
      BY <2>1, CallTaken DEF ListInv, serverVars
  <2>3. c.ids \subseteq Ids /\ c.ids \subseteq 1..size
      BY <2>1, <2>2, CallIs DEF Asked
  <2>4. ans \in Answers /\ Told(ans)
      BY <2>3 DEF Answers, Told
  <2> HIDE DEF ans
  <2>5. AnswersInv'
      BY <2>1, <2>4, AnswerGiven DEF ListInv, serverVars
  <2> QED  BY <2>1, <2>2, <2>5 DEF ListInv, ServerInv, ViewInv, CellInv, UserInv, serverVars, cellVars, userVars
<1>5. CASE SetFilter
  <2>1. /\ UNCHANGED <<match, dissected, size, status, reading, answers, view, cellVars, cached, userVars>>
        /\ calls # <<>> /\ calls' = Tail(calls) /\ Head(calls).name = "filter"
        /\ filter' = Head(calls).filter /\ fetched' = 0
      BY <1>5 DEF SetFilter, Serving
  <2>2. Head(calls) \in Calls /\ CallsInv'
      BY <2>1, CallTaken DEF ListInv
  <2>3. filter' \in Filters \cup {NoFilter}
      BY <2>1, <2>2, CallIs
  <2>4. ServerInv'
      BY <1>t, <2>1, <2>3 DEF ListInv, ServerInv
  <2>5. AnswersInv'
      BY <2>1 DEF ListInv, AnswersInv, Told
  <2> QED  BY <2>1, <2>2, <2>4, <2>5 DEF ListInv, ViewInv, CellInv, UserInv, cellVars, userVars
<1> QED  BY <1>1, <1>2, <1>3, <1>4, <1>5 DEF Serve

\* What the list asks for, fills and places is among the finished packets of
\* the list it is given, and it calls for nothing but packets.
LEMMA CellsKept ==
    ASSUME size \in Nat, MaxPackets \in Nat, size <= MaxPackets,
           cached \subseteq 1..size, UNCHANGED <<size, cached>>,
           NEW shown, shown \subseteq Cells,
           NEW full, full \subseteq {r[2] : r \in shown},
           NEW sent \in Seq(Calls), \A i \in 1..Len(sent) : Asked(sent[i]),
           NEW start \in Nat, NEW list \in Seq(Ids),
           \A n \in 1..Len(list) : start + n <= MaxPackets /\ list[n] <= size,
           UpdateCells(shown, full, sent, start, list)
    PROVE  /\ CallsInv' /\ CellInv'
           /\ \A i \in 1..Len(calls') :
                 calls'[i].name = "packets" \/ \E k \in 1..Len(sent) : calls'[i] = sent[k]
<1> DEFINE new == Placed(shown, start, list)
           ids == {r[2] : r \in new}
           ask == ids \ cached
           call == [name |-> "packets", ids |-> ask]
<1>1. new \subseteq Cells
  <2>1. \A n \in 1..Len(list) : start + n - 1 \in 0..(MaxPackets - 1) /\ list[n] \in Ids
      OBVIOUS
  <2>2. DOMAIN list = 1..Len(list)
      OBVIOUS
  <2> QED  BY <2>1, <2>2 DEF Placed, Cells
<1>2. ids \subseteq 1..size
  <2>1. \A n \in 1..Len(list) : list[n] \in 1..size
      BY DEF Ids
  <2>2. DOMAIN list = 1..Len(list)
      OBVIOUS
  <2> QED  BY <2>1, <2>2 DEF Placed
<1>3. /\ rows' = shown \cup new /\ filled' = full \cup (ids \cap cached)
      /\ calls' = IF ask = {} THEN sent ELSE Append(sent, call)
    BY DEF UpdateCells
<1> HIDE DEF new
<1>4. CellInv'
    BY <1>1, <1>3 DEF CellInv
<1>5. call \in Calls /\ Asked(call) /\ call.name = "packets"
    BY <1>2 DEF Calls, Asked, Ids
<1> HIDE DEF call, ask
<1>6. CASE calls' = sent
    BY <1>4, <1>6 DEF CallsInv, Asked
<1>7. CASE calls' = Append(sent, call)
  <2>1. /\ Append(sent, call) \in Seq(Calls)
        /\ \A i \in 1..Len(Append(sent, call)) :
              (i \in 1..Len(sent) /\ Append(sent, call)[i] = sent[i]) \/ Append(sent, call)[i] = call
      BY <1>5, Appended
  <2> QED  BY <1>4, <1>5, <1>7, <2>1 DEF CallsInv, Asked
<1> QED  BY <1>3, <1>6, <1>7

\* The range of rows in sight.
LEMMA RangeIs ==
    ASSUME NEW v \in Views, Rows \in Nat, MaxPackets \in Nat
    PROVE  /\ First(v) \in Nat \ {0} /\ Last1(v) \in Int
           /\ v.filtered = -1 => Last1(v) <= v.packets
<1>1. v.top \in Nat /\ v.packets \in Nat /\ v.filtered \in Int /\ v.top + Rows \in Int
    BY DEF Views, Counts
<1>2. First(v) \in {1, v.top} /\ First(v) >= 1
  <2>1. v.top \in Int /\ 1 \in Int
      BY <1>1
  <2> QED  BY <2>1, MinMax DEF First
<1>3. CASE v.filtered = -1
  <2>1. Last1(v) = Min({v.packets, v.top + Rows})
      BY <1>3 DEF Last1
  <2>2. Last1(v) \in {v.packets, v.top + Rows} /\ Last1(v) <= v.packets
    <3>1. v.packets \in Int /\ v.top + Rows \in Int
        BY <1>1
    <3> QED  BY <2>1, <3>1, MinMax
  <2> QED  BY <1>1, <1>2, <2>2
<1>4. CASE v.filtered # -1
  <2>1. Last1(v) = Min({v.filtered, v.top + Rows})
      BY <1>4 DEF Last1
  <2>2. Last1(v) \in {v.filtered, v.top + Rows}
      BY <1>1, <2>1, MinMax
  <2> QED  BY <1>1, <1>2, <1>4, <2>2
<1> QED  BY <1>3, <1>4

\* The list the view makes up where there is no filter.
LEMMA PlainList ==
    ASSUME NEW v \in Views, v.packets <= size, v.filtered = -1,
           Rows \in Nat, MaxPackets \in Nat, size \in Nat, size <= MaxPackets,
           First(v) <= Last1(v)
    PROVE  LET list == [n \in 1..(Last1(v) - First(v) + 1) |-> First(v) + n - 1]
           IN  /\ First(v) - 1 \in Nat /\ list \in Seq(Ids)
               /\ \A n \in 1..Len(list) :
                     /\ First(v) - 1 + n <= size /\ First(v) - 1 + n >= 1
                     /\ list[n] = First(v) - 1 + n
<1> DEFINE a == First(v)
           b == Last1(v)
           list == [n \in 1..(b - a + 1) |-> a + n - 1]
<1>1. a \in Nat \ {0} /\ b \in Int /\ b <= v.packets /\ v.packets \in Nat
    BY RangeIs DEF Views, Counts
<1>2. a <= b
    OBVIOUS
<1> HIDE DEF a, b
<1>3. b - a + 1 \in Nat
    BY <1>1, <1>2
<1>4. \A n \in 1..(b - a + 1) : a + n - 1 \in 1..size
    BY <1>1
<1>5. list \in [1..(b - a + 1) -> Ids]
    BY <1>4 DEF Ids
<1>6. list \in Seq(Ids) /\ Len(list) = b - a + 1
    BY <1>3, <1>5
<1>7. \A n \in 1..Len(list) : a - 1 + n <= size /\ a - 1 + n >= 1 /\ list[n] = a - 1 + n
  <2> SUFFICES ASSUME NEW n \in 1..(b - a + 1)
               PROVE  a - 1 + n <= size /\ a - 1 + n >= 1 /\ list[n] = a - 1 + n
      BY <1>6
  <2>1. list[n] = a + n - 1 /\ a + n - 1 \in 1..size /\ n \in Int
      BY <1>3, <1>4
  <2> HIDE DEF list
  <2> QED  BY <1>1, <2>1
<1> QED  BY <1>1, <1>6, <1>7 DEF a, b

\* The whole update: besides packets, it calls for a part of the filter's list,
\* if the view knows of a filter.
LEMMA UpdateKept ==
    ASSUME size \in Nat, MaxPackets \in Nat, Rows \in Nat, size <= MaxPackets,
           cached \subseteq 1..size, UNCHANGED <<size, cached>>,
           NEW v \in Views, v.packets <= size,
           NEW shown, shown \subseteq Cells,
           NEW full, full \subseteq {r[2] : r \in shown},
           NEW sent \in Seq(Calls), \A i \in 1..Len(sent) : Asked(sent[i]),
           Update(v, shown, full, sent)
    PROVE  /\ CallsInv' /\ CellInv' /\ ViewInv'
           /\ view'.filtered = v.filtered /\ view'.packets = v.packets
           /\ \A i \in 1..Len(calls') :
                 \/ calls'[i].name = "packets" \/ \E k \in 1..Len(sent) : calls'[i] = sent[k]
                 \/ calls'[i].name = "filtered" /\ v.filtered # -1
<1> DEFINE kept == {r \in shown : r[1] >= v.top - 1 /\ r[1] <= v.top + Rows}
           still == full \cap {r[2] : r \in kept}
           list == [n \in 1..(Last1(v) - First(v) + 1) |-> First(v) + n - 1]
           call == [name |-> "filtered", start |-> First(v), end |-> Last1(v)]
<1>1. First(v) \in Nat \ {0} /\ Last1(v) \in Int
    BY RangeIs
<1>2. kept \subseteq Cells /\ still \subseteq {r[2] : r \in kept}
    OBVIOUS
<1>3. view' = [v EXCEPT !.prev = <<First(v), Last1(v)>>]
    BY DEF Update
<1>4. ViewInv' /\ view'.filtered = v.filtered /\ view'.packets = v.packets
  <2>1. <<First(v), Last1(v)>> \in Seq(Int)
      BY <1>1
  <2> HIDE DEF kept, still, list, call
  <2> QED  BY <1>3, <2>1 DEF ViewInv, Views
<1>5. \/ rows' = kept /\ filled' = still /\ calls' = sent
      \/ First(v) <= Last1(v) /\ v.filtered = -1 /\ UpdateCells(kept, still, sent, First(v) - 1, list)
      \/ rows' = kept /\ filled' = still /\ calls' = Append(sent, call) /\ v.filtered # -1
    BY <1>1 DEF Update
<1> HIDE DEF kept, still
<1>6. CASE rows' = kept /\ filled' = still /\ calls' = sent
    BY <1>2, <1>4, <1>6 DEF CallsInv, CellInv, Asked
<1>7. CASE First(v) <= Last1(v) /\ v.filtered = -1 /\ UpdateCells(kept, still, sent, First(v) - 1, list)
  <2>1. /\ First(v) - 1 \in Nat /\ list \in Seq(Ids)
        /\ \A n \in 1..Len(list) : First(v) - 1 + n <= size /\ list[n] = First(v) - 1 + n
      BY <1>7, PlainList
  <2> HIDE DEF list
  <2>2. \A n \in 1..Len(list) : First(v) - 1 + n <= MaxPackets /\ list[n] <= size
      BY <2>1
  <2>3. /\ CallsInv' /\ CellInv'
        /\ \A i \in 1..Len(calls') :
              calls'[i].name = "packets" \/ \E k \in 1..Len(sent) : calls'[i] = sent[k]
      BY <1>2, <1>7, <2>1, <2>2, CellsKept
  <2> QED  BY <1>4, <2>3
<1>8. CASE rows' = kept /\ filled' = still /\ calls' = Append(sent, call) /\ v.filtered # -1
  <2>1. call \in Calls /\ Asked(call) /\ call.name = "filtered"
      BY <1>1 DEF Calls, Asked
  <2> HIDE DEF call
  <2>2. /\ Append(sent, call) \in Seq(Calls)
        /\ \A i \in 1..Len(Append(sent, call)) :
              (i \in 1..Len(sent) /\ Append(sent, call)[i] = sent[i]) \/ Append(sent, call)[i] = call
      BY <2>1, Appended
  <2>3. CallsInv' /\ CellInv'
      BY <1>2, <1>8, <2>1, <2>2 DEF CallsInv, CellInv, Asked
  <2> QED  BY <1>4, <1>8, <2>1, <2>2, <2>3
<1> QED  BY <1>5, <1>6, <1>7, <1>8

LEMMA ClientListInv ==
    ASSUME ListInv, Poll \/ Receive \/ Scroll \/ ChangeFilter
    PROVE  ListInv'
<1>t. /\ size \in Nat /\ MaxPackets \in Nat /\ Rows \in Nat /\ size <= MaxPackets
      /\ cached \subseteq 1..size /\ rows \subseteq Cells /\ filled \subseteq {r[2] : r \in rows}
      /\ calls \in Seq(Calls) /\ \A i \in 1..Len(calls) : Asked(calls[i])
    BY BoundsAssumption DEF ListInv, ServerInv, CellInv, CallsInv, Counts
<1>s. UNCHANGED serverVars /\ size' = size
    BY DEF Poll, Receive, StatusArrives, FilteredArrives, PacketsArrive, Scroll, ChangeFilter, serverVars
<1>u. ServerInv'
    BY <1>s DEF ListInv, ServerInv, serverVars
<1>1. CASE Poll
  <2> DEFINE call == [name |-> "status"]
  <2>1. calls' = Append(calls, call) /\ UNCHANGED <<answers, view, cellVars, cached, userVars>>
      BY <1>1 DEF Poll
  <2>2. call \in Calls /\ Asked(call)
      BY DEF Calls, Asked
  <2> HIDE DEF call
  <2>3. CallsInv'
    <3>1. /\ Append(calls, call) \in Seq(Calls)
          /\ \A i \in 1..Len(Append(calls, call)) :
              (i \in 1..Len(calls) /\ Append(calls, call)[i] = calls[i]) \/ Append(calls, call)[i] = call
        BY <1>t, <2>2, Appended
    <3> QED  BY <1>s, <1>t, <2>1, <2>2, <3>1 DEF CallsInv, Asked
  <2> QED  BY <1>s, <1>u, <2>1, <2>3 DEF ListInv, AnswersInv, Told, ViewInv, CellInv, UserInv, cellVars, userVars
<1>2. CASE StatusArrives
  <2> DEFINE s == Head(answers).status
             v == [view EXCEPT !.packets = s.packets, !.filtered = s.filtered]
  <2>1. /\ answers # <<>> /\ Head(answers).name = "status" /\ answers' = Tail(answers)
        /\ Update(v, rows, filled, calls) /\ UNCHANGED <<cached, userVars>>
      BY <1>2 DEF StatusArrives, Answered
  <2>2. Head(answers) \in Answers /\ Told(Head(answers)) /\ AnswersInv'
      BY <1>s, <2>1, AnswerTaken DEF ListInv
  <2>3. s.packets \in Counts /\ s.filtered \in Counts \cup {-1} /\ s.packets <= size
      BY <2>1, <2>2, AnswerIs DEF Told
  <2>4. v \in Views /\ v.packets <= size
      BY <2>3 DEF ListInv, ViewInv, Views
  <2> HIDE DEF v
  <2>5. CallsInv' /\ CellInv' /\ ViewInv'
      BY <1>s, <1>t, <2>1, <2>4, UpdateKept
  <2> QED  BY <1>u, <2>1, <2>2, <2>5 DEF ListInv, UserInv, userVars
<1>3. CASE FilteredArrives
  <2> DEFINE a == Head(answers)
  <2>1. /\ answers # <<>> /\ a.name = "filtered" /\ answers' = Tail(answers)
        /\ UpdateCells(rows, filled, calls, a.start - 1, a.list) /\ UNCHANGED <<view, cached, userVars>>
      BY <1>3 DEF FilteredArrives, Answered
  <2>2. a \in Answers /\ Told(a) /\ AnswersInv'
      BY <1>s, <2>1, AnswerTaken DEF ListInv
  <2>3. a.start \in Nat \ {0} /\ a.list \in Seq(Ids)
      BY <2>1, <2>2, AnswerIs
  <2>4. \A n \in 1..Len(a.list) : a.start + n - 1 <= MaxPackets /\ a.list[n] <= size
      BY <2>1, <2>2 DEF Told
  <2> HIDE DEF a
  <2>5. a.start - 1 \in Nat
      BY <2>3
  <2>6. \A n \in 1..Len(a.list) : a.start - 1 + n <= MaxPackets /\ a.list[n] <= size
    <3>1. \A n \in 1..Len(a.list) : a.start - 1 + n = a.start + n - 1
        BY <2>3
    <3> QED  BY <2>4, <3>1
  <2>7. CallsInv' /\ CellInv'
      BY <1>s, <1>t, <2>1, <2>3, <2>5, <2>6, CellsKept
  <2> QED  BY <1>s, <1>u, <2>1, <2>2, <2>7 DEF ListInv, ViewInv, UserInv, userVars
<1>4. CASE PacketsArrive
  <2> DEFINE a == Head(answers)
  <2>1. /\ answers # <<>> /\ a.name = "packets" /\ answers' = Tail(answers)
        /\ cached' = cached \cup a.ids /\ filled' = filled \cup Visible(a.ids)
        /\ UNCHANGED <<calls, view, rows, userVars>>
      BY <1>4 DEF PacketsArrive, Answered
  <2>2. a \in Answers /\ Told(a) /\ AnswersInv'
      BY <1>s, <2>1, AnswerTaken DEF ListInv
  <2>3. a.ids \subseteq 1..size
      BY <2>1, <2>2 DEF Told
  <2>4. CellInv'
      BY <1>s, <1>t, <2>1, <2>3 DEF CellInv, Visible
  <2> QED  BY <1>s, <1>u, <2>1, <2>2, <2>4 DEF ListInv, CallsInv, Asked, ViewInv, UserInv, userVars
<1>5. CASE Scroll
  <2>1. PICK top \in 0..MaxPackets : Update([view EXCEPT !.top = top], rows, filled, calls)
      BY <1>5 DEF Scroll
  <2> DEFINE v == [view EXCEPT !.top = top]
  <2>2. UNCHANGED <<answers, cached, changes>> /\ scrolls' = scrolls + 1
      BY <1>5 DEF Scroll
  <2>3. v \in Views /\ v.packets <= size
      BY DEF ListInv, ViewInv, Views, Counts
  <2> HIDE DEF v
  <2>4. CallsInv' /\ CellInv' /\ ViewInv'
    <3>1. Update(v, rows, filled, calls)
        BY <2>1 DEF v
    <3> QED  BY <1>s, <1>t, <2>2, <2>3, <3>1, UpdateKept
  <2> QED  BY <1>s, <1>u, <2>2, <2>4 DEF ListInv, AnswersInv, Told, UserInv
<1>6. CASE ChangeFilter
  <2>1. PICK f \in Filters \cup {NoFilter} :
            Update([view EXCEPT !.filtered = 0, !.prev = <<-1, -1>>], {}, {},
                   Append(calls, [name |-> "filter", filter |-> f]))
      BY <1>6 DEF ChangeFilter
  <2> DEFINE v == [view EXCEPT !.filtered = 0, !.prev = <<-1, -1>>]
             call == [name |-> "filter", filter |-> f]
             sent == Append(calls, call)
  <2>2. UNCHANGED <<answers, cached, scrolls>> /\ changes' = changes + 1
      BY <1>6 DEF ChangeFilter
  <2>3. v \in Views /\ v.packets <= size
    <3>1. 0 \in Counts /\ <<-1, -1>> \in Seq(Int)
        BY <1>t DEF Counts
    <3> QED  BY <3>1 DEF ListInv, ViewInv, Views
  <2>4. call \in Calls /\ Asked(call)
      BY DEF Calls, Asked
  <2> HIDE DEF v, call
  <2>5. sent \in Seq(Calls) /\ \A i \in 1..Len(sent) : Asked(sent[i])
    <3>1. /\ sent \in Seq(Calls)
          /\ \A i \in 1..Len(sent) : (i \in 1..Len(calls) /\ sent[i] = calls[i]) \/ sent[i] = call
        BY <1>t, <2>4, Appended
    <3> QED  BY <1>t, <2>4, <3>1
  <2> HIDE DEF sent
  <2>6. CallsInv' /\ CellInv' /\ ViewInv'
    <3>1. Update(v, {}, {}, sent)
        BY <2>1 DEF v, sent, call
    <3> QED  BY <1>s, <1>t, <2>2, <2>3, <2>5, <3>1, UpdateKept
  <2> QED  BY <1>s, <1>u, <2>2, <2>6 DEF ListInv, AnswersInv, Told, UserInv
<1> QED  BY <1>1, <1>2, <1>3, <1>4, <1>5, <1>6 DEF Receive

LEMMA NextListInv ==
    ASSUME ListInv, [Next]_vars PROVE ListInv'
<1>1. CASE UNCHANGED vars
    BY <1>1 DEF ListInv, ServerInv, CallsInv, AnswersInv, ViewInv, CellInv, UserInv, Asked, Told,
                vars, serverVars, cellVars, userVars
<1> QED  BY <1>1, DispatcherListInv, ServerListInv, ClientListInv DEF Next

\* An answer that is taken is no longer counted.
LEMMA OldTaken ==
    ASSUME NEW n \in Nat
    PROVE  Max({0, n - 1}) \in {0, n - 1} /\ Max({0, n - 1}) >= 0 /\ Max({0, n - 1}) >= n - 1
<1>1. n - 1 \in Int /\ 0 \in Int
    OBVIOUS
<1> QED  BY <1>1, MinMax

\* The history keeps count of the answers that were given before the server
\* took its filter.
LEMMA InitHeardInv ==
    ASSUME Init PROVE HeardInv
    BY DEF Init, HeardInv

LEMMA NextHeardInv ==
    ASSUME ListInv, HeardInv, [Next]_vars PROVE HeardInv'
<1>t. /\ answers \in Seq(Answers) /\ Len(answers) \in Nat
      /\ old \in Nat /\ old <= Len(answers) /\ heard \in {"nothing", "current", "late"}
    BY DEF ListInv, AnswersInv, HeardInv
<1>1. CASE UNCHANGED <<answers, old, heard>>
    BY <1>1 DEF HeardInv
<1>2. CASE (\E a : answers' = Append(answers, a)) /\ UNCHANGED <<old, heard>>
  <2>1. Len(answers') = Len(answers) + 1
      BY <1>t, <1>2
  <2> QED  BY <1>t, <1>2, <2>1 DEF HeardInv
<1>3. CASE SetFilter
    BY <1>t, <1>3 DEF SetFilter, HeardInv
<1>4. CASE Receive
  <2>1. answers # <<>> /\ answers' = Tail(answers) /\ old' = Max({0, old - 1})
      BY <1>4 DEF Receive, StatusArrives, FilteredArrives, PacketsArrive, Answered
  <2>2. heard' \in {"nothing", "current", "late"}
      BY <1>t, <1>4 DEF Receive, StatusArrives, FilteredArrives, PacketsArrive, Hear
  <2>3. Len(answers') = Len(answers) - 1 /\ Len(answers') \in Nat
      BY <1>t, <2>1
  <2>4. old' \in {0, old - 1} /\ old' >= 0 /\ old' >= old - 1
      BY <1>t, <2>1, OldTaken
  <2> QED  BY <1>t, <2>2, <2>3, <2>4 DEF HeardInv
<1>5. CASE ChangeFilter
    BY <1>t, <1>5 DEF ChangeFilter, HeardInv
<1>6. CASE Serve
  <2>1. CASE GetStatus
      BY <1>1, <1>2, <2>1 DEF GetStatus, heardVars
  <2>2. CASE ReadSize \/ GetFiltered \/ GetPackets
      BY <1>1, <1>2, <2>2 DEF ReadSize, GetFiltered, GetPackets, heardVars
  <2> QED  BY <1>3, <1>6, <2>1, <2>2 DEF Serve
<1>7. CASE Dissect \/ EndVisit \/ FilterOne \/ Poll \/ Scroll
    BY <1>1, <1>7 DEF Dissect, EndVisit, FilterOne, Poll, Scroll, heardVars
<1>8. CASE UNCHANGED vars
    BY <1>1, <1>8 DEF vars, heardVars
<1> QED  BY <1>4, <1>5, <1>6, <1>7, <1>8 DEF Next

LEMMA ListInvariant ==
    Spec => [](ListInv /\ HeardInv)
<1>1. Init => ListInv /\ HeardInv
    BY InitListInv, InitHeardInv
<1>2. ListInv /\ HeardInv /\ [Next]_vars => (ListInv /\ HeardInv)'
    BY NextListInv, NextHeardInv
<1> QED  BY <1>1, <1>2, PTL DEF Spec

\* What has a type keeps it, a status tells of no packet that is not
\* dissected, and only visible cells are filled.
THEOREM TypeCorrect == Spec => []TypeOK
<1>1. ListInv /\ HeardInv => TypeOK
  <2> SUFFICES ASSUME ListInv, HeardInv PROVE TypeOK
      OBVIOUS
  <2>1. size \in Nat /\ MaxPackets \in Nat /\ size <= MaxPackets
      BY BoundsAssumption DEF ListInv, ServerInv, Counts
  <2>2. cached \subseteq Ids
      BY <2>1 DEF ListInv, CellInv, Ids
  <2>3. view.packets \in Counts /\ view.filtered \in Counts \cup {-1}
      BY DEF ListInv, ViewInv, Views
  <2>4. old \in 0..Len(answers) /\ heard \in {"nothing", "current", "late"}
      BY DEF ListInv, AnswersInv, HeardInv
  <2> QED  BY <2>2, <2>3, <2>4 DEF ListInv, ServerInv, CellInv, Cells, TypeOK
<1> QED  BY <1>1, ListInvariant, PTL

\* get(list) of the dispatcher does not look at streamMaxID: it gives out any
\* packet that is dissected. Still the client never asks for one the stream
\* thread is not done with, and caches none, since the list asks for what a
\* status or a list of the filter has told it.
THEOREM AsksFinished == Spec => []AsksFinishedPackets
<1>1. ListInv => AsksFinishedPackets
  <2> SUFFICES ASSUME ListInv PROVE AsksFinishedPackets
      OBVIOUS
  <2>1. DOMAIN calls = 1..Len(calls)
      BY DEF ListInv, CallsInv
  <2> QED  BY <2>1 DEF ListInv, CellInv, CallsInv, Asked, AsksFinishedPackets
<1> QED  BY <1>1, ListInvariant, PTL

-----------------------------------------------------------------------------
(* The rows. The list they should show only grows at its end while the     *)
(* server's filter stays, so a place that was right when it was told is    *)
(* right when it is shown; and what was told before the filter came counts *)
(* as late.                                                                *)

LEMMA InitRowsInv ==
    ASSUME Init PROVE RowsInv
    BY DEF Init, RowsInv, AnswersRight, ViewRight

LEMMA ListStays ==
    ASSUME ServerInv, UNCHANGED <<match, filter>>, size' \in {size, size + 1},
           fetched' \in {fetched, fetched + 1}
    PROVE  \A n, id : AtPlace(n, id) => n \in DOMAIN List' /\ List'[n] = id
<1>1. size \in Nat
    BY BoundsAssumption DEF ServerInv, Counts
<1>2. CASE filter = NoFilter
    BY <1>1, <1>2 DEF List, AtPlace
<1>3. CASE filter # NoFilter
    BY <1>3, FilteredStays DEF List, AtPlace
<1> QED  BY <1>2, <1>3

LEMMA ListSame ==
    ASSUME UNCHANGED <<match, filter, size, fetched>>
    PROVE  List' = List
    BY DEF List, Filtered, Passed

LEMMA DispatcherRowsInv ==
    ASSUME ListInv, RowsInv, Dissect \/ EndVisit \/ FilterOne
    PROVE  RowsInv'
<1>1. UNCHANGED <<match, filter, calls, answers, view, rows, old, heard>>
    BY DEF Dissect, EndVisit, FilterOne, cellVars, heardVars
<1>2. size' \in {size, size + 1} /\ fetched' \in {fetched, fetched + 1}
    BY DEF Dissect, EndVisit, FilterOne
<1>3. \A n, id : AtPlace(n, id) => n \in DOMAIN List' /\ List'[n] = id
    BY <1>1, <1>2, ListStays DEF ListInv
<1>4. AnswersRight'
  <2> SUFFICES ASSUME NEW i \in 1..Len(answers), i > old
               PROVE  OfFilter(answers[i])'
      BY <1>1 DEF AnswersRight
  <2>1. OfFilter(answers[i]) /\ answers'[i] = answers[i]
      BY <1>1 DEF RowsInv, AnswersRight
  <2>2. answers[i].name = "filtered" => \A n \in 1..Len(answers[i].list) :
           /\ answers[i].start + n - 1 \in DOMAIN List'
           /\ List'[answers[i].start + n - 1] = answers[i].list[n]
      BY <1>3, <2>1 DEF OfFilter
  <2> QED  BY <1>1, <2>1, <2>2 DEF OfFilter, AtPlace
<1>5. ASSUME ViewRight PROVE ViewRight'
  <2>1. \A r \in rows' : r[1] + 1 \in DOMAIN List' /\ List'[r[1] + 1] = r[2]
      BY <1>1, <1>3, <1>5 DEF ViewRight
  <2> QED  BY <1>1, <1>5, <2>1 DEF ViewRight, AtPlace
<1> QED  BY <1>1, <1>4, <1>5 DEF RowsInv

\* The server gives the list the places of the filter's list as it is now, and
\* a new filter makes every answer under way an old one.
LEMMA ServerRowsInv ==
    ASSUME ListInv, HeardInv, RowsInv, Serve
    PROVE  RowsInv'
<1>c. calls # <<>> /\ \A i \in 1..Len(calls') : \E k \in 1..Len(calls) : calls'[i] = calls[k]
  <2>1. calls # <<>> /\ (calls' = Tail(calls) \/ calls' = calls) /\ size' = size
      BY DEF Serve, ReadSize, GetStatus, GetFiltered, GetPackets, SetFilter, Serving, serverVars
  <2>2. CASE calls' = Tail(calls)
      BY <2>1, <2>2, CallTaken DEF ListInv
  <2>3. CASE calls' = calls
    <3>1. \A i \in 1..Len(calls') : i \in 1..Len(calls) /\ calls'[i] = calls[i]
        BY <2>3
    <3> QED  BY <2>1, <3>1
  <2> QED  BY <2>1, <2>2, <2>3
<1>h. Head(calls) = calls[1] /\ 1 \in 1..Len(calls) /\ Head(calls) \in Calls
    BY <1>c, Taken DEF ListInv, CallsInv
<1>s. UNCHANGED <<view, rows, heard>>
    BY DEF Serve, ReadSize, GetStatus, GetFiltered, GetPackets, SetFilter,
           cellVars, heardVars
<1>a. ASSUME UNCHANGED <<match, filter, size, fetched, old>>, AnswersRight' PROVE RowsInv'
  <2>1. List' = List
      BY <1>a, ListSame
  <2>2. ASSUME ViewRight PROVE ViewRight'
    <3>1. \A i \in 1..Len(calls') : calls'[i].name # "filter"
        BY <1>c, <2>2 DEF ViewRight
    <3> QED  BY <1>a, <1>s, <2>1, <2>2, <3>1 DEF ViewRight, AtPlace
  <2> QED  BY <1>a, <1>s, <2>2 DEF RowsInv
<1>b. ASSUME UNCHANGED <<match, filter, size, fetched, old>>,
             NEW a \in Answers, Told(a), answers' = Append(answers, a), OfFilter(a)
      PROVE  RowsInv'
  <2>1. List' = List
      BY <1>b, ListSame
  <2>2. \A i \in 1..Len(answers') :
           (i \in 1..Len(answers) /\ answers'[i] = answers[i]) \/ answers'[i] = a
      BY <1>b, AnswerGiven DEF ListInv
  <2>3. \A i \in 1..Len(answers') : i > old' => OfFilter(answers'[i])
      BY <1>b, <2>2 DEF RowsInv, AnswersRight
  <2>4. AnswersRight'
      BY <1>b, <2>1, <2>3 DEF AnswersRight, OfFilter, AtPlace
  <2> QED  BY <1>a, <1>b, <2>4
<1>1. CASE ReadSize
  <2>1. UNCHANGED <<match, filter, size, fetched, old, answers>>
      BY <1>1 DEF ReadSize, heardVars
  <2>2. List' = List
      BY <2>1, ListSame
  <2>3. AnswersRight'
      BY <2>1, <2>2 DEF RowsInv, AnswersRight, OfFilter, AtPlace
  <2> QED  BY <1>a, <2>1, <2>3
<1>2. CASE GetStatus
  <2> DEFINE new == [packets  |-> reading[1],
                     filtered |-> IF filter = NoFilter THEN -1 ELSE Len(Filtered)]
             ans == [name |-> "status", status |-> new]
  <2>1. /\ answers' = Append(answers, ans) \/ UNCHANGED answers
        /\ UNCHANGED <<match, filter, size, fetched, old>>
      BY <1>2 DEF GetStatus, heardVars
  <2>2. reading[1] \in 0..size /\ Len(Filtered) \in 0..fetched
      BY <1>2, FilteredIs DEF ListInv, ServerInv, GetStatus
  <2>3. ans \in Answers /\ Told(ans)
    <3>1. new \in Status /\ new.packets <= size
        BY <2>2, BoundsAssumption DEF Status, Counts, ListInv, ServerInv
    <3> QED  BY <3>1 DEF Answers, Told
  <2>4. OfFilter(ans)
    <3>1. Len(Filtered) # -1
        BY <2>2, BoundsAssumption DEF ListInv, ServerInv, Counts
    <3> QED  BY <3>1 DEF OfFilter
  <2> HIDE DEF ans
  <2>5. CASE answers' = Append(answers, ans)
      BY <1>b, <2>1, <2>3, <2>4, <2>5
  <2>6. CASE UNCHANGED answers
    <3>1. List' = List
        BY <2>1, ListSame
    <3>2. AnswersRight'
        BY <2>1, <2>6, <3>1 DEF RowsInv, AnswersRight, OfFilter, AtPlace
    <3> QED  BY <1>a, <2>1, <3>2
  <2> QED  BY <2>1, <2>5, <2>6
<1>3. CASE GetFiltered
  <2> DEFINE c == Head(calls)
             part == SubSeq(Filtered, c.start, Min({c.end, Len(Filtered)}))
             ans == [name |-> "filtered", start |-> c.start, list |-> part]
  <2>1. /\ c.name = "filtered" /\ answers' = Append(answers, ans)
        /\ UNCHANGED <<match, filter, size, fetched, old>>
      BY <1>3 DEF GetFiltered, Serving, serverVars, heardVars
  <2>2. c.start \in Nat \ {0} /\ c.end \in Int
      BY <1>h, <2>1, CallIs
  <2>3. /\ part \in Seq(Ids)
        /\ \A n \in 1..Len(part) :
              /\ c.start + n - 1 \in 1..Len(Filtered) /\ part[n] = Filtered[c.start + n - 1]
              /\ c.start + n - 1 <= MaxPackets /\ part[n] <= size
      BY <2>2, ListPart DEF ListInv
  <2> HIDE DEF part
  <2>4. ans \in Answers /\ Told(ans)
      BY <2>2, <2>3 DEF Answers, Told
  <2>5. DOMAIN Filtered = 1..Len(Filtered)
      BY FilteredIs DEF ListInv
  <2>6. filter = NoFilter => Len(Filtered) = 0
    <3>1. filter = NoFilter => Passed = {}
        BY DEF Passed
    <3> QED  BY <3>1, FilteredIs, FS_EmptySet DEF ListInv
  <2>7. \A n \in 1..Len(part) : filter # NoFilter
    <3>1. Len(Filtered) = 0 => 1..Len(Filtered) = {}
        OBVIOUS
    <3> QED  BY <2>3, <2>6, <3>1
  <2>8. \A n \in 1..Len(ans.list) : AtPlace(ans.start + n - 1, ans.list[n])
      BY <2>3, <2>5, <2>7 DEF AtPlace, List
  <2>9. OfFilter(ans)
      BY <2>8 DEF OfFilter
  <2> HIDE DEF ans
  <2> QED  BY <1>b, <2>1, <2>4, <2>9
<1>4. CASE GetPackets
  <2> DEFINE c == Head(calls)
             ans == [name |-> "packets", ids |-> c.ids \cap 1..dissected]
  <2>1. /\ c.name = "packets" /\ answers' = Append(answers, ans)
        /\ UNCHANGED <<match, filter, size, fetched, old>>
      BY <1>4 DEF GetPackets, Serving, serverVars, heardVars
  <2>2. c.ids \subseteq Ids /\ c.ids \subseteq 1..size
      BY <1>h, <2>1, CallIs DEF ListInv, CallsInv, Asked
  <2>3. ans \in Answers /\ Told(ans) /\ OfFilter(ans)
      BY <2>2 DEF Answers, Told, OfFilter
  <2> HIDE DEF ans
  <2> QED  BY <1>b, <2>1, <2>3
<1>5. CASE SetFilter
  <2>1. answers' = answers /\ old' = Len(answers) /\ calls[1].name = "filter"
      BY <1>h, <1>5 DEF SetFilter, Serving
  <2>2. AnswersRight'
    <3>1. \A i \in 1..Len(answers) : ~(i > Len(answers))
        BY DEF ListInv, AnswersInv
    <3> QED  BY <2>1, <3>1 DEF AnswersRight
  <2>3. heard # "current"
      BY <1>h, <2>1 DEF RowsInv, ViewRight
  <2> QED  BY <1>s, <2>2, <2>3 DEF RowsInv
<1> QED  BY <1>1, <1>2, <1>3, <1>4, <1>5 DEF Serve

\* A row that is new has the place its list was given with.
LEMMA CellsRight ==
    ASSUME NEW shown, \A r \in shown : AtPlace(r[1] + 1, r[2]),
           NEW full, NEW sent, NEW start \in Nat, NEW list \in Seq(Ids),
           \A n \in 1..Len(list) : AtPlace(start + n, list[n]),
           UpdateCells(shown, full, sent, start, list)
    PROVE  \A r \in rows' : AtPlace(r[1] + 1, r[2])
<1>1. rows' = shown \cup Placed(shown, start, list)
    BY DEF UpdateCells
<1>2. ASSUME NEW r \in Placed(shown, start, list) PROVE AtPlace(r[1] + 1, r[2])
  <2>1. PICK n \in 1..Len(list) : r = <<start + n - 1, list[n]>>
      BY DEF Placed
  <2>2. r[1] + 1 = start + n /\ r[2] = list[n]
      BY <2>1
  <2> QED  BY <2>2
<1> QED  BY <1>1, <1>2

\* An update of the list makes rows up only where there is no filter, or before
\* the first status has arrived.
LEMMA UpdateRight ==
    ASSUME size \in Nat, MaxPackets \in Nat, Rows \in Nat, size <= MaxPackets,
           NEW v \in Views, v.packets <= size,
           v.filtered = -1 => filter = NoFilter \/ v.packets = 0,
           NEW shown, \A r \in shown : AtPlace(r[1] + 1, r[2]),
           NEW full, NEW sent, Update(v, shown, full, sent)
    PROVE  \A r \in rows' : AtPlace(r[1] + 1, r[2])
<1> DEFINE kept == {r \in shown : r[1] >= v.top - 1 /\ r[1] <= v.top + Rows}
           still == full \cap {r[2] : r \in kept}
           list == [n \in 1..(Last1(v) - First(v) + 1) |-> First(v) + n - 1]
<1>1. First(v) \in Nat \ {0} /\ Last1(v) \in Int /\ (v.filtered = -1 => Last1(v) <= v.packets)
    BY RangeIs
<1>2. \/ rows' = kept
      \/ First(v) <= Last1(v) /\ v.filtered = -1 /\ UpdateCells(kept, still, sent, First(v) - 1, list)
    BY <1>1 DEF Update
<1>3. \A r \in kept : AtPlace(r[1] + 1, r[2])
    OBVIOUS
<1> HIDE DEF kept, still
<1>4. CASE First(v) <= Last1(v) /\ v.filtered = -1 /\ UpdateCells(kept, still, sent, First(v) - 1, list)
  <2>1. /\ First(v) - 1 \in Nat /\ list \in Seq(Ids)
        /\ \A n \in 1..Len(list) :
              /\ First(v) - 1 + n <= size /\ First(v) - 1 + n >= 1
              /\ list[n] = First(v) - 1 + n
      BY <1>4, PlainList
  <2> HIDE DEF list
  <2>2. v.packets # 0
      BY <1>1, <1>4
  <2>3. List = [n \in 1..size |-> n]
      BY <1>4, <2>2 DEF List
  <2>4. ASSUME NEW n \in 1..Len(list) PROVE AtPlace(First(v) - 1 + n, list[n])
    <3>1. First(v) - 1 + n \in 1..size
        BY <2>1
    <3> QED  BY <2>1, <2>3, <3>1 DEF AtPlace
  <2> QED  BY <1>3, <1>4, <2>1, <2>4, CellsRight
<1> QED  BY <1>2, <1>3, <1>4

\* Where a filter is known it makes up none.
LEMMA UpdateHides ==
    ASSUME Rows \in Nat, MaxPackets \in Nat,
           NEW v \in Views, v.filtered # -1,
           NEW shown, NEW full, NEW sent, Update(v, shown, full, sent)
    PROVE  rows' \subseteq shown
<1> DEFINE kept == {r \in shown : r[1] >= v.top - 1 /\ r[1] <= v.top + Rows}
<1>1. rows' = kept
    BY DEF Update
<1> QED  BY <1>1

\* What an answer leaves: those behind it are as right as they were, and it is
\* late or right itself.
LEMMA AnswerHeard ==
    ASSUME ListInv, HeardInv, RowsInv, UNCHANGED <<match, filter, size, fetched>>,
           answers # <<>>, answers' = Tail(answers), old' = Max({0, old - 1})
    PROVE  /\ AnswersRight'
           /\ ~Late => OfFilter(Head(answers)) /\ \A i \in 1..Len(calls) : calls[i].name # "filter"
<1>t. answers \in Seq(Answers) /\ old \in Nat /\ List' = List
    BY ListSame DEF ListInv, AnswersInv, HeardInv
<1>1. /\ Head(answers) = answers[1] /\ 1 \in 1..Len(answers)
      /\ \A i \in 1..Len(Tail(answers)) :
            i + 1 \in 1..Len(answers) /\ Tail(answers)[i] = answers[i + 1]
    BY <1>t, Taken
<1>2. old' >= old - 1 /\ old' \in Int
  <2>1. old' >= old - 1 /\ old' \in {0, old - 1}
      BY <1>t, OldTaken
  <2> QED  BY <1>t, <2>1
<1>3. ASSUME NEW i \in 1..Len(answers'), i > old' PROVE OfFilter(answers'[i])
  <2>1. i + 1 > old
      BY <1>t, <1>2, <1>3
  <2> QED  BY <1>1, <2>1 DEF RowsInv, AnswersRight
<1>4. AnswersRight'
    BY <1>t, <1>3 DEF AnswersRight, OfFilter, AtPlace
<1>5. ASSUME ~Late
      PROVE  OfFilter(Head(answers)) /\ \A i \in 1..Len(calls) : calls[i].name # "filter"
  <2>1. ~(old > 0) /\ ~\E i \in DOMAIN calls : calls[i].name = "filter"
      BY <1>5 DEF Late
  <2>2. 1 > old
      BY <1>t, <2>1
  <2>3. DOMAIN calls = 1..Len(calls)
      BY DEF ListInv, CallsInv
  <2> QED  BY <1>1, <2>1, <2>2, <2>3 DEF RowsInv, AnswersRight
<1> QED  BY <1>4, <1>5

LEMMA ClientRowsInv ==
    ASSUME ListInv, HeardInv, RowsInv, Poll \/ Receive \/ Scroll \/ ChangeFilter
    PROVE  RowsInv'
<1>t. /\ size \in Nat /\ MaxPackets \in Nat /\ Rows \in Nat /\ size <= MaxPackets
      /\ cached \subseteq 1..size /\ rows \subseteq Cells /\ filled \subseteq {r[2] : r \in rows}
      /\ calls \in Seq(Calls) /\ \A i \in 1..Len(calls) : Asked(calls[i])
    BY BoundsAssumption DEF ListInv, ServerInv, CellInv, CallsInv, Counts
<1>s. UNCHANGED <<match, filter, size, fetched>>
    BY DEF Poll, Receive, StatusArrives, FilteredArrives, PacketsArrive, Scroll, ChangeFilter, serverVars
<1>l. List' = List
    BY <1>s, ListSame
<1>a. ASSUME UNCHANGED <<answers, old>> PROVE AnswersRight'
    BY <1>a, <1>l, <1>s DEF RowsInv, AnswersRight, OfFilter, AtPlace
<1>v. ASSUME \A i \in 1..Len(calls') : calls'[i].name # "filter",
             \A r \in rows' : AtPlace(r[1] + 1, r[2]),
             view'.filtered = -1 => filter = NoFilter \/ view'.packets = 0
      PROVE  ViewRight'
    BY <1>l, <1>s, <1>v DEF ViewRight, AtPlace
<1>r. heard \in {"nothing", "current"} => \A r \in rows : AtPlace(r[1] + 1, r[2])
    BY DEF RowsInv, ViewRight
\* An update of a view that is told right.
<1>u. ASSUME NEW v \in Views, v.packets <= size, Update(v, rows, filled, calls), UNCHANGED cached,
             \A i \in 1..Len(calls) : calls[i].name # "filter",
             \A r \in rows : AtPlace(r[1] + 1, r[2]),
             v.filtered = -1 => filter = NoFilter \/ v.packets = 0
      PROVE  ViewRight'
  <2>1. /\ view'.filtered = v.filtered /\ view'.packets = v.packets
        /\ \A i \in 1..Len(calls') :
              \/ calls'[i].name = "packets" \/ \E k \in 1..Len(calls) : calls'[i] = calls[k]
              \/ calls'[i].name = "filtered" /\ v.filtered # -1
      BY <1>u, <1>s, <1>t, UpdateKept
  <2>2. \A r \in rows' : AtPlace(r[1] + 1, r[2])
      BY <1>u, <1>t, UpdateRight
  <2>3. \A i \in 1..Len(calls') : calls'[i].name # "filter"
      BY <1>u, <2>1
  <2> QED  BY <1>u, <1>v, <2>1, <2>2, <2>3
<1>1. CASE Poll
  <2> DEFINE call == [name |-> "status"]
  <2>1. calls' = Append(calls, call) /\ UNCHANGED <<view, rows, answers, old, heard>>
      BY <1>1 DEF Poll, cellVars, heardVars
  <2>2. call \in Calls /\ call.name = "status"
      BY DEF Calls
  <2> HIDE DEF call
  <2>3. \A i \in 1..Len(calls') : (i \in 1..Len(calls) /\ calls'[i] = calls[i]) \/ calls'[i] = call
      BY <1>t, <2>1, <2>2, Appended
  <2>4. ASSUME ViewRight PROVE ViewRight'
      BY <1>v, <2>1, <2>2, <2>3, <2>4 DEF ViewRight
  <2> QED  BY <1>a, <2>1, <2>4 DEF RowsInv
<1>2. CASE StatusArrives
  <2> DEFINE s == Head(answers).status
             v == [view EXCEPT !.packets = s.packets, !.filtered = s.filtered]
  <2>1. /\ answers # <<>> /\ Head(answers).name = "status" /\ answers' = Tail(answers)
        /\ old' = Max({0, old - 1}) /\ Hear
        /\ Update(v, rows, filled, calls) /\ UNCHANGED cached
      BY <1>2 DEF StatusArrives, Answered
  <2>2. Head(answers) \in Answers /\ Told(Head(answers))
      BY <1>s, <2>1, AnswerTaken DEF ListInv
  <2>3. s.packets \in Counts /\ s.filtered \in Counts \cup {-1} /\ s.packets <= size
      BY <2>1, <2>2, AnswerIs DEF Told
  <2>4. v \in Views /\ v.packets <= size /\ v.filtered = s.filtered
      BY <2>3 DEF ListInv, ViewInv, Views
  <2>5. /\ AnswersRight'
        /\ ~Late => OfFilter(Head(answers)) /\ \A i \in 1..Len(calls) : calls[i].name # "filter"
      BY <1>s, <2>1, AnswerHeard
  <2>6. heard' # "nothing" /\ (heard' = "current" => ~Late /\ heard # "late")
      BY <2>1 DEF Hear
  <2> HIDE DEF v
  <2>7. ASSUME ~Late, heard # "late" PROVE ViewRight'
    <3>1. \A r \in rows : AtPlace(r[1] + 1, r[2])
        BY <1>r, <2>7 DEF HeardInv
    <3>2. v.filtered = -1 => filter = NoFilter
        BY <2>1, <2>4, <2>5, <2>7 DEF OfFilter
    <3> QED  BY <1>u, <2>1, <2>4, <2>5, <2>7, <3>1, <3>2
  <2> QED  BY <2>5, <2>6, <2>7 DEF RowsInv
<1>3. CASE FilteredArrives
  <2> DEFINE a == Head(answers)
  <2>1. /\ answers # <<>> /\ a.name = "filtered" /\ answers' = Tail(answers)
        /\ old' = Max({0, old - 1}) /\ Hear
        /\ UpdateCells(rows, filled, calls, a.start - 1, a.list) /\ UNCHANGED <<view, cached>>
      BY <1>3 DEF FilteredArrives, Answered
  <2>2. a \in Answers /\ Told(a)
      BY <1>s, <2>1, AnswerTaken DEF ListInv
  <2>3. a.start \in Nat \ {0} /\ a.list \in Seq(Ids)
      BY <2>1, <2>2, AnswerIs
  <2>4. \A n \in 1..Len(a.list) : a.start + n - 1 <= MaxPackets /\ a.list[n] <= size
      BY <2>1, <2>2 DEF Told
  <2>5. /\ AnswersRight'
        /\ ~Late => OfFilter(a) /\ \A i \in 1..Len(calls) : calls[i].name # "filter"
      BY <1>s, <2>1, AnswerHeard
  <2>6. heard' # "nothing" /\ (heard' = "current" => ~Late /\ heard # "late")
      BY <2>1 DEF Hear
  <2> HIDE DEF a
  <2>7. a.start - 1 \in Nat /\ \A n \in 1..Len(a.list) : a.start - 1 + n = a.start + n - 1
      BY <2>3
  <2>8. \A n \in 1..Len(a.list) : a.start - 1 + n <= MaxPackets /\ a.list[n] <= size
      BY <2>4, <2>7
  <2>9. \A i \in 1..Len(calls') :
           calls'[i].name = "packets" \/ \E k \in 1..Len(calls) : calls'[i] = calls[k]
      BY <1>s, <1>t, <2>1, <2>3, <2>7, <2>8, CellsKept
  <2>10. ASSUME ~Late, heard # "late" PROVE ViewRight'
    <3>1. \A r \in rows : AtPlace(r[1] + 1, r[2])
        BY <1>r, <2>10 DEF HeardInv
    <3>2. \A n \in 1..Len(a.list) : AtPlace(a.start - 1 + n, a.list[n])
        BY <2>1, <2>5, <2>7, <2>10 DEF OfFilter
    <3>3. \A r \in rows' : AtPlace(r[1] + 1, r[2])
        BY <2>1, <2>3, <2>7, <3>1, <3>2, CellsRight
    <3>4. \A i \in 1..Len(calls') : calls'[i].name # "filter"
        BY <2>5, <2>9, <2>10
    <3>5. view'.filtered = -1 => filter = NoFilter \/ view'.packets = 0
      <4>1. heard \in {"nothing", "current"}
          BY <2>10 DEF HeardInv
      <4>2. heard = "nothing" => view.filtered # -1
          BY DEF RowsInv
      <4> QED  BY <2>1, <4>1, <4>2 DEF RowsInv, ViewRight
    <3> QED  BY <1>v, <3>3, <3>4, <3>5
  <2> QED  BY <2>5, <2>6, <2>10 DEF RowsInv
<1>4. CASE PacketsArrive
  <2>1. /\ answers # <<>> /\ answers' = Tail(answers) /\ old' = Max({0, old - 1})
        /\ UNCHANGED <<calls, view, rows, heard>>
      BY <1>4 DEF PacketsArrive, Answered
  <2>2. AnswersRight'
      BY <1>s, <2>1, AnswerHeard
  <2>3. ASSUME ViewRight PROVE ViewRight'
      BY <1>v, <2>1, <2>3 DEF ViewRight
  <2> QED  BY <2>1, <2>2, <2>3 DEF RowsInv
<1>5. CASE Scroll
  <2>1. PICK top \in 0..MaxPackets : Update([view EXCEPT !.top = top], rows, filled, calls)
      BY <1>5 DEF Scroll
  <2> DEFINE v == [view EXCEPT !.top = top]
  <2>2. UNCHANGED <<cached, answers, old, heard>>
      BY <1>5 DEF Scroll, heardVars
  <2>3. v \in Views /\ v.packets <= size /\ v.packets = view.packets /\ v.filtered = view.filtered
      BY DEF ListInv, ViewInv, Views, Counts
  <2>4. Update(v, rows, filled, calls)
      BY <2>1
  <2> HIDE DEF v
  <2>5. ASSUME ViewRight PROVE ViewRight'
      BY <1>u, <2>2, <2>3, <2>4, <2>5 DEF ViewRight
  <2>6. ASSUME rows = {}, view.filtered = 0 PROVE rows' = {} /\ view'.filtered = 0
    <3>1. v.filtered # -1
        BY <2>3, <2>6
    <3>2. rows' \subseteq rows
        BY <1>t, <2>3, <2>4, <3>1, UpdateHides
    <3>3. view'.filtered = v.filtered
        BY <1>s, <1>t, <2>2, <2>3, <2>4, UpdateKept
    <3> QED  BY <2>3, <2>6, <3>2, <3>3
  <2> QED  BY <1>a, <2>2, <2>5, <2>6 DEF RowsInv
<1>6. CASE ChangeFilter
  <2>1. PICK f \in Filters \cup {NoFilter} :
            Update([view EXCEPT !.filtered = 0, !.prev = <<-1, -1>>], {}, {},
                   Append(calls, [name |-> "filter", filter |-> f]))
      BY <1>6 DEF ChangeFilter
  <2> DEFINE v == [view EXCEPT !.filtered = 0, !.prev = <<-1, -1>>]
             sent == Append(calls, [name |-> "filter", filter |-> f])
  <2>2. UNCHANGED <<answers, old>> /\ heard' = "nothing"
      BY <1>6 DEF ChangeFilter
  <2>3. v \in Views /\ v.filtered = 0
    <3>1. 0 \in Counts /\ <<-1, -1>> \in Seq(Int)
        BY <1>t DEF Counts
    <3> QED  BY <3>1 DEF ListInv, ViewInv, Views
  <2>4. Update(v, {}, {}, sent)
      BY <2>1
  <2>5. view' = [v EXCEPT !.prev = <<First(v), Last1(v)>>]
      BY <2>4 DEF Update
  <2> HIDE DEF v, sent
  <2>6. rows' = {}
      BY <1>t, <2>3, <2>4, UpdateHides
  <2>7. view'.filtered = 0
      BY <2>3, <2>5 DEF Views
  <2> QED  BY <1>a, <2>2, <2>6, <2>7 DEF RowsInv
<1> QED  BY <1>1, <1>2, <1>3, <1>4, <1>5, <1>6 DEF Receive

LEMMA NextRowsInv ==
    ASSUME ListInv, HeardInv, RowsInv, [Next]_vars PROVE RowsInv'
<1>1. CASE UNCHANGED vars
  <2>1. /\ UNCHANGED <<match, filter, size, fetched>>
        /\ UNCHANGED <<calls, answers, view, rows, old, heard>>
      BY <1>1 DEF vars, serverVars, cellVars, heardVars
  <2>2. List' = List
      BY <2>1, ListSame
  <2> QED  BY <2>1, <2>2 DEF RowsInv, AnswersRight, ViewRight, OfFilter, AtPlace
<1> QED  BY <1>1, DispatcherRowsInv, ServerRowsInv, ClientRowsInv DEF Next

\* A row shows the packet of its place in the list of the filter, however the
\* status, the pages and the packets cross each other on the wire, wherever the
\* user scrolls and whichever filters are applied meanwhile, unless a status or
\* a page of an older filter arrived after the last one was applied.
THEOREM RowsRight == Spec => []RowsAreRight
<1>1. HeardInv /\ RowsInv => RowsAreRight
    BY DEF HeardInv, RowsInv, ViewRight, AtPlace, RowsAreRight
<1>2. Init => RowsInv
    BY InitRowsInv
<1>3. ListInv /\ HeardInv /\ RowsInv /\ [Next]_vars => RowsInv'
    BY NextRowsInv
<1> QED  BY <1>1, <1>2, <1>3, ListInvariant, PTL DEF Spec
=============================================================================
