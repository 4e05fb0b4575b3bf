------------------------ MODULE TestdataReplayProofs ------------------------
(***************************************************************************)
(* Proofs about TestdataReplay, for any number of dissector threads, any   *)
(* length of the test data, limit of the queue and bounds: only the source *)
(* in use runs, every insert is stored once under the id its object has by *)
(* then, and maxID stops only before an id that was overwritten.           *)
(***************************************************************************)
EXTENDS TestdataReplay, FiniteSetTheorems, WellFoundedInduction, TLAPS

SourceType ==
    /\ current \in Sources
    /\ active \in [Sources -> BOOLEAN]
    /\ thread \in [Sources -> {"none", "ready", "handing", "numbered", "ended"}]
    /\ next \in [Sources -> 1..NPackets]

ServerType ==
    /\ server \in {"idle", "stopping", "replacing"}
    /\ starts \in 0..MaxStarts /\ capturing \in BOOLEAN

QueueType ==
    /\ id \in [Packets -> {0} \cup Ids]
    /\ count \in 0..MaxInserts /\ dropped \in 0..MaxInserts
    /\ waiting \in Seq(Packets) /\ lost \subseteq Ids

WorkerType ==
    /\ maxID \in {0} \cup Ids
    /\ held \in [Workers -> Packets \cup {Nobody}]
    /\ sets \in [Ids -> Nat] /\ alive \in BOOLEAN

-----------------------------------------------------------------------------
(* The inductive invariants, one for the threads of the sources, one for   *)
(* the ids, one for the count of the packets.                              *)

\* Where the threads of the sources are, against the server thread, and that
\* the one that hands a packet over has room for it.
ThreadInv ==
    /\ \A s \in Sources \ {current} : thread[s] = "none" /\ ~active[s]
    /\ server = "idle" => (active[current] <=> thread[current] # "none")
    /\ server # "idle" => thread[current] # "none" /\ ~active[current]
    /\ server = "replacing" => current < MaxSources
    /\ thread[current] = "ended" => ~active[current]
    /\ thread[current] = "handing" => count + dropped < MaxInserts

SourceInv == SourceType /\ ServerType /\ ThreadInv

\* An object has its id and is not stored under it yet.
UnderWay(p) == InFlight(p) \/ \E s \in Numbered : p = Last(s)

\* Ids are given once, and those that are overwritten are gone.
IdInv ==
    /\ \A p \in Packets : id[p] <= count /\ (UnderWay(p) => id[p] \in Ids)
    /\ \A p, q \in Packets : id[p] = id[q] /\ p # q => id[p] = 0
    /\ \A i \in Ids : sets[i] > 0 => i <= count
    /\ \A i \in lost : i <= count /\ sets[i] = 0 /\ \A p \in Packets : id[p] # i

\* An id that was given is stored, overwritten or on its way.
KeptInv ==
    \A i \in 1..count : sets[i] > 0 \/ i \in lost \/ \E p \in Packets : id[p] = i /\ UnderWay(p)

\* maxID is the last id up to which all are stored.
MaxInv ==
    /\ \A k \in 1..maxID : sets[k] > 0
    /\ maxID < MaxInserts => sets[maxID + 1] = 0

QueueInv == QueueType /\ WorkerType /\ IdInv /\ KeptInv /\ MaxInv

CountInv == IsFiniteSet(Stores) /\ IsFiniteSet(Holding) /\ InsertsAreStored

ReplayInv == SourceInv /\ QueueInv

-----------------------------------------------------------------------------
(* Numbers. A set of naturals has a least element, since they are well     *)
(* founded, and one that is bounded a greatest.                            *)

LEMMA Least ==
    ASSUME NEW T, T \subseteq Nat, T # {}
    PROVE  \E x \in T : \A y \in T : x <= y
<1> DEFINE R == OpToRel(<, Nat)
<1>1. \E x \in T : \A y \in T : ~ (<<y, x>> \in R)
    BY NatLessThanWellFounded, WFMin
<1>2. \A x, y \in Nat : y < x => <<y, x>> \in R
    BY DEF OpToRel
<1> HIDE DEF R
<1>3. PICK x \in T : \A y \in T : ~ (<<y, x>> \in R)
    BY <1>1
<1>4. \A y \in T : x <= y
  <2> SUFFICES ASSUME NEW y \in T, ~(x <= y) PROVE FALSE
      OBVIOUS
  <2>1. x \in Nat /\ y \in Nat
      OBVIOUS
  <2>2. y < x
      BY <2>1
  <2>3. <<y, x>> \in R
      BY <1>2, <2>1, <2>2
  <2> QED  BY <1>3, <2>3
<1> QED  BY <1>4

LEMMA Greatest ==
    ASSUME NEW m \in Nat, NEW T, T \subseteq 0..m, T # {}
    PROVE  Max(T) \in T /\ \A y \in T : Max(T) >= y
<1> DEFINE U == {m - t : t \in T}
<1>1. U \subseteq Nat /\ U # {}
  <2>1. \A t \in T : m - t \in Nat
      OBVIOUS
  <2>2. PICK t \in T : TRUE
      OBVIOUS
  <2>3. m - t \in U
      BY <2>2
  <2> QED  BY <2>1, <2>3
<1>2. PICK u \in U : \A v \in U : u <= v
  <2> HIDE DEF U
  <2>1. \E u \in U : \A v \in U : u <= v
      BY <1>1, Least
  <2> QED  BY <2>1
<1>3. PICK x \in T : u = m - x
    OBVIOUS
<1>4. \A y \in T : x >= y
  <2> TAKE y \in T
  <2>1. m - y \in U
      OBVIOUS
  <2>2. m - x <= m - y
      BY <1>2, <1>3, <2>1
  <2>3. x \in Int /\ y \in Int
      OBVIOUS
  <2> QED  BY <2>2, <2>3
<1> QED  BY <1>4 DEF Max

\* The next packet but one step back.
LEMMA AfterIs ==
    ASSUME NEW k \in 1..NPackets
    PROVE  /\ After(k) \in 1..NPackets
           /\ ((After(k) + NPackets - 2) % NPackets) + 1 = k
<1>1. NPackets \in Nat /\ NPackets > 0
    BY ReplayAssumption
<1>2. CASE k < NPackets
  <2>1. k % NPackets = k
      BY <1>1, <1>2
  <2>2. After(k) = k + 1
      BY <2>1 DEF After
  <2>3. ((k - 1) + NPackets) % NPackets = k - 1
      BY <1>1
  <2>4. After(k) + NPackets - 2 = (k - 1) + NPackets
      BY <1>1, <2>2
  <2> QED  BY <1>1, <1>2, <2>2, <2>3, <2>4
<1>3. CASE k = NPackets
  <2>1. After(k) = 1
      BY <1>1, <1>3 DEF After
  <2>2. (NPackets - 1) % NPackets = NPackets - 1
      BY <1>1
  <2>3. After(k) + NPackets - 2 = NPackets - 1
      BY <1>1, <2>1
  <2> QED  BY <1>1, <1>3, <2>1, <2>2, <2>3
<1> QED  BY <1>1, <1>2, <1>3

LEMMA LastIs ==
    ASSUME SourceType, NEW s \in Sources
    PROVE  Last(s) \in Packets
<1>1. NPackets \in Nat /\ NPackets > 0 /\ next[s] \in Int
    BY ReplayAssumption DEF SourceType
<1>2. (next[s] + NPackets - 2) % NPackets \in 0..(NPackets - 1)
    BY <1>1
<1>3. ((next[s] + NPackets - 2) % NPackets) + 1 \in 1..NPackets
    BY <1>1, <1>2
<1> QED  BY <1>3 DEF Last, Packets

\* What is in a sequence.
LEMMA RangeAppend ==
    ASSUME NEW S, NEW s \in Seq(S), NEW e \in S
    PROVE  Append(s, e) \in Seq(S) /\ Range(Append(s, e)) = Range(s) \cup {e}
<1>1. Range(Append(s, e)) \subseteq Range(s) \cup {e}
    BY DEF Range
<1>2. Range(s) \cup {e} \subseteq Range(Append(s, e))
  <2>1. ASSUME NEW i \in 1..Len(s) PROVE s[i] \in Range(Append(s, e))
    <3>1. i \in DOMAIN Append(s, e) /\ Append(s, e)[i] = s[i]
        OBVIOUS
    <3> QED  BY <3>1 DEF Range
  <2>2. e \in Range(Append(s, e))
    <3>1. Len(s) + 1 \in DOMAIN Append(s, e) /\ Append(s, e)[Len(s) + 1] = e
        OBVIOUS
    <3> QED  BY <3>1 DEF Range
  <2> QED  BY <2>1, <2>2 DEF Range
<1> QED  BY <1>1, <1>2

LEMMA RangeTail ==
    ASSUME NEW S, NEW s \in Seq(S), s # <<>>
    PROVE  /\ Tail(s) \in Seq(S) /\ Head(s) \in S /\ Len(Tail(s)) = Len(s) - 1
           /\ Range(s) = Range(Tail(s)) \cup {Head(s)}
<1>1. Tail(s) \in Seq(S) /\ Head(s) \in S /\ Len(Tail(s)) = Len(s) - 1 /\ Head(s) = s[1] /\ 1 \in DOMAIN s
    OBVIOUS
<1>2. Range(s) \subseteq Range(Tail(s)) \cup {Head(s)}
  <2> SUFFICES ASSUME NEW i \in 1..Len(s), i # 1 PROVE s[i] \in Range(Tail(s))
      BY <1>1 DEF Range
  <2>1. i - 1 \in DOMAIN Tail(s) /\ Tail(s)[i - 1] = s[i]
      OBVIOUS
  <2> QED  BY <2>1 DEF Range
<1>3. Range(Tail(s)) \subseteq Range(s)
  <2> SUFFICES ASSUME NEW i \in 1..Len(Tail(s)) PROVE Tail(s)[i] \in Range(s)
      BY <1>1 DEF Range
  <2>1. i + 1 \in DOMAIN s /\ Tail(s)[i] = s[i + 1]
      OBVIOUS
  <2> QED  BY <2>1 DEF Range
<1>4. Head(s) \in Range(s)
    BY <1>1 DEF Range
<1> QED  BY <1>1, <1>2, <1>3, <1>4

-----------------------------------------------------------------------------
(* The threads of the sources.                                             *)

LEMMA Bounds ==
    /\ NPackets \in Nat /\ QueueLimit \in Nat /\ MaxSources \in Nat
    /\ MaxStarts \in Nat /\ MaxInserts \in Nat /\ 1 \in 1..NPackets
    /\ Nobody \notin Packets
<1>1. Nobody \notin Packets
    BY ReplayAssumption DEF Nobody, Packets, Sources
<1> QED  BY <1>1, ReplayAssumption

LEMMA InitSourceInv ==
    ASSUME Init PROVE SourceInv
<1>1. SourceType
    BY Bounds DEF Init, SourceType, Sources
<1>2. ServerType
  <2>1. server = "idle" /\ starts = 0 /\ capturing \in BOOLEAN
      BY DEF Init
  <2> QED  BY <2>1, Bounds DEF ServerType
<1>3. ThreadInv
    BY Bounds DEF Init, ThreadInv, Sources
<1> QED  BY <1>1, <1>2, <1>3 DEF SourceInv

\* The requests of the client.
LEMMA ServerSourceInv ==
    ASSUME SourceInv, Start \/ Stop \/ SetTestdata \/ Join
    PROVE  SourceInv'
<1>t. SourceType /\ ServerType /\ ThreadInv
    BY DEF SourceInv
<1>c. current \in Sources /\ MaxSources \in Nat /\ UNCHANGED <<count, dropped>>
    BY Bounds DEF SourceInv, SourceType, Start, Stop, SetTestdata, Join, queueVars
<1>1. CASE Start
  <2>1. /\ server = "idle" /\ starts' = starts + 1 /\ starts < MaxStarts
        /\ capturing' = ~active[current]
        /\ active' = [active EXCEPT ![current] = TRUE]
        /\ thread' = IF active[current] THEN thread ELSE [thread EXCEPT ![current] = "ready"]
        /\ next' = IF active[current] THEN next ELSE [next EXCEPT ![current] = 1]
        /\ UNCHANGED <<current, server>>
      BY <1>1 DEF Start, Idle
  <2>2. SourceType'
    <3>1. CASE active[current]
        BY <1>t, <1>c, <2>1, <3>1 DEF SourceType
    <3>2. CASE ~active[current]
        BY <1>t, <1>c, <2>1, <3>2, Bounds DEF SourceType
    <3> QED  BY <3>1, <3>2
  <2>3. ServerType'
      BY <1>t, <1>c, <2>1, Bounds DEF ServerType, SourceType
  <2>4. ThreadInv'
    <3>1. CASE active[current]
        BY <1>t, <1>c, <2>1, <3>1 DEF SourceType, ThreadInv
    <3>2. CASE ~active[current]
        BY <1>t, <1>c, <2>1, <3>2 DEF SourceType, ThreadInv
    <3> QED  BY <3>1, <3>2
  <2> QED  BY <2>2, <2>3, <2>4 DEF SourceInv
<1>2. CASE Stop
  <2>1. /\ server = "idle" /\ UNCHANGED <<current, thread, next, starts>>
        /\ \/ active[current] /\ server' = "stopping" /\ UNCHANGED capturing
           \/ ~active[current] /\ capturing' = FALSE /\ UNCHANGED server
        /\ active' = [active EXCEPT ![current] = FALSE]
      BY <1>2 DEF Stop, Idle
  <2>2. SourceType' /\ ServerType'
      BY <1>t, <1>c, <2>1 DEF SourceType, ServerType
  <2>3. ThreadInv'
      BY <1>t, <1>c, <2>1 DEF SourceType, ThreadInv
  <2> QED  BY <2>2, <2>3 DEF SourceInv
<1>3. CASE SetTestdata
  <2>1. /\ server = "idle" /\ UNCHANGED <<thread, next, starts, capturing>> /\ current < MaxSources
        /\ \/ active[current] /\ server' = "replacing" /\ UNCHANGED current
           \/ ~active[current] /\ current' = current + 1 /\ UNCHANGED server
        /\ active' = [active EXCEPT ![current] = FALSE]
      BY <1>3 DEF SetTestdata, Idle
  <2>2. current' \in Sources
      BY <1>c, <2>1 DEF Sources
  <2>3. SourceType' /\ ServerType'
      BY <1>t, <1>c, <2>1, <2>2 DEF SourceType, ServerType
  <2>4. ThreadInv'
    <3>1. CASE active[current]
        BY <1>t, <1>c, <2>1, <3>1 DEF SourceType, ThreadInv
    <3>2. CASE ~active[current]
      <4>1. current' \in Sources \ {current}
          BY <1>c, <2>1, <2>2, <3>2 DEF Sources
      <4>2. \A s \in Sources : thread[s] = "none" /\ ~active'[s]
          BY <1>t, <2>1, <3>2 DEF SourceType, ThreadInv
      <4> QED  BY <1>t, <1>c, <2>1, <2>2, <3>2, <4>1, <4>2 DEF ThreadInv
    <3> QED  BY <3>1, <3>2
  <2> QED  BY <2>3, <2>4 DEF SourceInv
<1>4. CASE Join
  <2>1. /\ server # "idle" /\ thread[current] = "ended" /\ server' = "idle"
        /\ thread' = [thread EXCEPT ![current] = "none"]
        /\ current' = IF server = "replacing" THEN current + 1 ELSE current
        /\ capturing' = (server = "replacing" /\ capturing)
        /\ UNCHANGED <<active, next, starts>>
      BY <1>4 DEF Join
  <2>2. current' \in Sources
      BY <1>t, <1>c, <2>1 DEF ThreadInv, Sources
  <2>3. SourceType'
      BY <1>t, <1>c, <2>1, <2>2 DEF SourceType
  <2>4. ServerType'
    <3>1. capturing' \in BOOLEAN
        BY <2>1
    <3> QED  BY <1>t, <2>1, <3>1 DEF ServerType
  <2>5. \A s \in Sources : thread'[s] = "none" /\ ~active'[s]
      BY <1>t, <1>c, <2>1 DEF SourceType, ThreadInv
  <2>6. ThreadInv'
      BY <2>1, <2>2, <2>5 DEF ThreadInv
  <2> QED  BY <2>3, <2>4, <2>6 DEF SourceInv
<1> QED  BY <1>1, <1>2, <1>3, <1>4

\* A source whose thread is somewhere is the one in use.
LEMMA OnlyOne ==
    ASSUME SourceInv, NEW s \in Sources, thread[s] # "none"
    PROVE  s = current
    BY DEF SourceInv, ThreadInv

LEMMA ThreadSourceInv ==
    ASSUME SourceInv, QueueType, NEW s \in Sources, Thread(s)
    PROVE  SourceInv'
<1>t. SourceType /\ ServerType /\ ThreadInv
    BY DEF SourceInv
<1>c. /\ count \in Nat /\ dropped \in Nat /\ MaxInserts \in Nat
      /\ UNCHANGED <<current, active, serverVars>>
    BY Bounds DEF QueueType, Thread, Hand, Number, Push
<1>o. s = current
    BY OnlyOne DEF Thread, Hand, Number, Push, Moves
<1>1. CASE Hand(s)
  <2>1. /\ UNCHANGED <<next, count, dropped>> /\ thread[s] = "ready"
        /\ \/ ~active[s] /\ thread' = [thread EXCEPT ![s] = "ended"]
           \/ count + dropped < MaxInserts /\ thread' = [thread EXCEPT ![s] = "handing"]
      BY <1>1 DEF Hand, Moves, queueVars
  <2>2. SourceType' /\ ServerType'
      BY <1>t, <1>c, <2>1 DEF SourceType, ServerType, serverVars
  <2>3. ThreadInv'
      BY <1>t, <1>c, <1>o, <2>1 DEF SourceType, ThreadInv, serverVars
  <2> QED  BY <2>2, <2>3 DEF SourceInv
<1>2. CASE Number(s)
  <2>1. /\ next' = [next EXCEPT ![s] = After(next[s])] /\ thread[s] = "handing"
        /\ \/ thread' = [thread EXCEPT ![s] = "ready"]
           \/ thread' = [thread EXCEPT ![s] = "numbered"]
      BY <1>2 DEF Number, Moves
  <2>2. After(next[s]) \in 1..NPackets
      BY <1>t, AfterIs DEF SourceType
  <2>3. SourceType' /\ ServerType'
      BY <1>t, <1>c, <2>1, <2>2 DEF SourceType, ServerType, serverVars
  <2>4. ThreadInv'
      BY <1>t, <1>c, <1>o, <2>1 DEF SourceType, ThreadInv, serverVars
  <2> QED  BY <2>3, <2>4 DEF SourceInv
<1>3. CASE Push(s)
  <2>1. /\ UNCHANGED <<next, count, dropped>> /\ thread[s] = "numbered"
        /\ thread' = [thread EXCEPT ![s] = "ready"]
      BY <1>3 DEF Push, Moves
  <2>2. SourceType' /\ ServerType'
      BY <1>t, <1>c, <2>1 DEF SourceType, ServerType, serverVars
  <2>3. ThreadInv'
      BY <1>t, <1>c, <1>o, <2>1 DEF SourceType, ThreadInv, serverVars
  <2> QED  BY <2>2, <2>3 DEF SourceInv
<1> QED  BY <1>1, <1>2, <1>3 DEF Thread

LEMMA WorkerSourceInv ==
    ASSUME SourceInv, UNCHANGED <<sourceVars, serverVars, count, dropped>>
    PROVE  SourceInv'
    BY DEF SourceInv, SourceType, ServerType, ThreadInv, sourceVars, serverVars

-----------------------------------------------------------------------------
(* The ids.                                                                *)

LEMMA InitQueueInv ==
    ASSUME Init PROVE QueueInv
<1>1. QueueType
    BY Bounds DEF Init, QueueType
<1>2. WorkerType
  <2>1. alive \in BOOLEAN
      BY DEF Init
  <2> QED  BY <2>1, Bounds DEF Init, WorkerType
<1>3. \A p \in Packets : ~UnderWay(p)
  <2>1. Numbered = {}
      BY DEF Init, Numbered
  <2>2. Range(waiting) = {}
      BY DEF Init, Range
  <2>3. \A p \in Packets, w \in Workers : held[w] # p
      BY Bounds DEF Init
  <2> QED  BY <2>1, <2>2, <2>3 DEF UnderWay, InFlight
<1>4. IdInv
    BY <1>3, Bounds DEF Init, IdInv
<1>5. KeptInv
    BY DEF Init, KeptInv
<1>6. MaxInv
  <2>1. maxID = 0 /\ MaxInserts \in Nat /\ \A i \in Ids : sets[i] = 0
      BY Bounds DEF Init
  <2> QED  BY <2>1 DEF MaxInv, Ids
<1> QED  BY <1>1, <1>2, <1>4, <1>5, <1>6 DEF QueueInv

\* A step that moves packets along, with no id given or stored.
LEMMA SameQueueInv ==
    ASSUME QueueInv, QueueType', WorkerType',
           UNCHANGED <<id, count, lost, sets, maxID>>,
           \A p \in Packets : UnderWay(p)' <=> UnderWay(p)
    PROVE  QueueInv'
<1>1. IdInv'
    BY DEF QueueInv, IdInv
<1>2. KeptInv'
  <2> SUFFICES ASSUME NEW i \in 1..count, sets[i] = 0 \/ ~(sets[i] > 0), i \notin lost
               PROVE  \E p \in Packets : id[p] = i /\ UnderWay(p)'
      BY DEF KeptInv
  <2>1. PICK p \in Packets : id[p] = i /\ UnderWay(p)
      BY DEF QueueInv, KeptInv, WorkerType
  <2> QED  BY <2>1
<1>3. MaxInv'
    BY DEF QueueInv, MaxInv
<1> QED  BY <1>1, <1>2, <1>3 DEF QueueInv

\* What is under way depends on the queue, what the workers hold and which
\* source has numbered a packet.
LEMMA SameUnderWay ==
    ASSUME UNCHANGED <<waiting, held, Numbered>>, \A s \in Numbered : next'[s] = next[s]
    PROVE  \A p \in Packets : UnderWay(p)' <=> UnderWay(p)
<1> TAKE p \in Packets
<1>1. InFlight(p)' <=> InFlight(p)
    BY DEF InFlight
<1>2. \A s \in Numbered : Last(s)' = Last(s)
    BY DEF Last
<1>3. (\E s \in Numbered' : p = Last(s)') <=> (\E s \in Numbered : p = Last(s))
    BY <1>2
<1> QED  BY <1>1, <1>3 DEF UnderWay

\* None of the requests numbers a packet, or moves a source that has.
LEMMA ServerNumbered ==
    ASSUME SourceInv, Start \/ Stop \/ SetTestdata \/ Join
    PROVE  Numbered' = Numbered /\ \A s \in Numbered : next'[s] = next[s]
<1>t. SourceType /\ ThreadInv
    BY DEF SourceInv
<1>1. CASE Start
  <2>1. CASE active[current]
      BY <1>1, <2>1 DEF Start, Numbered
  <2>2. CASE ~active[current]
    <3>1. thread[current] = "none" /\ current \in Sources
        BY <1>t, <1>1, <2>2 DEF Start, Idle, ThreadInv, SourceType
    <3>2. thread' = [thread EXCEPT ![current] = "ready"] /\ next' = [next EXCEPT ![current] = 1]
        BY <1>1, <2>2 DEF Start
    <3> QED  BY <1>t, <3>1, <3>2 DEF Numbered, SourceType
  <2> QED  BY <2>1, <2>2
<1>2. CASE Stop
    BY <1>2 DEF Stop, Numbered
<1>3. CASE SetTestdata
    BY <1>3 DEF SetTestdata, Numbered
<1>4. CASE Join
  <2>1. /\ thread[current] = "ended" /\ current \in Sources
        /\ thread' = [thread EXCEPT ![current] = "none"] /\ next' = next
      BY <1>t, <1>4 DEF Join, SourceType
  <2> QED  BY <1>t, <2>1 DEF Numbered, SourceType
<1> QED  BY <1>1, <1>2, <1>3, <1>4

LEMMA ServerQueueInv ==
    ASSUME SourceInv, QueueInv, Start \/ Stop \/ SetTestdata \/ Join
    PROVE  QueueInv'
<1>t. SourceType /\ ThreadInv /\ QueueType /\ WorkerType
    BY DEF SourceInv, QueueInv
<1>u. UNCHANGED <<id, count, dropped, waiting, lost, maxID, held, sets, alive>>
    BY DEF Start, Stop, SetTestdata, Join, queueVars, workerVars
<1>1. Numbered' = Numbered /\ \A s \in Numbered : next'[s] = next[s]
    BY ServerNumbered
<1>2. \A p \in Packets : UnderWay(p)' <=> UnderWay(p)
    BY <1>u, <1>1, SameUnderWay
<1>3. QueueType' /\ WorkerType'
    BY <1>t, <1>u DEF QueueType, WorkerType
<1> QED  BY <1>u, <1>2, <1>3, SameQueueInv

\* The next packet is taken, or there is none.
LEMMA HandNumbered ==
    ASSUME SourceType, NEW s \in Sources, Hand(s)
    PROVE  Numbered' = Numbered
<1>1. /\ thread[s] = "ready"
      /\ \/ thread' = [thread EXCEPT ![s] = "ended"]
         \/ thread' = [thread EXCEPT ![s] = "handing"]
    BY DEF Hand, Moves
<1> QED  BY <1>1 DEF Numbered, SourceType

LEMMA HandQueueInv ==
    ASSUME SourceInv, QueueInv, NEW s \in Sources, Hand(s)
    PROVE  QueueInv'
<1>t. SourceType /\ QueueType /\ WorkerType
    BY DEF SourceInv, QueueInv
<1>u. UNCHANGED <<next, id, count, dropped, waiting, lost, maxID, held, sets, alive>>
    BY DEF Hand, queueVars, workerVars
<1>1. Numbered' = Numbered
    BY <1>t, HandNumbered
<1>2. \A p \in Packets : UnderWay(p)' <=> UnderWay(p)
    BY <1>u, <1>1, SameUnderWay
<1>3. QueueType' /\ WorkerType'
    BY <1>t, <1>u DEF QueueType, WorkerType
<1> QED  BY <1>u, <1>2, <1>3, SameQueueInv

\* Only the source in use can have numbered a packet.
LEMMA NoneNumbered ==
    ASSUME SourceInv, thread[current] # "numbered"
    PROVE  Numbered = {}
    BY OnlyOne DEF Numbered

\* A packet gets its id: the one it had before is stored or lost.
LEMMA NumberQueueInv ==
    ASSUME SourceInv, QueueInv, NEW s \in Sources, Number(s)
    PROVE  QueueInv'
<1> DEFINE p == <<s, next[s]>>
<1>t. SourceType /\ ThreadInv /\ QueueType /\ WorkerType /\ IdInv /\ KeptInv /\ MaxInv
    BY DEF SourceInv, QueueInv
<1>o. s = current /\ thread[s] = "handing"
    BY OnlyOne DEF Number, Moves
<1>n. Numbered = {}
    BY <1>o, NoneNumbered
<1>c. count \in Nat /\ dropped \in Nat /\ MaxInserts \in Nat /\ count + dropped < MaxInserts
    BY <1>t, <1>o, Bounds DEF QueueType, ThreadInv
<1>u. UNCHANGED <<waiting, maxID, held, sets, alive>>
    BY DEF Number, workerVars
<1>w. WorkerType' /\ MaxInv'
    BY <1>t, <1>u DEF WorkerType, MaxInv
<1>1. CASE /\ dropped' = dropped + 1 /\ Moves(s, "handing", "ready")
           /\ UNCHANGED <<id, count, lost>>
  <2>1. Numbered' = Numbered
      BY <1>t, <1>1 DEF Moves, Numbered, SourceType
  <2>2. \A q \in Packets : UnderWay(q)' <=> UnderWay(q)
      BY <1>u, <1>n, <2>1, SameUnderWay
  <2>3. QueueType'
      BY <1>t, <1>u, <1>1, <1>c DEF QueueType
  <2> QED  BY <1>u, <1>w, <1>1, <2>2, <2>3, SameQueueInv
<1>2. CASE /\ count' = count + 1 /\ id' = [id EXCEPT ![p] = count + 1]
           /\ lost' = IF InFlight(p) /\ sets[id[p]] = 0 THEN lost \cup {id[p]} ELSE lost
           /\ Moves(s, "handing", "numbered") /\ UNCHANGED dropped
  <2>p. p \in Packets
      BY <1>t DEF Packets, SourceType
  <2>1. Last(s)' = p
    <3>1. next'[s] = After(next[s])
        BY <1>t DEF Number, SourceType
    <3>2. ((After(next[s]) + NPackets - 2) % NPackets) + 1 = next[s]
        BY <1>t, AfterIs DEF SourceType
    <3>3. Last(s)' = <<s, ((next'[s] + NPackets - 2) % NPackets) + 1>>
        BY DEF Last
    <3> QED  BY <3>1, <3>2, <3>3
  <2>2. Numbered' = {s}
      BY <1>t, <1>n, <1>2 DEF Moves, Numbered, SourceType
  <2> HIDE DEF p
  <2>3. \A q \in Packets : InFlight(q)' <=> InFlight(q)
      BY <1>u DEF InFlight
  <2>4. \A q \in Packets : UnderWay(q) <=> InFlight(q)
      BY <1>n DEF UnderWay
  <2>5. \A q \in Packets : UnderWay(q)' <=> InFlight(q) \/ q = p
    <3>1. \A q \in Packets : UnderWay(q)' <=> InFlight(q)' \/ \E r \in Numbered' : q = Last(r)'
        BY DEF UnderWay
    <3> QED  BY <2>1, <2>2, <2>3, <3>1
  <2>6. \A q \in Packets : id'[q] = IF q = p THEN count + 1 ELSE id[q]
      BY <1>t, <1>2 DEF QueueType
  <2>7. \A q \in Packets : id[q] \in Nat /\ id[q] <= count /\ (InFlight(q) => id[q] \in Ids)
      BY <1>t, <2>4, Bounds DEF IdInv, QueueType, Ids
  <2>8. count + 1 \in Ids
      BY <1>c DEF Ids
  <2>9. QueueType'
    <3>1. id' \in [Packets -> {0} \cup Ids]
        BY <1>t, <1>2, <2>8 DEF QueueType
    <3>2. lost' \subseteq Ids
        BY <1>t, <1>2, <2>p, <2>7 DEF QueueType
    <3>3. count' \in 0..MaxInserts /\ dropped' \in 0..MaxInserts /\ waiting' \in Seq(Packets)
        BY <1>t, <1>u, <1>c, <1>2 DEF QueueType
    <3> QED  BY <3>1, <3>2, <3>3 DEF QueueType
  <2>10. IdInv'
    <3>1. \A q \in Packets : id'[q] <= count' /\ (UnderWay(q)' => id'[q] \in Ids)
        BY <1>c, <1>2, <2>5, <2>6, <2>7, <2>8
    <3>2. \A q, r \in Packets : id'[q] = id'[r] /\ q # r => id'[q] = 0
        BY <1>t, <1>c, <2>6, <2>7 DEF IdInv
    <3>3. \A i \in Ids : sets'[i] > 0 => i <= count'
      <4>1. \A i \in Ids : sets[i] > 0 => i <= count
          BY <1>t DEF IdInv
      <4> QED  BY <1>c, <1>u, <1>2, <4>1 DEF Ids
    <3>4. ASSUME NEW i \in lost'
          PROVE  i <= count' /\ sets'[i] = 0 /\ \A q \in Packets : id'[q] # i
      <4>1. CASE i \in lost
        <5>1. i <= count /\ sets[i] = 0 /\ \A q \in Packets : id[q] # i
            BY <1>t, <4>1 DEF IdInv
        <5>2. i \in Int
            BY <1>t, <4>1 DEF QueueType, Ids
        <5> QED  BY <1>c, <1>u, <1>2, <2>6, <5>1, <5>2
      <4>2. CASE i = id[p] /\ InFlight(p) /\ sets[id[p]] = 0
        <5>1. i \in Ids /\ i <= count /\ i \in Nat /\ i # 0
            BY <2>p, <2>7, <4>2 DEF Ids
        <5>2. \A q \in Packets : q # p => id[q] # i
            BY <1>t, <2>p, <4>2, <5>1 DEF IdInv
        <5> QED  BY <1>c, <1>u, <1>2, <2>6, <4>2, <5>1, <5>2
      <4> QED  BY <1>2, <4>1, <4>2
    <3> QED  BY <3>1, <3>2, <3>3, <3>4 DEF IdInv
  <2>11. KeptInv'
    <3> SUFFICES ASSUME NEW i \in 1..(count + 1), ~(sets[i] > 0), i \notin lost'
                 PROVE  \E q \in Packets : id'[q] = i /\ UnderWay(q)'
        BY <1>2, <1>u DEF KeptInv
    <3>1. CASE i = count + 1
        BY <2>p, <2>5, <2>6, <3>1
    <3>2. CASE i # count + 1
      <4>1. i \in 1..count /\ i \in Ids
          BY <1>c, <3>2 DEF Ids
      <4>2. i \notin lost
          BY <1>2
      <4>3. PICK q \in Packets : id[q] = i /\ UnderWay(q)
          BY <1>t, <4>1, <4>2 DEF KeptInv
      <4>4. q # p
        <5> SUFFICES ASSUME q = p PROVE FALSE
            OBVIOUS
        <5>1. sets[i] = 0
            BY <1>t, <4>1 DEF WorkerType
        <5>2. i \in lost'
            BY <1>2, <2>4, <4>3, <5>1
        <5> QED  BY <5>2
      <4> QED  BY <2>4, <2>5, <2>6, <4>3, <4>4
    <3> QED  BY <3>1, <3>2
  <2> QED  BY <1>w, <2>9, <2>10, <2>11 DEF QueueInv
<1> QED  BY <1>1, <1>2 DEF Number

\* The packet that was numbered is waiting now.
LEMMA PushQueueInv ==
    ASSUME SourceInv, QueueInv, NEW s \in Sources, Push(s)
    PROVE  QueueInv'
<1>t. SourceType /\ QueueType /\ WorkerType
    BY DEF SourceInv, QueueInv
<1>u. /\ UNCHANGED <<next, id, count, dropped, lost, maxID, held, sets, alive>>
      /\ thread[s] = "numbered" /\ thread' = [thread EXCEPT ![s] = "ready"]
      /\ waiting' = Append(waiting, Last(s))
    BY DEF Push, Moves, workerVars
<1>1. Numbered = {s} /\ Numbered' = {}
  <2>1. \A r \in Sources : thread[r] # "none" => r = s
      BY <1>u, OnlyOne
  <2> QED  BY <1>t, <1>u, <2>1 DEF Numbered, SourceType
<1>2. waiting' \in Seq(Packets) /\ Range(waiting') = Range(waiting) \cup {Last(s)}
    BY <1>t, <1>u, LastIs, RangeAppend DEF QueueType
<1>3. \A p \in Packets : UnderWay(p)' <=> UnderWay(p)
    BY <1>u, <1>1, <1>2 DEF UnderWay, InFlight
<1>4. QueueType' /\ WorkerType'
    BY <1>t, <1>u, <1>2 DEF QueueType, WorkerType
<1> QED  BY <1>u, <1>3, <1>4, SameQueueInv

\* A worker takes the packet at the head of the queue.
LEMMA TakeQueueInv ==
    ASSUME QueueInv, NEW w \in Workers, Take(w)
    PROVE  QueueInv'
<1>t. QueueType /\ WorkerType
    BY DEF QueueInv
<1>u. /\ UNCHANGED <<thread, next, id, count, dropped, lost, maxID, sets>>
      /\ waiting # <<>> /\ waiting' = Tail(waiting) /\ alive' \in BOOLEAN
      /\ held[w] = Nobody /\ held' = [held EXCEPT ![w] = Head(waiting)]
    BY DEF Take, sourceVars
<1>2. /\ waiting' \in Seq(Packets) /\ Head(waiting) \in Packets
      /\ Range(waiting) = Range(waiting') \cup {Head(waiting)}
    BY <1>t, <1>u, RangeTail DEF QueueType
<1>3. \A p \in Packets : InFlight(p)' <=> InFlight(p)
  <2>1. \A v \in Workers : held'[v] = IF v = w THEN Head(waiting) ELSE held[v]
      BY <1>t, <1>u DEF WorkerType
  <2> QED  BY <1>u, <1>2, <2>1, Bounds DEF InFlight
<1>4. \A p \in Packets : UnderWay(p)' <=> UnderWay(p)
  <2>1. Numbered' = Numbered /\ \A s \in Numbered : Last(s)' = Last(s)
      BY <1>u DEF Numbered, Last
  <2> QED  BY <1>3, <2>1 DEF UnderWay
<1>5. QueueType'
    BY <1>t, <1>u, <1>2 DEF QueueType
<1>6. WorkerType'
    BY <1>t, <1>u, <1>2 DEF WorkerType
<1> QED  BY <1>u, <1>4, <1>5, <1>6, SameQueueInv

\* How far maxID goes once id i is stored, too.
LEMMA AdvancedIs ==
    ASSUME WorkerType, NEW i \in Ids
    PROVE  /\ Advanced(i) \in {0} \cup Ids
           /\ \A k \in 1..Advanced(i) : Stored(k) \/ k = i
           /\ Advanced(i) < MaxInserts => LET k == Advanced(i) + 1 IN ~Stored(k) /\ k # i
<1> DEFINE Has(j) == Stored(j) \/ j = i
           T == {j \in {0} \cup Ids : \A k \in 1..j : Has(k)}
<1>1. Advanced(i) = Max(T)
    BY DEF Advanced
<1>2. MaxInserts \in Nat /\ {0} \cup Ids = 0..MaxInserts
    BY Bounds DEF Ids
<1>3. 0 \in T /\ T \subseteq 0..MaxInserts
    BY <1>2
<1>4. Max(T) \in T /\ \A y \in T : Max(T) >= y
  <2> HIDE DEF T
  <2> QED  BY <1>2, <1>3, Greatest
<1>5. ASSUME Max(T) < MaxInserts
      PROVE  ~Has(Max(T) + 1)
  <2> DEFINE m == Max(T)
  <2>1. m \in 0..MaxInserts /\ \A k \in 1..m : Has(k)
      BY <1>2, <1>4
  <2>2. m + 1 \notin T
    <3> HIDE DEF T
    <3> QED  BY <1>4, <2>1
  <2> HIDE DEF m
  <2>3. m + 1 \in 0..MaxInserts
      BY <1>2, <1>5, <2>1 DEF m
  <2>4. PICK k \in 1..(m + 1) : ~Has(k)
      BY <1>2, <2>2, <2>3
  <2>5. k = m + 1
    <3> HIDE DEF Has
    <3> QED  BY <1>2, <2>1, <2>4
  <2> QED  BY <2>4, <2>5 DEF m
<1> QED  BY <1>1, <1>4, <1>5

\* A worker stores its packet under the id that it has by now.
LEMMA StoreQueueInv ==
    ASSUME QueueInv, NEW w \in Workers, Store(w)
    PROVE  /\ QueueInv'
           /\ id[held[w]] \in Ids
<1> DEFINE p == held[w]
           i == id[p]
<1>t. QueueType /\ WorkerType /\ IdInv /\ KeptInv /\ MaxInv
    BY DEF QueueInv
<1>u. /\ UNCHANGED <<thread, next, id, count, dropped, waiting, lost, alive>>
      /\ held[w] # Nobody /\ held' = [held EXCEPT ![w] = Nobody]
      /\ sets' = [sets EXCEPT ![i] = @ + 1] /\ maxID' = Advanced(i)
    BY DEF Store, sourceVars, queueVars
<1>1. p \in Packets /\ UnderWay(p)
    BY <1>t, <1>u DEF WorkerType, UnderWay, InFlight
<1>2. i \in Ids
    BY <1>t, <1>1 DEF IdInv
<1> HIDE DEF p, i
<1>3. /\ \A k \in Ids : sets'[k] = IF k = i THEN sets[k] + 1 ELSE sets[k]
      /\ \A k \in Ids : sets[k] \in Nat
      /\ \A k \in Ids : sets'[k] > 0 <=> Stored(k) \/ k = i
  <2>1. /\ \A k \in Ids : sets'[k] = IF k = i THEN sets[k] + 1 ELSE sets[k]
        /\ \A k \in Ids : sets[k] \in Nat
      BY <1>t, <1>u DEF WorkerType
  <2> QED  BY <2>1 DEF Stored
<1>4. \A q \in Packets : q # p => (UnderWay(q)' <=> UnderWay(q))
  <2>1. \A q \in Packets, v \in Workers : q # p => (held'[v] = q <=> held[v] = q)
      BY <1>t, <1>u, Bounds DEF WorkerType, p
  <2>2. Numbered' = Numbered /\ \A s \in Numbered : Last(s)' = Last(s)
      BY <1>u DEF Numbered, Last
  <2> QED  BY <1>u, <2>1, <2>2 DEF UnderWay, InFlight
<1>5. QueueType'
    BY <1>t, <1>u DEF QueueType
<1>6. WorkerType'
  <2>1. held' \in [Workers -> Packets \cup {Nobody}] /\ sets' \in [Ids -> Nat]
      BY <1>t, <1>u, <1>2 DEF WorkerType
  <2>2. maxID' \in {0} \cup Ids
      BY <1>t, <1>u, <1>2, AdvancedIs
  <2> QED  BY <1>t, <1>u, <2>1, <2>2 DEF WorkerType
<1>7. IdInv'
  <2>1. \A q \in Packets : id[q] <= count /\ (UnderWay(q)' => id[q] \in Ids)
      BY <1>t, <1>1, <1>4 DEF IdInv
  <2>2. \A k \in Ids : sets'[k] > 0 => k <= count
      BY <1>t, <1>1, <1>3 DEF IdInv, Stored, i
  <2>3. \A k \in lost : k <= count /\ sets'[k] = 0 /\ \A q \in Packets : id[q] # k
      BY <1>t, <1>1, <1>3 DEF IdInv, QueueType, i
  <2> QED  BY <1>t, <1>u, <2>1, <2>2, <2>3 DEF IdInv
<1>8. KeptInv'
  <2> SUFFICES ASSUME NEW k \in 1..count, ~(sets'[k] > 0), k \notin lost
               PROVE  \E q \in Packets : id[q] = k /\ UnderWay(q)'
      BY <1>u DEF KeptInv
  <2>1. k \in Ids
      BY <1>t, Bounds DEF QueueType, Ids
  <2>2. k # i /\ ~(sets[k] > 0)
      BY <1>3, <2>1 DEF Stored
  <2>3. PICK q \in Packets : id[q] = k /\ UnderWay(q)
      BY <1>t, <2>2 DEF KeptInv
  <2> QED  BY <1>4, <2>2, <2>3 DEF i
<1>9. MaxInv'
  <2>1. /\ maxID' \in {0} \cup Ids
        /\ \A k \in 1..maxID' : Stored(k) \/ k = i
        /\ maxID' < MaxInserts => ~Stored(maxID' + 1) /\ maxID' + 1 # i
      BY <1>t, <1>u, <1>2, AdvancedIs
  <2>2. /\ 1..maxID' \subseteq Ids
        /\ maxID' < MaxInserts => maxID' + 1 \in Ids
    <3>1. \A m \in {0} \cup Ids : 1..m \subseteq Ids /\ (m < MaxInserts => m + 1 \in Ids)
        BY Bounds DEF Ids
    <3> QED  BY <2>1, <3>1
  <2>4. \A k \in 1..maxID' : sets'[k] > 0
      BY <1>3, <2>1, <2>2
  <2>5. maxID' < MaxInserts => sets'[maxID' + 1] = 0
      BY <1>3, <2>1, <2>2 DEF Stored
  <2> QED  BY <2>4, <2>5 DEF MaxInv
<1> QED  BY <1>2, <1>5, <1>6, <1>7, <1>8, <1>9 DEF QueueInv, p, i

-----------------------------------------------------------------------------
(* The count of the packets.                                               *)

LEMMA InitCountInv ==
    ASSUME Init PROVE CountInv
<1>1. Stores = {}
  <2>1. \A i \in Ids : sets[i] = 0
      BY DEF Init
  <2>2. \A i \in Ids : {i} \X (1..sets[i]) = {}
      BY <2>1
  <2> QED  BY <2>2 DEF Stores
<1>2. Numbered = {} /\ Holding = {}
    BY DEF Init, Numbered, Holding
<1>3. Len(waiting) = 0 /\ count = 0
    BY DEF Init
<1> QED  BY <1>1, <1>2, <1>3, FS_EmptySet DEF CountInv, InsertsAreStored

\* A step that leaves every place a packet can be in as it is.
LEMMA SameCountInv ==
    ASSUME CountInv, UNCHANGED <<count, waiting, held, sets, Numbered>>
    PROVE  CountInv'
<1>1. Stores' = Stores /\ Holding' = Holding
    BY DEF Stores, Holding
<1> QED  BY <1>1 DEF CountInv, InsertsAreStored

\* At most one source has numbered a packet.
LEMMA NumberedCount ==
    ASSUME SourceInv PROVE Cardinality(Numbered) \in Nat
<1>1. Cardinality({}) = 0 /\ Cardinality({current}) = 1
    BY FS_EmptySet, FS_Singleton
<1>2. CASE Numbered = {}
    BY <1>1, <1>2
<1>3. CASE Numbered = {current}
    BY <1>1, <1>3
<1>4. Numbered = {} \/ Numbered = {current}
    BY OnlyOne DEF Numbered
<1> QED  BY <1>2, <1>3, <1>4

LEMMA NumberCountInv ==
    ASSUME SourceInv, QueueInv, CountInv, NEW s \in Sources, Number(s)
    PROVE  CountInv'
<1>t. SourceType /\ QueueType
    BY DEF SourceInv, QueueInv
<1>1. UNCHANGED <<waiting, held, sets>>
    BY DEF Number, workerVars
<1>2. thread[s] = "handing" /\ s = current
    BY OnlyOne DEF Number, Moves
<1>3. Numbered = {}
    BY <1>2, NoneNumbered
<1>4. CASE UNCHANGED count /\ thread' = [thread EXCEPT ![s] = "ready"]
  <2>1. Numbered' = Numbered
      BY <1>t, <1>3, <1>4 DEF Numbered, SourceType
  <2> QED  BY <1>1, <1>4, <2>1, SameCountInv
<1>5. CASE count' = count + 1 /\ thread' = [thread EXCEPT ![s] = "numbered"]
  <2>1. Numbered' = {s}
      BY <1>t, <1>3, <1>5 DEF Numbered, SourceType
  <2>2. Stores' = Stores /\ Holding' = Holding
      BY <1>1 DEF Stores, Holding
  <2>3. Cardinality(Numbered) = 0 /\ Cardinality(Numbered') = 1
      BY <1>3, <2>1, FS_EmptySet, FS_Singleton
  <2>4. Cardinality(Stores) \in Nat /\ Cardinality(Holding) \in Nat /\ Len(waiting) \in Nat
      BY <1>t, FS_CardinalityType DEF CountInv, QueueType
  <2>5. Cardinality(Stores) + Len(waiting) + 1 + Cardinality(Holding) = count + 1
      BY <2>3, <2>4 DEF CountInv, InsertsAreStored
  <2> QED  BY <1>1, <1>5, <2>2, <2>3, <2>5 DEF CountInv, InsertsAreStored
<1> QED  BY <1>4, <1>5 DEF Number, Moves

LEMMA PushCountInv ==
    ASSUME SourceInv, QueueInv, CountInv, NEW s \in Sources, Push(s)
    PROVE  CountInv'
<1>t. SourceType /\ QueueType
    BY DEF SourceInv, QueueInv
<1>1. /\ UNCHANGED <<count, held, sets>> /\ waiting' = Append(waiting, Last(s))
      /\ thread[s] = "numbered" /\ thread' = [thread EXCEPT ![s] = "ready"]
    BY DEF Push, Moves, workerVars
<1>2. Numbered = {s} /\ Numbered' = {}
  <2>1. \A r \in Sources : thread[r] # "none" => r = s
      BY <1>1, OnlyOne
  <2> QED  BY <1>t, <1>1, <2>1 DEF Numbered, SourceType
<1>3. Stores' = Stores /\ Holding' = Holding
    BY <1>1 DEF Stores, Holding
<1>4. Cardinality(Numbered) = 1 /\ Cardinality(Numbered') = 0
    BY <1>2, FS_EmptySet, FS_Singleton
<1>5. Len(waiting') = Len(waiting) + 1 /\ Len(waiting) \in Nat
    BY <1>t, <1>1, LastIs DEF QueueType
<1>6. Cardinality(Stores) \in Nat /\ Cardinality(Holding) \in Nat
    BY FS_CardinalityType DEF CountInv
<1>7. Cardinality(Stores) + (Len(waiting) + 1) + 0 + Cardinality(Holding) = count
    BY <1>4, <1>5, <1>6 DEF CountInv, InsertsAreStored
<1> QED  BY <1>1, <1>3, <1>4, <1>5, <1>7 DEF CountInv, InsertsAreStored

LEMMA TakeCountInv ==
    ASSUME SourceInv, QueueInv, CountInv, NEW w \in Workers, Take(w)
    PROVE  CountInv'
<1>t. QueueType /\ WorkerType
    BY DEF QueueInv
<1>1. /\ UNCHANGED <<thread, count, sets>> /\ waiting # <<>> /\ waiting' = Tail(waiting)
      /\ held[w] = Nobody /\ held' = [held EXCEPT ![w] = Head(waiting)]
    BY DEF Take, sourceVars
<1>2. Head(waiting) \in Packets /\ Len(waiting') = Len(waiting) - 1 /\ Len(waiting) \in Nat
    BY <1>t, <1>1, RangeTail DEF QueueType
<1>3. Stores' = Stores /\ Numbered' = Numbered
    BY <1>1 DEF Stores, Numbered
<1>4. Holding' = Holding \cup {w} /\ w \notin Holding
    BY <1>t, <1>1, <1>2, Bounds DEF Holding, WorkerType
<1>5. IsFiniteSet(Holding') /\ Cardinality(Holding') = Cardinality(Holding) + 1
    BY <1>4, FS_AddElement DEF CountInv
<1>6. Cardinality(Stores) \in Nat /\ Cardinality(Holding) \in Nat
    BY FS_CardinalityType DEF CountInv
<1>7. Cardinality(Numbered) \in Nat
    BY NumberedCount
<1>8. Cardinality(Stores) + (Len(waiting) - 1) + Cardinality(Numbered) + (Cardinality(Holding) + 1) = count
    BY <1>2, <1>6, <1>7 DEF CountInv, InsertsAreStored
<1> QED  BY <1>1, <1>2, <1>3, <1>5, <1>8 DEF CountInv, InsertsAreStored

\* One more call of packets.set for an id.
LEMMA StoresGrow ==
    ASSUME WorkerType, NEW i \in Ids, sets' = [sets EXCEPT ![i] = @ + 1]
    PROVE  /\ Stores' = Stores \cup {<<i, sets[i] + 1>>}
           /\ <<i, sets[i] + 1>> \notin Stores
<1>1. /\ \A k \in Ids : sets'[k] = IF k = i THEN sets[k] + 1 ELSE sets[k]
      /\ \A k \in Ids : sets[k] \in Nat
    BY DEF WorkerType
<1>2. Stores' = UNION {{k} \X (1..sets'[k]) : k \in Ids}
    BY DEF Stores
<1>3. ASSUME NEW x
      PROVE  x \in Stores' <=> x \in Stores \/ x = <<i, sets[i] + 1>>
  <2>1. x \in Stores' <=> \E k \in Ids : \E n \in 1..sets'[k] : x = <<k, n>>
      BY <1>2
  <2>2. x \in Stores <=> \E k \in Ids : \E n \in 1..sets[k] : x = <<k, n>>
      BY DEF Stores
  <2>3. ASSUME NEW k \in Ids, NEW n \in 1..sets'[k]
        PROVE  (k = i /\ n = sets[i] + 1) \/ n \in 1..sets[k]
      BY <1>1
  <2>4. ASSUME NEW k \in Ids, NEW n \in 1..sets[k]
        PROVE  n \in 1..sets'[k]
      BY <1>1
  <2>5. sets[i] + 1 \in 1..sets'[i]
      BY <1>1
  <2>6. x \in Stores' => x \in Stores \/ x = <<i, sets[i] + 1>>
      BY <2>1, <2>2, <2>3
  <2>7. x \in Stores => x \in Stores'
      BY <2>1, <2>2, <2>4
  <2>8. x = <<i, sets[i] + 1>> => x \in Stores'
      BY <2>1, <2>5
  <2> QED  BY <2>6, <2>7, <2>8
<1>4. <<i, sets[i] + 1>> \notin Stores
    BY <1>1 DEF Stores
<1> QED  BY <1>3, <1>4

LEMMA StoreCountInv ==
    ASSUME SourceInv, QueueInv, CountInv, NEW w \in Workers, Store(w)
    PROVE  CountInv'
<1> DEFINE i == id[held[w]]
<1>t. QueueType /\ WorkerType /\ i \in Ids
    BY StoreQueueInv DEF QueueInv
<1>1. /\ UNCHANGED <<thread, count, waiting>> /\ sets' = [sets EXCEPT ![i] = @ + 1]
      /\ held[w] # Nobody /\ held' = [held EXCEPT ![w] = Nobody]
    BY DEF Store, sourceVars, queueVars
<1> HIDE DEF i
<1>2. Stores' = Stores \cup {<<i, sets[i] + 1>>} /\ <<i, sets[i] + 1>> \notin Stores
    BY <1>t, <1>1, StoresGrow
<1>3. IsFiniteSet(Stores') /\ Cardinality(Stores') = Cardinality(Stores) + 1
    BY <1>2, FS_AddElement DEF CountInv
<1>4. Holding' = Holding \ {w} /\ w \in Holding
    BY <1>t, <1>1 DEF Holding, WorkerType
<1>5. IsFiniteSet(Holding') /\ Cardinality(Holding') = Cardinality(Holding) - 1
    BY <1>4, FS_RemoveElement DEF CountInv
<1>6. Cardinality(Stores) \in Nat /\ Cardinality(Holding) \in Nat /\ Len(waiting) \in Nat
    BY <1>t, FS_CardinalityType DEF CountInv, QueueType
<1>7. Cardinality(Numbered) \in Nat /\ Numbered' = Numbered
    BY <1>1, NumberedCount DEF Numbered
<1>8. (Cardinality(Stores) + 1) + Len(waiting) + Cardinality(Numbered) + (Cardinality(Holding) - 1) = count
    BY <1>6, <1>7 DEF CountInv, InsertsAreStored
<1> QED  BY <1>1, <1>3, <1>5, <1>7, <1>8 DEF CountInv, InsertsAreStored

-----------------------------------------------------------------------------
(* The theorems.                                                           *)

LEMMA InitReplayInv == Init => ReplayInv /\ CountInv
    BY InitSourceInv, InitQueueInv, InitCountInv DEF ReplayInv

LEMMA NextReplayInv == ReplayInv /\ CountInv /\ [Next]_vars => ReplayInv' /\ CountInv'
<1> SUFFICES ASSUME SourceInv, QueueInv, CountInv, [Next]_vars
             PROVE  SourceInv' /\ QueueInv' /\ CountInv'
    BY DEF ReplayInv
<1>t. SourceType /\ QueueType
    BY DEF SourceInv, QueueInv
<1>1. CASE Start \/ Stop \/ SetTestdata \/ Join
  <2>1. UNCHANGED <<count, waiting, held, sets>>
      BY <1>1 DEF Start, Stop, SetTestdata, Join, queueVars, workerVars
  <2> QED  BY <1>1, <2>1, ServerSourceInv, ServerQueueInv, ServerNumbered, SameCountInv
<1>2. ASSUME NEW s \in Sources, Thread(s)
      PROVE  SourceInv' /\ QueueInv' /\ CountInv'
  <2>1. SourceInv'
      BY <1>t, <1>2, ThreadSourceInv
  <2>2. CASE Hand(s)
    <3>1. UNCHANGED <<count, waiting, held, sets>>
        BY <2>2 DEF Hand, queueVars, workerVars
    <3> QED  BY <1>t, <2>1, <2>2, <3>1, HandQueueInv, HandNumbered, SameCountInv
  <2>3. CASE Number(s)
      BY <2>1, <2>3, NumberQueueInv, NumberCountInv
  <2>4. CASE Push(s)
      BY <2>1, <2>4, PushQueueInv, PushCountInv
  <2> QED  BY <1>2, <2>2, <2>3, <2>4 DEF Thread
<1>3. ASSUME NEW w \in Workers, Worker(w)
      PROVE  SourceInv' /\ QueueInv' /\ CountInv'
  <2>1. SourceInv'
      BY <1>3, WorkerSourceInv DEF Worker, Take, Store, queueVars
  <2>2. CASE Take(w)
      BY <2>1, <2>2, TakeQueueInv, TakeCountInv
  <2>3. CASE Store(w)
      BY <2>1, <2>3, StoreQueueInv, StoreCountInv
  <2> QED  BY <1>3, <2>2, <2>3 DEF Worker
<1>4. CASE UNCHANGED vars
  <2>1. UNCHANGED <<sourceVars, serverVars, queueVars, workerVars>>
      BY <1>4 DEF vars
  <2>2. Numbered' = Numbered /\ \A s \in Numbered : next'[s] = next[s]
      BY <2>1 DEF Numbered, sourceVars
  <2>3. SourceInv' /\ CountInv'
      BY <2>1, <2>2, WorkerSourceInv, SameCountInv DEF queueVars, workerVars
  <2>4. QueueType' /\ WorkerType'
      BY <2>1 DEF QueueInv, QueueType, WorkerType, queueVars, workerVars
  <2>5. \A p \in Packets : UnderWay(p)' <=> UnderWay(p)
      BY <2>1, <2>2, SameUnderWay DEF queueVars, workerVars
  <2>6. QueueInv'
      BY <2>1, <2>4, <2>5, SameQueueInv DEF queueVars, workerVars
  <2> QED  BY <2>3, <2>6
<1> QED  BY <1>1, <1>2, <1>3, <1>4 DEF Next, Terminated

LEMMA ReplayInvariant == Spec => [](ReplayInv /\ CountInv)
    BY InitReplayInv, NextReplayInv, PTL DEF Spec

\* Every variable keeps its type: an id is 0 or one that was given, however
\* often the same objects come by.
THEOREM TypeCorrect == Spec => []TypeOK
<1>1. ReplayInv => TypeOK
    BY DEF ReplayInv, SourceInv, QueueInv, SourceType, ServerType, QueueType, WorkerType, TypeOK
<1> QED  BY <1>1, ReplayInvariant, PTL

\* set_testdata leaves no thread of the source before it behind.
THEOREM OnlyOneRuns == Spec => []OnlyCurrentSource
<1>1. ReplayInv => OnlyCurrentSource
    BY DEF ReplayInv, SourceInv, ThreadInv, OnlyCurrentSource
<1> QED  BY <1>1, ReplayInvariant, PTL

\* packets.set is called once for every packet that was inserted and left the
\* queue, also when the same object is inserted again on its way.
THEOREM InsertsStored == Spec => []InsertsAreStored
<1>1. CountInv => InsertsAreStored
    BY DEF CountInv
<1> QED  BY <1>1, ReplayInvariant, PTL

\* With everything stored, nothing is under way.
LEMMA NothingUnderWay ==
    ASSUME SourceInv, QueueInv, CountInv, Cardinality(Stores) = count
    PROVE  \A p \in Packets : ~UnderWay(p)
<1>1. /\ Cardinality(Numbered) \in Nat /\ Cardinality(Holding) \in Nat
      /\ Len(waiting) \in Nat /\ count \in Nat
    BY NumberedCount, FS_CardinalityType, Bounds DEF CountInv, QueueInv, QueueType
<1>2. Cardinality(Numbered) = 0 /\ Cardinality(Holding) = 0 /\ Len(waiting) = 0
    BY <1>1 DEF CountInv, InsertsAreStored
<1>3. Numbered = {}
  <2>1. Numbered = {} \/ Numbered = {current}
      BY OnlyOne DEF Numbered
  <2>2. Cardinality({current}) = 1
      BY FS_Singleton
  <2>3. CASE Numbered = {current}
    <3>1. 0 = 1
        BY <1>2, <2>2, <2>3
    <3> QED  BY <3>1
  <2> QED  BY <2>1, <2>3
<1>4. Holding = {}
    BY <1>2, FS_EmptySet DEF CountInv
<1>5. Range(waiting) = {}
    BY <1>2 DEF QueueInv, QueueType, Range
<1>6. \A p \in Packets, w \in Workers : held[w] # p
    BY <1>4, Bounds DEF Holding
<1> QED  BY <1>3, <1>5, <1>6 DEF UnderWay, InFlight

LEMMA MinIs ==
    ASSUME NEW T, T \subseteq Nat, NEW m \in T, \A x \in T : m <= x
    PROVE  Min(T) = m
<1>1. \A y \in T : (\A x \in T : y <= x) => y = m
  <2> SUFFICES ASSUME NEW y \in T, \A x \in T : y <= x PROVE y = m
      OBVIOUS
  <2>1. y <= m /\ m <= y /\ y \in Int /\ m \in Int
      OBVIOUS
  <2> QED  BY <2>1
<1> QED  BY <1>1 DEF Min

\* When everything is stored, the status announces all packets, or those
\* before the first id that replay overwrote.
THEOREM StopsRight == Spec => []StopsAtFirstLost
<1>1. ASSUME SourceInv, QueueInv, CountInv, Cardinality(Stores) = count
      PROVE  maxID = Min(lost \cup {count + 1}) - 1
  <2> DEFINE m == maxID + 1
             T == lost \cup {count + 1}
  <2>t. QueueType /\ WorkerType /\ IdInv /\ KeptInv /\ MaxInv
      BY <1>1 DEF QueueInv
  <2>0. /\ count \in Nat /\ count <= MaxInserts /\ MaxInserts \in Nat
        /\ maxID \in Nat /\ maxID <= MaxInserts /\ Ids = 1..MaxInserts
      BY <2>t, Bounds DEF QueueType, WorkerType, Ids
  <2>1. \A i \in 1..count : sets[i] > 0 \/ i \in lost
      BY <1>1, <2>t, NothingUnderWay DEF KeptInv
  <2>2. \A i \in lost : i \in Ids /\ i <= count /\ sets[i] = 0
      BY <2>t DEF IdInv, QueueType
  <2>3. \A i \in Ids : sets[i] > 0 => i <= count
      BY <2>t DEF IdInv
  <2>4. \A k \in 1..maxID : sets[k] > 0
      BY <2>t DEF MaxInv
  <2>5. maxID <= count
    <3>1. CASE maxID = 0
        BY <2>0, <3>1
    <3>2. CASE maxID # 0
      <4>1. maxID \in Ids /\ maxID \in 1..maxID
          BY <2>0, <3>2
      <4> QED  BY <2>3, <2>4, <4>1
    <3> QED  BY <3>1, <3>2
  <2>6. m \in T
    <3>1. CASE maxID = count
        BY <3>1
    <3>2. CASE maxID # count
      <4>1. m \in 1..count /\ maxID < MaxInserts
          BY <2>0, <2>5, <3>2
      <4>2. sets[m] = 0
          BY <2>t, <4>1 DEF MaxInv
      <4> QED  BY <2>1, <4>1, <4>2
    <3> QED  BY <3>1, <3>2
  <2>7. \A x \in T : m <= x
    <3>1. ASSUME NEW x \in lost PROVE m <= x
      <4>1. x \in Int /\ 1 <= x /\ ~(sets[x] > 0)
          BY <2>0, <2>2
      <4>2. x \notin 1..maxID
          BY <2>4, <4>1
      <4> QED  BY <2>0, <4>1, <4>2
    <3>2. m <= count + 1
        BY <2>0, <2>5
    <3> QED  BY <3>1, <3>2
  <2>8. T \subseteq Nat
      BY <2>0, <2>2
  <2> HIDE DEF T, m
  <2>9. Min(T) = m
      BY <2>6, <2>7, <2>8, MinIs
  <2> QED  BY <2>0, <2>9 DEF T, m
<1>2. ReplayInv /\ CountInv => StopsAtFirstLost
    BY <1>1 DEF ReplayInv, StopsAtFirstLost
<1> QED  BY <1>2, ReplayInvariant, PTL
=============================================================================
