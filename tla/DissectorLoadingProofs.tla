----------------------- MODULE DissectorLoadingProofs -----------------------
(***************************************************************************)
(* Proofs about the loading of classes and dissectors, for any number of   *)
(* workers, any classes and scripts and any packets: no script reaches a   *)
(* worker before a class it requires, and no packet is captured before     *)
(* every worker has every script.                                          *)
(***************************************************************************)
EXTENDS DissectorLoading, TLAPS

-----------------------------------------------------------------------------
(* Type correctness.                                                       *)

LEMMA InitTypeOK == Init => TypeOK
<1>. SUFFICES ASSUME Init PROVE TypeOK
  OBVIOUS
<1>1. DOMAIN analyzed = {}
  BY DEF Init
<1>2. requests \in Seq(Classes \cup Scripts \cup {Start})
  BY DEF Init
<1>3. /\ sources \in [Workers -> SUBSET Scripts]
      /\ modules \in [Workers -> SUBSET Classes]
      /\ dissectors \in [Workers -> SUBSET Scripts]
      /\ workerPc \in [Workers -> {"ready", "waiting", "dissecting"}]
      /\ dissecting \in [Workers -> 0..MaxPackets]
      /\ \A w \in Workers : dissecting[w] = 0 <=> workerPc[w] # "dissecting"
  BY LoadingAssumption DEF Init
<1>4. count \in 0..MaxPackets /\ waiting \subseteq 1..MaxPackets
  BY LoadingAssumption DEF Init
<1>. QED
  BY <1>1, <1>2, <1>3, <1>4 DEF Init, TypeOK

LEMMA ClientTypeOK ==
    ASSUME TypeOK, \/ \E x \in Classes \cup Scripts : BuildEnds(x)
                   \/ ClientStep
    PROVE  TypeOK'
<1>. USE LoadingAssumption DEF TypeOK
<1>1. ASSUME NEW x \in Classes \cup Scripts, BuildEnds(x) PROVE TypeOK'
  BY <1>1 DEF BuildEnds, serverVars, tableVars, threadVars
<1>2. ASSUME NEW x \in Classes \cup Scripts \cup {Start}, Send(x),
             UNCHANGED <<built, failed>>,
             clientPc' \in {"classes", "dissectors", "started"}
      PROVE  TypeOK'
  BY <1>2 DEF Send, tableVars, threadVars
<1>3. ASSUME NEW k \in 1..Len(Chain), SendClass(k) PROVE TypeOK'
  BY <1>2, <1>3 DEF SendClass, Classes
<1>4. ASSUME NEW s \in Scripts, SendScript(s) PROVE TypeOK'
  BY <1>2, <1>4 DEF SendScript
<1>5. CASE ClassesLoaded
  BY <1>5 DEF ClassesLoaded, serverVars, tableVars, threadVars
<1>6. CASE StartSession
  BY <1>2, <1>6 DEF StartSession
<1>. QED
  BY <1>1, <1>3, <1>4, <1>5, <1>6 DEF ClientStep

LEMMA ServerTypeOK == ASSUME TypeOK, ServerStep PROVE TypeOK'
<1>. USE LoadingAssumption DEF TypeOK
<1>1. requests # <<>> =>
         /\ Head(requests) \in Classes \cup Scripts \cup {Start}
         /\ Tail(requests) \in Seq(Classes \cup Scripts \cup {Start})
  OBVIOUS
<1>2. ASSUME NEW w \in Workers, GiveModule(w) PROVE TypeOK'
  BY <1>2 DEF GiveModule, clientVars, threadVars
<1>3. ASSUME NEW w \in Workers, GiveScript(w) PROVE TypeOK'
  BY <1>3 DEF GiveScript, Woken, clientVars
<1>4. CASE Reply
  BY <1>1, <1>4 DEF Reply, clientVars, tableVars, threadVars
<1>5. CASE StartCapture
  BY <1>1, <1>5 DEF StartCapture, clientVars, tableVars, threadVars
<1>. QED
  BY <1>2, <1>3, <1>4, <1>5 DEF ServerStep

\* The packet a worker goes on with.
LEMMA TakeNextTypes ==
    ASSUME TypeOK, NEW w \in Workers, TakeNext(w)
    PROVE  /\ workerPc' \in [Workers -> {"ready", "waiting", "dissecting"}]
           /\ dissecting' \in [Workers -> 0..MaxPackets]
           /\ \A v \in Workers : dissecting'[v] = 0 <=> workerPc'[v] # "dissecting"
           /\ waiting' \subseteq 1..MaxPackets
<1>. USE LoadingAssumption DEF TypeOK
<1>1. ASSUME NEW p \in waiting, waiting' = waiting \ {p},
             dissecting' = [dissecting EXCEPT ![w] = p],
             workerPc' = [workerPc EXCEPT ![w] = "dissecting"]
      PROVE  /\ workerPc' \in [Workers -> {"ready", "waiting", "dissecting"}]
             /\ dissecting' \in [Workers -> 0..MaxPackets]
             /\ \A v \in Workers : dissecting'[v] = 0 <=> workerPc'[v] # "dissecting"
             /\ waiting' \subseteq 1..MaxPackets
  <2>1. p \in 0..MaxPackets /\ p # 0
    OBVIOUS
  <2>. QED
    BY <1>1, <2>1
<1>2. ASSUME dissecting' = [dissecting EXCEPT ![w] = 0],
             workerPc' = [workerPc EXCEPT ![w] = "ready"], waiting' = waiting
      PROVE  /\ workerPc' \in [Workers -> {"ready", "waiting", "dissecting"}]
             /\ dissecting' \in [Workers -> 0..MaxPackets]
             /\ \A v \in Workers : dissecting'[v] = 0 <=> workerPc'[v] # "dissecting"
             /\ waiting' \subseteq 1..MaxPackets
  BY <1>2
<1>. QED
  BY <1>1, <1>2 DEF TakeNext

LEMMA WorkerTypeOK ==
    ASSUME TypeOK, Capture \/ \E w \in Workers : WorkerStep(w)
    PROVE  TypeOK'
<1>1. CASE Capture
  BY <1>1, LoadingAssumption DEF Capture, Woken, TypeOK, clientVars, serverVars, tableVars
<1>2. ASSUME NEW w \in Workers, WorkerRest(w) PROVE TypeOK'
  BY <1>2 DEF WorkerRest, TypeOK, clientVars, serverVars, tableVars
<1>3. ASSUME NEW w \in Workers, WorkerRun(w) PROVE TypeOK'
  BY <1>3, TakeNextTypes DEF WorkerRun, Loadable, TypeOK, clientVars, serverVars
<1>4. ASSUME NEW w \in Workers, WorkerStore(w) PROVE TypeOK'
  <2>1. dissecting[w] \in 1..MaxPackets /\ dissectors[w] \subseteq Scripts
    BY <1>4, LoadingAssumption DEF WorkerStore, TypeOK
  <2>2. /\ DOMAIN analyzed' \subseteq 1..MaxPackets
        /\ \A p \in DOMAIN analyzed' : analyzed'[p] \subseteq Scripts
    BY <1>4, <2>1 DEF WorkerStore, TypeOK
  <2>. QED
    BY <1>4, <2>2, TakeNextTypes DEF WorkerStore, TypeOK, clientVars, serverVars, tableVars
<1>. QED
  BY <1>1, <1>2, <1>3, <1>4 DEF WorkerStep

LEMMA NextTypeOK == TypeOK /\ [Next]_vars => TypeOK'
<1>1. TypeOK /\ UNCHANGED vars => TypeOK'
  BY DEF TypeOK, vars, clientVars, serverVars, tableVars, threadVars
<1>. QED
  BY <1>1, ClientTypeOK, ServerTypeOK, WorkerTypeOK DEF Next, Terminated

\* Every variable keeps its type: the server handles no request but those of
\* the client, and a worker holds a packet exactly while it dissects.
THEOREM TypeCorrect == Spec => []TypeOK
BY InitTypeOK, NextTypeOK, PTL DEF Spec

-----------------------------------------------------------------------------
(* The inductive invariant.                                                *)

\* What has been sent was asked for, and the client's phases follow the
\* replies.  A class is sent when all before it in the chain are replied.
ClientInv ==
    /\ sent \cap Scripts \subseteq built
    /\ (built \cup failed) \cap Scripts # {} => clientPc # "classes"
    /\ \A k \in 1..Len(Chain) :
          Chain[k] \in sent => \A j \in 1..(k - 1) : Chain[j] \in replied
    /\ clientPc # "classes" => Classes \subseteq replied
    /\ clientPc = "started" => Scripts \subseteq replied
    /\ Start \in sent => clientPc = "started"

\* Only what has been sent is requested or replied, and the request in hand
\* is one that can be given to workers if it has been given to any.
RequestInv ==
    /\ \A i \in 1..Len(requests) : requests[i] \in sent
    /\ replied \subseteq sent
    /\ given # {} => requests # <<>> /\ Head(requests) # Start
    /\ capturing => clientPc = "started"
    /\ waiting # {} => capturing

\* What is in the tables of worker w, or will be when it passes its wait.
Has(w) == modules[w] \cup sources[w] \cup dissectors[w]

\* What has been replied has reached every worker, and the request in hand
\* those it has been given to; there are no sources before the classes.
TableInv ==
    /\ \A w \in Workers : replied \subseteq Has(w)
    /\ \A w \in given : Head(requests) \in Has(w)
    /\ \A w \in Workers : sources[w] # {} => clientPc # "classes"

\* A worker that has a packet has every script.
PacketInv ==
    /\ \A w \in Workers : dissecting[w] # 0 => dissectors[w] = Scripts
    /\ PacketsFullyDissected

LoadingInv == ClientInv /\ RequestInv /\ TableInv /\ PacketInv

\* Every source a worker was given can be loaded.
LEMMA SourcesLoad ==
    ASSUME TypeOK, LoadingInv
    PROVE  NoScriptRejected /\ \A w \in Workers : Loadable(w) = sources[w]
<1>1. ASSUME NEW w \in Workers, NEW s \in sources[w] PROVE Uses[s] \subseteq modules[w]
  <2>1. Classes \subseteq Has(w)
    BY <1>1 DEF LoadingInv, TableInv, ClientInv
  <2>2. Classes \subseteq modules[w]
    BY <2>1, LoadingAssumption DEF Has, TypeOK
  <2>3. s \in Scripts
    BY <1>1 DEF TypeOK
  <2>. QED
    BY <2>2, <2>3, LoadingAssumption
<1>. QED
  BY <1>1 DEF NoScriptRejected, Loadable

LEMMA InitLoadingInv == Init => LoadingInv
<1>. SUFFICES ASSUME Init PROVE LoadingInv
  OBVIOUS
<1>1. DOMAIN analyzed = {}
  BY DEF Init
<1>2. ClientInv /\ RequestInv /\ TableInv
  BY DEF Init, ClientInv, RequestInv, TableInv
<1>3. PacketInv
  BY <1>1 DEF Init, PacketInv, PacketsFullyDissected
<1>. QED
  BY <1>2, <1>3 DEF LoadingInv

LEMMA BuildLoadingInv ==
    ASSUME TypeOK, LoadingInv, NEW x \in Classes \cup Scripts, BuildEnds(x)
    PROVE  LoadingInv'
<1>1. /\ UNCHANGED <<clientPc, sent, serverVars, tableVars, threadVars, count>>
      /\ built \subseteq built'
      /\ (built' \cup failed') \subseteq (built \cup failed) \cup {x}
      /\ x \in Scripts => clientPc # "classes"
  BY LoadingAssumption DEF BuildEnds, Requested
<1>2. ClientInv'
  BY <1>1 DEF LoadingInv, ClientInv, serverVars
<1>3. RequestInv' /\ TableInv' /\ PacketInv'
  BY <1>1 DEF LoadingInv, RequestInv, TableInv, PacketInv, Has, PacketsFullyDissected,
     serverVars, tableVars, threadVars
<1>. QED
  BY <1>2, <1>3 DEF LoadingInv

\* A sequence with one more element, and one without its head.
LEMMA QueueLemma ==
    ASSUME NEW S, NEW q \in Seq(S), NEW x \in S
    PROVE  /\ Append(q, x) # <<>> /\ (q # <<>> => Head(Append(q, x)) = Head(q))
           /\ \A i \in 1..Len(Append(q, x)) :
                 \/ Append(q, x)[i] = x
                 \/ i \in 1..Len(q) /\ Append(q, x)[i] = q[i]
           /\ q # <<>> => /\ 1 \in 1..Len(q) /\ Head(q) = q[1]
                          /\ \A i \in 1..Len(Tail(q)) :
                                i + 1 \in 1..Len(q) /\ Tail(q)[i] = q[i + 1]
OBVIOUS

\* A request goes to the end of the queue.
LEMMA SendKeeps ==
    ASSUME TypeOK, RequestInv, TableInv, PacketInv,
           NEW x \in Classes \cup Scripts \cup {Start}, Send(x),
           clientPc' = clientPc \/ clientPc' = "started"
    PROVE  RequestInv' /\ TableInv' /\ PacketInv'
<1>1. /\ sent' = sent \cup {x} /\ requests' = Append(requests, x)
      /\ UNCHANGED <<given, replied, capturing, sources, modules, dissectors,
                     dissecting, waiting, analyzed>>
  BY DEF Send, tableVars, threadVars
<1>2. /\ \A i \in 1..Len(requests') :
            \/ requests'[i] = x
            \/ i \in 1..Len(requests) /\ requests'[i] = requests[i]
      /\ requests' # <<>>
      /\ requests # <<>> => Head(requests') = Head(requests)
  BY <1>1, QueueLemma DEF TypeOK
<1>3. RequestInv'
  <2>1. \A i \in 1..Len(requests') : requests'[i] \in sent'
    BY <1>1, <1>2 DEF RequestInv
  <2>. QED
    BY <1>1, <1>2, <2>1 DEF RequestInv
<1>4. TableInv'
  BY <1>1, <1>2 DEF TableInv, RequestInv, Has
<1>5. PacketInv'
  BY <1>1 DEF PacketInv, PacketsFullyDissected
<1>. QED
  BY <1>3, <1>4, <1>5

LEMMA ClientLoadingInv ==
    ASSUME TypeOK, LoadingInv, ClientStep
    PROVE  LoadingInv'
<1>i. RequestInv /\ TableInv /\ PacketInv
  BY DEF LoadingInv
<1>1. ASSUME NEW k \in 1..Len(Chain), SendClass(k) PROVE LoadingInv'
  <2>1. /\ Chain[k] \in built /\ Chain[k] \in Classes
        /\ k > 1 => Chain[k - 1] \in replied
        /\ sent' = sent \cup {Chain[k]}
        /\ UNCHANGED <<clientPc, built, failed, replied>>
    BY <1>1 DEF SendClass, Send, Classes
  <2>2. \A j \in 1..(k - 1) : Chain[j] \in replied
    <3>. SUFFICES ASSUME NEW j \in 1..(k - 1) PROVE Chain[j] \in replied
      OBVIOUS
    <3>1. k - 1 \in 1..Len(Chain) /\ Chain[k - 1] \in replied
      BY <2>1
    <3>2. \A m \in 1..((k - 1) - 1) : Chain[m] \in replied
      BY <3>1 DEF LoadingInv, ClientInv, RequestInv
    <3>3. j = k - 1 \/ j \in 1..((k - 1) - 1)
      OBVIOUS
    <3>. QED
      BY <3>1, <3>2, <3>3
  <2>3. ClientInv'
    <3>1. sent' \cap Scripts \subseteq built'
      BY <2>1 DEF LoadingInv, ClientInv
    <3>2. ASSUME NEW m \in 1..Len(Chain), Chain[m] \in sent'
          PROVE  \A j \in 1..(m - 1) : Chain[j] \in replied'
      <4>1. CASE m = k
        BY <2>1, <2>2, <4>1
      <4>2. CASE m # k
        <5>1. Chain[m] \in sent
          BY <2>1, <3>2, <4>2, LoadingAssumption
        <5>. QED
          BY <2>1, <5>1 DEF LoadingInv, ClientInv
      <4>. QED
        BY <4>1, <4>2
    <3>3. Start \in sent' => Start \in sent
      BY <2>1, LoadingAssumption
    <3>. QED
      BY <2>1, <3>1, <3>2, <3>3 DEF LoadingInv, ClientInv
  <2>. QED
    BY <1>1, <1>i, <2>1, <2>3, SendKeeps DEF SendClass, LoadingInv
<1>2. ASSUME NEW s \in Scripts, SendScript(s) PROVE LoadingInv'
  <2>1. /\ s \in built /\ sent' = sent \cup {s}
        /\ UNCHANGED <<clientPc, built, failed, replied>>
    BY <1>2 DEF SendScript, Send
  <2>2. s \notin Classes /\ s # Start
    BY LoadingAssumption
  <2>3. \A k \in 1..Len(Chain) : Chain[k] \in sent' => Chain[k] \in sent
    BY <2>1, <2>2 DEF Classes
  <2>4. ClientInv'
    BY <2>1, <2>2, <2>3 DEF LoadingInv, ClientInv
  <2>. QED
    BY <1>2, <1>i, <2>1, <2>4, SendKeeps DEF SendScript, LoadingInv
<1>3. CASE ClassesLoaded
  <2>1. /\ clientPc = "classes" /\ clientPc' = "dissectors"
        /\ \A k \in 1..Len(Registered) : Registered[k] \in replied
        /\ UNCHANGED <<built, failed, sent, serverVars, tableVars, threadVars>>
    BY <1>3 DEF ClassesLoaded
  <2>2. Classes \subseteq replied
    <3>. DEFINE n == Len(Chain)
    <3>1. /\ n \in Nat /\ n > 0 /\ Len(Registered) \in 1..Len(Registered)
          /\ Chain[n] = Registered[Len(Registered)]
      BY LoadingAssumption DEF Chain
    <3>2. Chain[n] \in replied
      BY <2>1, <3>1
    <3>3. \A j \in 1..(n - 1) : Chain[j] \in replied
      BY <3>1, <3>2 DEF LoadingInv, ClientInv, RequestInv
    <3>. QED
      BY <3>1, <3>2, <3>3 DEF Classes
  <2>3. ClientInv'
    BY <2>1, <2>2 DEF LoadingInv, ClientInv, serverVars
  <2>4. RequestInv' /\ TableInv' /\ PacketInv'
    BY <2>1 DEF LoadingInv, RequestInv, TableInv, PacketInv, Has, PacketsFullyDissected,
       serverVars, tableVars, threadVars
  <2>. QED
    BY <2>3, <2>4 DEF LoadingInv
<1>4. CASE StartSession
  <2>1. /\ clientPc = "dissectors" /\ clientPc' = "started"
        /\ Scripts \subseteq replied
        /\ sent' = sent \cup {Start}
        /\ UNCHANGED <<built, failed, replied>>
    BY <1>4 DEF StartSession, Send
  <2>2. Start \notin Classes \cup Scripts
    BY LoadingAssumption
  <2>3. \A k \in 1..Len(Chain) : Chain[k] \in sent' => Chain[k] \in sent
    BY <2>1, <2>2 DEF Classes
  <2>4. ClientInv'
    BY <2>1, <2>2, <2>3 DEF LoadingInv, ClientInv
  <2>. QED
    BY <1>4, <1>i, <2>1, <2>4, SendKeeps DEF StartSession, LoadingInv
<1>. QED
  BY <1>1, <1>2, <1>3, <1>4 DEF ClientStep

\* More replies leave what has been sent in order.
LEMMA ClientKept ==
    ASSUME LoadingInv, replied \subseteq replied',
           UNCHANGED <<clientPc, built, failed, sent>>
    PROVE  ClientInv'
<1>1. \A k \in 1..Len(Chain) :
         Chain[k] \in sent' => \A j \in 1..(k - 1) : Chain[j] \in replied'
  BY DEF LoadingInv, ClientInv
<1>. QED
  BY <1>1 DEF LoadingInv, ClientInv

LEMMA ServerLoadingInv ==
    ASSUME TypeOK, LoadingInv, ServerStep
    PROVE  LoadingInv'
<1>1. ASSUME NEW w \in Workers, GiveModule(w) PROVE LoadingInv'
  <2>1. /\ requests # <<>> /\ Head(requests) \in Classes /\ Head(requests) # Start
        /\ modules' = [modules EXCEPT ![w] = @ \cup {Head(requests)}]
        /\ given' = given \cup {w}
        /\ UNCHANGED <<clientVars, requests, replied, capturing, sources, threadVars>>
    BY <1>1, LoadingAssumption DEF GiveModule
  <2>2. /\ \A v \in Workers : Has(v) \subseteq Has(v)'
        /\ Head(requests) \in Has(w)'
    BY <2>1 DEF Has, TypeOK, threadVars
  <2>3. ClientInv' /\ \A v \in Workers : replied' \subseteq Has(v)'
    BY <2>1, <2>2, ClientKept DEF LoadingInv, TableInv, clientVars
  <2>4. RequestInv' /\ PacketInv'
    BY <2>1 DEF LoadingInv, RequestInv, PacketInv, PacketsFullyDissected,
       clientVars, threadVars
  <2>5. TableInv'
    BY <2>1, <2>2, <2>3 DEF LoadingInv, TableInv, TypeOK, clientVars
  <2>. QED
    BY <2>3, <2>4, <2>5 DEF LoadingInv
<1>2. ASSUME NEW w \in Workers, GiveScript(w) PROVE LoadingInv'
  <2>1. /\ requests # <<>> /\ Head(requests) \in Scripts /\ Head(requests) # Start
        /\ sources' = [sources EXCEPT ![w] = @ \cup {Head(requests)}]
        /\ given' = given \cup {w}
        /\ UNCHANGED <<clientVars, requests, replied, capturing, modules, dissectors,
                       dissecting, waiting, analyzed>>
    BY <1>2, LoadingAssumption DEF GiveScript
  <2>2. /\ \A v \in Workers : Has(v) \subseteq Has(v)'
        /\ Head(requests) \in Has(w)'
    BY <2>1 DEF Has, TypeOK
  <2>3. ClientInv' /\ \A v \in Workers : replied' \subseteq Has(v)'
    BY <2>1, <2>2, ClientKept DEF LoadingInv, TableInv, clientVars
  <2>4. clientPc # "classes"
    <3>1. Head(requests) \in sent
      BY <2>1, QueueLemma DEF LoadingInv, RequestInv, TypeOK
    <3>. QED
      BY <2>1, <3>1 DEF LoadingInv, ClientInv
  <2>5. RequestInv' /\ PacketInv'
    BY <2>1 DEF LoadingInv, RequestInv, PacketInv, PacketsFullyDissected, clientVars
  <2>6. TableInv'
    BY <2>1, <2>2, <2>3, <2>4 DEF LoadingInv, TableInv, TypeOK, clientVars
  <2>. QED
    BY <2>3, <2>5, <2>6 DEF LoadingInv
<1>3. CASE Reply
  <2>1. /\ requests # <<>> /\ Head(requests) # Start
        /\ given = Workers /\ given' = {}
        /\ replied' = replied \cup {Head(requests)}
        /\ requests' = Tail(requests)
        /\ UNCHANGED <<clientVars, capturing, tableVars, threadVars>>
    BY <1>3 DEF Reply
  <2>2. \A v \in Workers : Has(v)' = Has(v) /\ Head(requests) \in Has(v)
    BY <2>1 DEF LoadingInv, TableInv, Has, tableVars, threadVars
  <2>3. ClientInv' /\ \A v \in Workers : replied' \subseteq Has(v)'
    BY <2>1, <2>2, ClientKept DEF LoadingInv, TableInv, clientVars
  <2>4. /\ Head(requests) \in sent
        /\ \A i \in 1..Len(requests') : requests'[i] \in sent
    BY <2>1, QueueLemma DEF LoadingInv, RequestInv, TypeOK
  <2>5. RequestInv'
    BY <2>1, <2>4 DEF LoadingInv, RequestInv, clientVars, threadVars
  <2>6. TableInv' /\ PacketInv'
    BY <2>1, <2>3 DEF LoadingInv, TableInv, PacketInv, PacketsFullyDissected,
       clientVars, tableVars, threadVars
  <2>. QED
    BY <2>3, <2>5, <2>6 DEF LoadingInv
<1>4. CASE StartCapture
  <2>1. /\ requests # <<>> /\ Head(requests) = Start
        /\ requests' = Tail(requests)
        /\ UNCHANGED <<clientVars, given, replied, tableVars, threadVars>>
    BY <1>4 DEF StartCapture
  <2>2. /\ Start \in sent
        /\ \A i \in 1..Len(requests') : requests'[i] \in sent
    BY <2>1, QueueLemma DEF LoadingInv, RequestInv, TypeOK
  <2>3. clientPc = "started" /\ given = {}
    BY <2>1, <2>2 DEF LoadingInv, ClientInv, RequestInv
  <2>4. ClientInv' /\ PacketInv'
    BY <2>1 DEF LoadingInv, ClientInv, PacketInv, PacketsFullyDissected, clientVars,
       threadVars
  <2>5. RequestInv'
    BY <1>4, <2>1, <2>2, <2>3 DEF StartCapture, LoadingInv, RequestInv, clientVars, threadVars
  <2>6. TableInv'
    BY <2>1, <2>3 DEF LoadingInv, TableInv, Has, clientVars, tableVars, threadVars
  <2>. QED
    BY <2>4, <2>5, <2>6 DEF LoadingInv
<1>. QED
  BY <1>1, <1>2, <1>3, <1>4 DEF ServerStep

\* A worker that goes on with a packet has every script: packets come only
\* from a capture, and a capture starts after the last reply.
LEMMA WorkerLoadingInv ==
    ASSUME TypeOK, LoadingInv, Capture \/ \E w \in Workers : WorkerStep(w)
    PROVE  LoadingInv'
<1>1. CASE Capture
  <2>1. ClientInv' /\ TableInv' /\ PacketInv'
    BY <1>1 DEF Capture, LoadingInv, ClientInv, TableInv, PacketInv, Has,
       PacketsFullyDissected, clientVars, serverVars, tableVars
  <2>2. RequestInv'
    BY <1>1 DEF Capture, LoadingInv, RequestInv, clientVars, serverVars
  <2>. QED
    BY <2>1, <2>2 DEF LoadingInv
<1>2. ASSUME NEW w \in Workers, WorkerRest(w) PROVE LoadingInv'
  BY <1>2 DEF WorkerRest, LoadingInv, ClientInv, RequestInv, TableInv, PacketInv, Has,
     PacketsFullyDissected, clientVars, serverVars, tableVars
<1>3. ASSUME NEW w \in Workers, waiting # {} PROVE sources[w] \cup dissectors[w] = Scripts
  <2>1. Scripts \subseteq Has(w)
    BY <1>3 DEF LoadingInv, ClientInv, RequestInv, TableInv
  <2>. QED
    BY <2>1, LoadingAssumption DEF Has, TypeOK
<1>4. ASSUME NEW w \in Workers, WorkerRun(w) PROVE LoadingInv'
  <2>1. /\ dissectors' = [dissectors EXCEPT ![w] = dissectors[w] \cup sources[w]]
        /\ sources' = [sources EXCEPT ![w] = {}]
        /\ UNCHANGED <<clientVars, serverVars, modules, analyzed>>
    BY <1>4, SourcesLoad DEF WorkerRun
  <2>2. /\ waiting' \subseteq waiting
        /\ \/ waiting # {} /\ \A v \in Workers \ {w} : dissecting'[v] = dissecting[v]
           \/ dissecting' = [dissecting EXCEPT ![w] = 0]
    BY <1>4 DEF WorkerRun, TakeNext, TypeOK
  <2>3. \A v \in Workers : Has(v)' = Has(v)
    BY <2>1 DEF Has, TypeOK
  <2>4. ClientInv' /\ RequestInv'
    BY <2>1, <2>2 DEF LoadingInv, ClientInv, RequestInv, clientVars, serverVars
  <2>5. TableInv'
    BY <2>1, <2>3 DEF LoadingInv, TableInv, TypeOK, clientVars, serverVars
  <2>6. \A v \in Workers : dissecting'[v] # 0 => dissectors'[v] = Scripts
    <3>. SUFFICES ASSUME NEW v \in Workers, dissecting'[v] # 0
                  PROVE  dissectors'[v] = Scripts
      OBVIOUS
    <3>1. CASE v # w
      BY <2>1, <2>2, <3>1 DEF LoadingInv, PacketInv, TypeOK
    <3>2. CASE v = w
      <4>1. waiting # {}
        BY <2>2, <3>2 DEF TypeOK
      <4>. QED
        BY <1>3, <2>1, <3>2, <4>1 DEF TypeOK
    <3>. QED
      BY <3>1, <3>2
  <2>. QED
    BY <2>1, <2>4, <2>5, <2>6 DEF LoadingInv, PacketInv, PacketsFullyDissected
<1>5. ASSUME NEW w \in Workers, WorkerStore(w) PROVE LoadingInv'
  <2>1. /\ workerPc[w] = "dissecting" /\ dissectors[w] = Scripts
        /\ UNCHANGED <<clientVars, serverVars, tableVars, dissectors>>
    BY <1>5 DEF WorkerStore, TypeOK, LoadingInv, PacketInv
  <2>2. /\ waiting' \subseteq waiting
        /\ \A v \in Workers \ {w} : dissecting'[v] = dissecting[v]
    BY <1>5 DEF WorkerStore, TakeNext, TypeOK
  <2>3. ClientInv' /\ RequestInv' /\ TableInv'
    BY <2>1, <2>2 DEF LoadingInv, ClientInv, RequestInv, TableInv, Has, clientVars,
       serverVars, tableVars
  <2>4. PacketsFullyDissected'
    BY <1>5, <2>1 DEF WorkerStore, LoadingInv, PacketInv, PacketsFullyDissected
  <2>5. \A v \in Workers : dissecting'[v] # 0 => dissectors'[v] = Scripts
    BY <2>1, <2>2 DEF LoadingInv, PacketInv
  <2>. QED
    BY <2>3, <2>4, <2>5 DEF LoadingInv, PacketInv
<1>. QED
  BY <1>1, <1>2, <1>4, <1>5 DEF WorkerStep

LEMMA NextLoadingInv == TypeOK /\ LoadingInv /\ [Next]_vars => LoadingInv'
<1>1. LoadingInv /\ UNCHANGED vars => LoadingInv'
  BY DEF LoadingInv, ClientInv, RequestInv, TableInv, PacketInv, Has,
     PacketsFullyDissected, vars, clientVars, serverVars, tableVars, threadVars
<1>. QED
  BY <1>1, BuildLoadingInv, ClientLoadingInv, ServerLoadingInv, WorkerLoadingInv
     DEF Next, Terminated

LEMMA LoadingInvariant == Spec => []LoadingInv
BY InitLoadingInv, NextLoadingInv, TypeCorrect, PTL DEF Spec

\* However builds, replies and the workers' waits cross each other, a worker
\* is given a script only after every class: create() awaits the registered
\* classes, and the chain of addClass makes that the builtin ones, too
\* (session-interface.es, goldfilter/index.es).
THEOREM NoneRejected == Spec => []NoScriptRejected
<1>1. TypeOK /\ LoadingInv => NoScriptRejected
  BY SourcesLoad
<1>. QED
  BY <1>1, TypeCorrect, LoadingInvariant, PTL

\* Every packet is dissected by every registered dissector, whichever worker
\* takes it, although a busy worker does not look at what it was given
\* (DissectorWorker, dispatcher.cpp).
THEOREM FullyDissected == Spec => []PacketsFullyDissected
<1>1. LoadingInv => PacketsFullyDissected
  BY DEF LoadingInv, PacketInv
<1>. QED
  BY <1>1, LoadingInvariant, PTL
=============================================================================
