-------------------------- MODULE DissectorLoading --------------------------
(***************************************************************************)
(* How classes and dissector scripts reach the dissector threads before a  *)
(* capture starts: Session and SessionInterface.create (dripcap/), the     *)
(* client's addClass and addDissector (goldfilter/index.es), the handlers  *)
(* of load_module and load_dissector (server.cpp), and the script tables   *)
(* of the DissectorWorkers (dispatcher.cpp).                               *)
(*                                                                         *)
(* The client builds the sources in any order and awaits replies; the      *)
(* server handles one request at a time but gives the scripts to the       *)
(* workers one by one, each under the mutex; a worker loads what it was    *)
(* given only when it passes its wait.  A class is one that scripts        *)
(* require(); a script that requires an unknown class does not load.       *)
(* Shutdown, ids and the limit of the queue are in Dispatcher.             *)
(***************************************************************************)
EXTENDS Integers, Sequences, FiniteSets

CONSTANTS Workers,     \* dissector threads
          Builtin,     \* the classes of Session's constructor, a sequence
          Registered,  \* the classes registered with SessionInterface, a sequence
          Scripts,     \* the registered dissectors
          Uses,        \* Uses[s] : the classes script s requires
          Start,       \* the "start" request
          MaxPackets   \* bound on the captured packets

Chain   == Builtin \o Registered
Classes == {Chain[k] : k \in 1..Len(Chain)}

\* create() awaits the registered classes only; the chain of addClass makes
\* that cover the builtin ones as soon as there is a registered class.  An
\* entry of the chain is one call of addClass with a promise of its own: a
\* class that is registered twice is two entries.
ASSUME LoadingAssumption ==
    /\ Builtin \in Seq(Classes) /\ Registered \in Seq(Classes)
    /\ Registered # <<>>
    /\ \A j, k \in 1..Len(Chain) : Chain[j] = Chain[k] => j = k
    /\ Uses \in [Scripts -> SUBSET Classes]
    /\ Classes \cap Scripts = {} /\ Start \notin Classes \cup Scripts
    /\ MaxPackets \in Nat

VARIABLES
    clientPc,    \* where create() and start() are
    built,       \* what _build has resolved
    failed,      \* what _build has rejected
    sent,        \* what has been sent to the server
    requests,    \* the requests on the socket, the one handled first
    given,       \* the workers the request in hand has been given to
    replied,     \* what has been replied
    sources,     \* DissectorWorker::sources, in no order
    modules,     \* DissectorWorker::modules, in no order
    dissectors,  \* the scripts in DissectorWorker::dissectors
    workerPc,    \* where each dissector thread is
    dissecting,  \* the packet it dissects (0: none)
    capturing,   \* the server has handled "start"
    count,       \* captured packets
    waiting,     \* the packets in waitingPackets
    analyzed     \* the scripts each dissected packet was given to

clientVars == <<clientPc, built, failed, sent>>
serverVars == <<requests, given, replied, capturing>>
tableVars  == <<sources, modules>>
threadVars == <<dissectors, workerPc, dissecting, waiting, analyzed>>
vars == <<clientVars, serverVars, tableVars, threadVars, count>>

Init ==
    /\ clientPc = "classes"
    /\ built = {} /\ failed = {} /\ sent = {}
    /\ requests = <<>> /\ given = {} /\ replied = {}
    /\ sources = [w \in Workers |-> {}]
    /\ modules = [w \in Workers |-> {}]
    /\ dissectors = [w \in Workers |-> {}]
    /\ workerPc = [w \in Workers |-> "ready"]
    /\ dissecting = [w \in Workers |-> 0]
    /\ capturing = FALSE
    /\ count = 0 /\ waiting = {}
    /\ analyzed = <<>>

-----------------------------------------------------------------------------
(* The client.                                                             *)

\* The classes are asked for at once, the dissectors when create() has
\* awaited the classes.
Requested == Classes \cup (IF clientPc = "classes" THEN {} ELSE Scripts)

BuildEnds(x) ==
    /\ x \in Requested \ (built \cup failed)
    /\ \/ built' = built \cup {x} /\ UNCHANGED failed
       \/ failed' = failed \cup {x} /\ UNCHANGED built
    /\ UNCHANGED <<clientPc, sent, serverVars, tableVars, threadVars, count>>

Send(x) ==
    /\ sent' = sent \cup {x}
    /\ requests' = Append(requests, x)
    /\ UNCHANGED <<given, replied, capturing, tableVars, threadVars, count>>

\* Mutation: classes are sent as they are built, not along the promise chain.
SendClassUnchained(k) ==
    /\ Chain[k] \in built \ sent
    /\ Send(Chain[k])
    /\ UNCHANGED <<clientPc, built, failed>>

\* A class is sent when the class added before it has been replied.
SendClass(k) ==
    /\ Chain[k] \in built \ sent
    /\ k > 1 => Chain[k - 1] \in replied
    /\ Send(Chain[k])
    /\ UNCHANGED <<clientPc, built, failed>>

SendScript(s) ==
    /\ s \in built \ sent
    /\ Send(s)
    /\ UNCHANGED <<clientPc, built, failed>>

\* The first Promise.all of create().
ClassesLoaded ==
    /\ clientPc = "classes"
    /\ \A k \in 1..Len(Registered) : Registered[k] \in replied
    /\ clientPc' = "dissectors"
    /\ UNCHANGED <<built, failed, sent, serverVars, tableVars, threadVars, count>>

\* The second Promise.all; the caller then starts the session, which awaits
\* the builtin classes.
StartSession ==
    /\ clientPc = "dissectors"
    /\ Scripts \subseteq replied
    /\ \A k \in 1..Len(Builtin) : Builtin[k] \in replied
    /\ clientPc' = "started"
    /\ Send(Start)
    /\ UNCHANGED <<built, failed>>

-----------------------------------------------------------------------------
(* The server: one request at a time.                                      *)

\* notify_all on cond.
Woken(pc) == [w \in Workers |-> IF pc[w] = "waiting" THEN "ready" ELSE pc[w]]

\* DissectorWorker::loadModule of one worker.
GiveModule(w) ==
    /\ requests # <<>> /\ Head(requests) \in Classes
    /\ w \notin given
    /\ modules' = [modules EXCEPT ![w] = @ \cup {Head(requests)}]
    /\ given' = given \cup {w}
    /\ UNCHANGED <<clientVars, requests, replied, capturing, sources, threadVars, count>>

\* Mutation: the source is pushed without a notification.
GiveScriptSilently(w) ==
    /\ requests # <<>> /\ Head(requests) \in Scripts
    /\ w \notin given
    /\ sources' = [sources EXCEPT ![w] = @ \cup {Head(requests)}]
    /\ given' = given \cup {w}
    /\ UNCHANGED <<clientVars, requests, replied, capturing, modules, threadVars, count>>

\* DissectorWorker::loadDissector of one worker, with its notification.
GiveScript(w) ==
    /\ requests # <<>> /\ Head(requests) \in Scripts
    /\ w \notin given
    /\ sources' = [sources EXCEPT ![w] = @ \cup {Head(requests)}]
    /\ workerPc' = Woken(workerPc)
    /\ given' = given \cup {w}
    /\ UNCHANGED <<clientVars, requests, replied, capturing, modules, dissectors,
                   dissecting, waiting, analyzed, count>>

Reply ==
    /\ requests # <<>> /\ Head(requests) # Start
    /\ given = Workers
    /\ replied' = replied \cup {Head(requests)}
    /\ requests' = Tail(requests)
    /\ given' = {}
    /\ UNCHANGED <<clientVars, capturing, tableVars, threadVars, count>>

StartCapture ==
    /\ requests # <<>> /\ Head(requests) = Start
    /\ capturing' = TRUE
    /\ requests' = Tail(requests)
    /\ UNCHANGED <<clientVars, given, replied, tableVars, threadVars, count>>

-----------------------------------------------------------------------------
(* The capture and the dissector threads.                                  *)

Capture ==
    /\ capturing
    /\ count < MaxPackets
    /\ count' = count + 1
    /\ waiting' = waiting \cup {count + 1}
    /\ workerPc' = Woken(workerPc)
    /\ UNCHANGED <<clientVars, serverVars, tableVars, dissectors, dissecting, analyzed>>

WorkerRest(w) ==
    /\ workerPc[w] = "ready"
    /\ waiting = {} /\ sources[w] = {}
    /\ workerPc' = [workerPc EXCEPT ![w] = "waiting"]
    /\ UNCHANGED <<clientVars, serverVars, tableVars, dissectors, dissecting,
                   waiting, analyzed, count>>

\* The scripts that loadSource accepts.
Loadable(w) == {s \in sources[w] : Uses[s] \subseteq modules[w]}

\* Mutation: a worker that goes back to the wait keeps its packet.
TakeNextKeeping(w) ==
    \/ \E p \in waiting :
          /\ \A q \in waiting : p <= q
          /\ waiting' = waiting \ {p}
          /\ dissecting' = [dissecting EXCEPT ![w] = p]
          /\ workerPc' = [workerPc EXCEPT ![w] = "dissecting"]
    \/ /\ waiting = {}
       /\ workerPc' = [workerPc EXCEPT ![w] = "ready"]
       /\ UNCHANGED <<waiting, dissecting>>

\* Take the next packet, or go back to the wait.
TakeNext(w) ==
    \/ \E p \in waiting :
          /\ \A q \in waiting : p <= q
          /\ waiting' = waiting \ {p}
          /\ dissecting' = [dissecting EXCEPT ![w] = p]
          /\ workerPc' = [workerPc EXCEPT ![w] = "dissecting"]
    \/ /\ waiting = {}
       /\ dissecting' = [dissecting EXCEPT ![w] = 0]
       /\ workerPc' = [workerPc EXCEPT ![w] = "ready"]
       /\ UNCHANGED waiting

\* Mutation: the sources are looked at only when no packet is waiting.
WorkerRunPacketsFirst(w) ==
    /\ workerPc[w] = "ready"
    /\ \/ waiting # {} /\ UNCHANGED <<dissectors, sources>>
       \/ /\ waiting = {} /\ sources[w] # {}
          /\ dissectors' = [dissectors EXCEPT ![w] = @ \cup Loadable(w)]
          /\ sources' = [sources EXCEPT ![w] = {}]
    /\ TakeNext(w)
    /\ UNCHANGED <<clientVars, serverVars, modules, analyzed, count>>

\* Past the wait, in one critical section: load the sources, then take a
\* packet.
WorkerRun(w) ==
    /\ workerPc[w] = "ready"
    /\ waiting # {} \/ sources[w] # {}
    /\ dissectors' = [dissectors EXCEPT ![w] = @ \cup Loadable(w)]
    /\ sources' = [sources EXCEPT ![w] = {}]
    /\ TakeNext(w)
    /\ UNCHANGED <<clientVars, serverVars, modules, analyzed, count>>

\* The packet has been through the scripts: store it and take the next one
\* without a look at the sources.
WorkerStore(w) ==
    /\ workerPc[w] = "dissecting"
    /\ analyzed' = [p \in DOMAIN analyzed \cup {dissecting[w]} |->
                       IF p = dissecting[w] THEN dissectors[w] ELSE analyzed[p]]
    /\ TakeNext(w)
    /\ UNCHANGED <<clientVars, serverVars, tableVars, dissectors, count>>

Terminated ==
    /\ \/ failed # {}
       \/ count = MaxPackets /\ DOMAIN analyzed = 1..MaxPackets
    /\ UNCHANGED vars

ClientStep == \/ \E k \in 1..Len(Chain) : SendClass(k)
              \/ \E s \in Scripts : SendScript(s)
              \/ ClassesLoaded
              \/ StartSession

ServerStep == \/ \E w \in Workers : GiveModule(w) \/ GiveScript(w)
              \/ Reply
              \/ StartCapture

WorkerStep(w) == WorkerRest(w) \/ WorkerRun(w) \/ WorkerStore(w)

Next == \/ \E x \in Classes \cup Scripts : BuildEnds(x)
        \/ ClientStep
        \/ ServerStep
        \/ Capture
        \/ \E w \in Workers : WorkerStep(w)
        \/ Terminated

Spec == Init /\ [][Next]_vars

\* The event loop, the server thread and the workers run when they can; a
\* build ends, well or not.
FairSpec == /\ Spec
            /\ WF_vars(\E x \in Classes \cup Scripts : BuildEnds(x))
            /\ WF_vars(ClientStep)
            /\ WF_vars(ServerStep)
            /\ \A w \in Workers : WF_vars(WorkerStep(w))

-----------------------------------------------------------------------------
TypeOK ==
    /\ clientPc \in {"classes", "dissectors", "started"}
    /\ built \subseteq Classes \cup Scripts
    /\ failed \subseteq Classes \cup Scripts
    /\ sent \subseteq Classes \cup Scripts \cup {Start}
    /\ requests \in Seq(Classes \cup Scripts \cup {Start})
    /\ given \subseteq Workers
    /\ replied \subseteq Classes \cup Scripts
    /\ sources \in [Workers -> SUBSET Scripts]
    /\ modules \in [Workers -> SUBSET Classes]
    /\ dissectors \in [Workers -> SUBSET Scripts]
    /\ workerPc \in [Workers -> {"ready", "waiting", "dissecting"}]
    /\ dissecting \in [Workers -> 0..MaxPackets]
    /\ \A w \in Workers : dissecting[w] = 0 <=> workerPc[w] # "dissecting"
    /\ capturing \in BOOLEAN
    /\ count \in 0..MaxPackets
    /\ waiting \subseteq 1..MaxPackets
    /\ DOMAIN analyzed \subseteq 1..MaxPackets
    /\ \A p \in DOMAIN analyzed : analyzed[p] \subseteq Scripts

\* A script is loaded into a worker only after every class it may require
\* has been given to that worker: no dissector is silently left out because
\* its require() failed.
NoScriptRejected ==
    \A w \in Workers : \A s \in sources[w] : Uses[s] \subseteq modules[w]

\* The session is created before it captures, so every packet is dissected
\* by every registered dissector, whichever worker takes it and although a
\* busy worker does not look at its sources.
PacketsFullyDissected == \A p \in DOMAIN analyzed : analyzed[p] = Scripts

\* If all sources build, every worker ends up with every dissector: no
\* worker sleeps through the scripts it was given.
EveryWorkerLoads ==
    [](failed = {}) => <>(\A w \in Workers : dissectors[w] = Scripts)
=============================================================================
