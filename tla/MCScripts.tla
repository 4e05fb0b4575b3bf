------------------------------ MODULE MCScripts -----------------------------
(***************************************************************************)
(* Small instances of the models of the script engine: how a script is     *)
(* loaded (ScriptModules), what scripts do to one packet (PacketScripts)   *)
(* and to its streams (StreamVisit).  They share no state, so a behaviour  *)
(* is one of any of them: the first state chooses which, the others rest   *)
(* in a state of theirs in which fairness asks for nothing.                *)
(***************************************************************************)
EXTENDS ScriptModules

CONSTANTS Keys, FreeKeys, MaxLayers, MaxScripts,             \* PacketScripts
          Ids, VisitLayers, NumNamespaces, MaxPackets, MaxItems,  \* StreamVisit
          a, b, c, k1, k2, k3, s1, l1, l2

VARIABLES
    part,        \* the model that runs: modules, packet or visit
    scripts, shipped, at, ns, streams, used, history, current, todo,
    walkPhase, visits, attached,
    streamScripts, maxID, made, streamCache, visit, streamMaxID, rest, layer,
    derived, busy, called, segments, ended

Packets == INSTANCE PacketScripts WITH phase <- walkPhase
Visits  == INSTANCE StreamVisit WITH registered <- streamScripts, cache <- streamCache,
                               Layers <- VisitLayers

ASSUME ScriptsAssumption == Packets!BoundsAssumption /\ Visits!BoundsAssumption

packetVars == <<scripts, shipped, at, ns, streams, used, history, current, todo,
                walkPhase, visits, attached>>
visitVars  == <<streamScripts, maxID, made, streamCache, visit, streamMaxID, rest,
                layer, derived, busy, called, segments, ended>>
allVars    == <<part, vars, packetVars, visitVars>>

-----------------------------------------------------------------------------
\* Of the names that can be exchanged for each other one choice is enough.
SomeSources ==
    /\ wants \in {{}, {a}, {a, b}}
    /\ exporting \in {Names, Names \ {c}}
    /\ Init
    /\ requires[c] \in {{}, {a}, {c}} /\ (streaming => c \in registered)

\* A script that requires nothing is loaded.
ModulesRest ==
    /\ requires = [n \in Names |-> {}] /\ exporting = {} /\ registered = {}
    /\ wants = {} /\ streaming = FALSE /\ phase = "ready"
    /\ modules = {} /\ cache = {} /\ functions = [n \in Names |-> 0]
    /\ stack = <<>> /\ unpacking = Nothing /\ unpacked = Outcome(Nothing, FALSE)

\* A packet with one layer is stored.
PacketRest ==
    /\ scripts = [k \in Keys |-> 0] /\ shipped = TRUE
    /\ at = [l \in Packets!Layers |-> IF l = 1 THEN <<Packets!Packet, k1>>
                                               ELSE Packets!Detached]
    /\ ns = [l \in Packets!Layers |-> k1]
    /\ streams = {} /\ history = {k1} /\ current = 1 /\ todo = 0
    /\ walkPhase = "stored" /\ used = 1
    /\ visits = [l \in Packets!Layers |-> IF l = 1 THEN 1 ELSE 0] /\ attached = {}

\* No packet has been dissected.
VisitRest == layer = l1 /\ Visits!Init

ScriptsInit ==
    \/ part = "modules" /\ SomeSources /\ PacketRest /\ VisitRest
    \/ part = "packet" /\ ModulesRest /\ Packets!Init /\ VisitRest
    \/ part = "visit" /\ ModulesRest /\ PacketRest /\ Visits!Init

ScriptsNext ==
    /\ UNCHANGED part
    /\ \/ part = "modules" /\ Next /\ UNCHANGED <<packetVars, visitVars>>
       \/ part = "packet" /\ Packets!Next /\ UNCHANGED <<vars, visitVars>>
       \/ part = "visit" /\ Visits!Next /\ UNCHANGED <<vars, packetVars>>

ScriptsSpec == /\ ScriptsInit /\ [][ScriptsNext]_allVars
               /\ Fairness /\ Packets!Fairness /\ Visits!Fairness

-----------------------------------------------------------------------------
(* What is checked of the three, in groups.                                *)

\* A script runs exactly when all that it requires can be loaded, and a
\* class required twice is one class.
LoadingIsSound ==
    part = "modules" => TypeOK /\ LoadsIffResolvable /\ ClassIsUnique

\* No layer is dissected twice, no namespace of a stored packet is passed
\* over, and with the shipped scripts no layer and no stream is lost.
WalkIsSound ==
    part = "packet" =>
        Packets!TypeOK /\ Packets!EveryKeyOnce /\ Packets!NothingIsLost

\* Each stream script object sees one stream, whole and in order, and
\* between two items an entry belongs to a stream that is open.
VisitIsSound ==
    part = "visit" =>
        Visits!TypeOK /\ Visits!ObjectsSeeOneStream /\ Visits!EntriesAreOpen

\* Loading, the walk over a packet's layers and every visit come to an end, and
\* what was visited is announced, as long as the scripts add no more than
\* MaxLayers layers and MaxItems streams, in whatever order and rounds.
EngineReturns == LoadingEnds /\ Packets!WalkTerminates /\ Visits!VisitsEnd
=============================================================================
