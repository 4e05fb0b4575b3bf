---------------------------- MODULE PacketScripts ---------------------------
(***************************************************************************)
(* One packet under the dissector scripts: the walk over its layers        *)
(* (DissectorWorker and firstLayer, dispatcher.cpp) and each call of a     *)
(* script with its copies of the layers into and out of V8                 *)
(* (ScriptClass::analyze, PacketWrapper and LayerWrapper,                  *)
(* script_class.cpp).                                                      *)
(*                                                                         *)
(* A layer object is a number, a new one is larger than its parent; a      *)
(* script is what it does to the copy: it may add a layer below the one it *)
(* was given, remove one, attach a stream, rename its layer, or throw.     *)
(* Fields, payloads and the values scripts keep on a layer are left out.   *)
(***************************************************************************)
EXTENDS Integers

CONSTANTS
    Keys,        \* namespaces, as keys of Layer::layers and as Layer::ns
    FreeKeys,    \* those that scripts unlike the shipped ones may use
    MaxLayers,   \* bound on the layer objects of the packet
    MaxScripts   \* bound on the scripts registered for one namespace

BoundsAssumption ==
    FreeKeys \subseteq Keys /\ MaxLayers \in Nat \ {0} /\ MaxScripts \in Nat \ {0}

VARIABLES
    scripts,     \* how many scripts are registered for each namespace
    shipped,     \* they behave like the ones in packages/dissector
    at,          \* the parent of each layer and its key there, or Detached
    ns,          \* Layer::ns
    streams,     \* the layers with a PacketStream
    history,     \* the keys the walk has seen
    current,     \* parentLayer
    todo,        \* scripts still to call for it
    phase,       \* walking, or stored when the walk is over
    used,        \* layer objects made so far
    visits,      \* how often the walk has come to each layer
    attached     \* layers a script has attached a stream to

scriptVars == <<scripts, shipped>>
walkVars   == <<history, current, todo, phase>>
ghostVars  == <<visits, attached>>
vars == <<scriptVars, at, ns, streams, used, walkVars, ghostVars>>

Packet   == 0
Layers   == 1..MaxLayers
Detached == <<-1, "none">>

Usable == IF shipped THEN Keys ELSE FreeKeys

\* A captured packet has the raw layer that insert() adds. There is one
\* shipped script for a namespace.
Init ==
    /\ shipped \in BOOLEAN
    /\ scripts \in [Usable -> 0..(IF shipped THEN 1 ELSE MaxScripts)]
    /\ \E k \in Usable :
          /\ at = [l \in Layers |-> IF l = 1 THEN <<Packet, k>> ELSE Detached]
          /\ ns = [l \in Layers |-> k]
    /\ streams = {} /\ history = {} /\ current = Packet /\ todo = 0
    /\ phase = "walking" /\ used = 1
    /\ visits = [l \in Layers |-> 0] /\ attached = {}

Key(l) == at[l][2]

\* Layers whose parents are among them, or the packet itself.
Rooted(layers) ==
    \A l \in layers : at[l] # Detached /\ (at[l][1] = Packet \/ at[l][1] \in layers)

InTree == UNION {layers \in SUBSET Layers : Rooted(layers)}

\* Mutation: only the children of the packet are looked at.
UnseenTop == {l \in InTree : Key(l) \notin history /\ at[l][1] = Packet}

\* What firstLayer can return: the first layer on a path whose key is not in
\* the history; the order within one map is the map's.
Unseen == {l \in Layers : Key(l) \notin history /\
              \E path \in SUBSET Layers :
                 l \in path /\ Rooted(path) /\ \A m \in path \ {l} : Key(m) \in history}

-----------------------------------------------------------------------------
(* The walk.                                                               *)

NextLayer ==
    /\ phase = "walking" /\ todo = 0
    /\ \E l \in Unseen :
          /\ current' = l
          /\ history' = history \cup {Key(l)}
          /\ todo' = scripts[ns[l]]
          /\ visits' = [visits EXCEPT ![l] = @ + 1]
    /\ UNCHANGED <<scriptVars, at, ns, streams, used, phase, attached>>

WalkEnds ==
    /\ phase = "walking" /\ todo = 0 /\ Unseen = {}
    /\ phase' = "stored"
    /\ UNCHANGED <<scriptVars, at, ns, streams, used, history, current, todo, ghostVars>>

-----------------------------------------------------------------------------
(* One call of a script.                                                   *)

\* syncToScript hands the layer object over in place of each of its streams.
ToScript(layersWithStream) == {}

\* Mutation: the streams are read back before the script's are looked at.
FromScriptGiven(given, pushed) == given

\* syncFromScript keeps the PacketStreams it finds, so only what the script
\* has attached itself.
FromScript(given, pushed) == given \cup pushed

\* A new namespace is written to the layer at once, not when the script ends.
Renamed == {ns} \cup IF shipped THEN {} ELSE {[ns EXCEPT ![current] = k] : k \in FreeKeys}

\* Mutation: a script that fails is called again.
CalledAgain == phase = "walking" /\ todo > 0 /\ todo' = todo

\* Mutation: the script after the one called is passed over.
CalledSkipping == phase = "walking" /\ todo > 0 /\ todo' = todo - 2

Called == phase = "walking" /\ todo > 0 /\ todo' = todo - 1

\* The layer was removed by an earlier script for it.
WrongParent ==
    /\ Called /\ current \notin InTree
    /\ UNCHANGED <<scriptVars, at, ns, streams, used, history, current, phase, ghostVars>>

Throws ==
    /\ Called /\ current \in InTree
    /\ ns' \in Renamed
    /\ UNCHANGED <<scriptVars, at, streams, used, history, current, phase, ghostVars>>

\* A script's new layer replaces a layer with its key below the same parent.
\* The shipped scripts give a layer a longer namespace than its parent's.
NewKeys == IF shipped THEN Keys \ {Key(l) : l \in InTree} ELSE FreeKeys
Added(k) ==
    LET freed == [l \in Layers |-> IF at[l] = <<current, k>> THEN Detached ELSE at[l]]
    IN  [freed EXCEPT ![used + 1] = <<current, k>>]

Adds == /\ used < MaxLayers
        /\ used' = used + 1
        /\ \E k \in NewKeys, n \in Renamed :
              at' = Added(k) /\ ns' = [n EXCEPT ![used + 1] = k]

Removes == /\ ~shipped
           /\ \E l \in InTree : at' = [at EXCEPT ![l] = Detached]
           /\ ns' \in Renamed
           /\ UNCHANGED used

LeavesLayers == ns' \in Renamed /\ UNCHANGED <<at, used>>

\* The shipped scripts attach a stream to a new layer that no script takes.
MayAttach == IF shipped THEN {l \in {used'} : used' > used /\ scripts[ns'[l]] = 0}
                        ELSE {current, used'}

Succeeds ==
    /\ Called /\ current \in InTree
    /\ Adds \/ Removes \/ LeavesLayers
    /\ \E pushed \in {{}} \cup {{l} : l \in MayAttach} :
          /\ streams' = FromScript(ToScript(streams), pushed)
          /\ attached' = attached \cup pushed
    /\ UNCHANGED <<scriptVars, history, current, phase, visits>>

-----------------------------------------------------------------------------
Terminated == phase = "stored" /\ UNCHANGED vars

Call == WrongParent \/ Throws \/ Succeeds

Next == \/ NextLayer
        \/ WalkEnds
        \/ Call
        \/ Terminated

Spec == Init /\ [][Next]_vars

\* The thread goes on, and no script runs for ever.
Fairness == WF_vars(NextLayer \/ WalkEnds \/ Call)
FairSpec == Spec /\ Fairness

-----------------------------------------------------------------------------
TypeOK ==
    /\ scripts \in [Usable -> 0..MaxScripts] /\ shipped \in BOOLEAN
    /\ at \in [Layers -> ({Packet} \cup Layers) \X Keys \cup {Detached}]
    /\ \A l \in Layers : at[l][1] < l
    /\ ns \in [Layers -> Keys]
    /\ streams \subseteq Layers /\ attached \subseteq Layers
    /\ history \subseteq Keys
    /\ current \in {Packet} \cup Layers
    /\ todo \in 0..MaxScripts
    /\ phase \in {"walking", "stored"}
    /\ used \in Layers
    /\ visits \in [Layers -> Nat]

\* Whatever the scripts add, remove, replace or rename during the walk, no
\* layer is dissected twice, and when the packet is stored no namespace in it
\* was passed over.
EveryKeyOnce ==
    /\ \A l \in Layers : visits[l] <= 1
    /\ phase = "stored" => \A l \in InTree : Key(l) \in history

\* With scripts like the shipped ones every layer itself is dissected, and the
\* stream thread sees every stream a script has attached: reading a packet
\* back from a script drops the streams of scripts before it.
NothingIsLost ==
    shipped /\ phase = "stored" =>
        \A l \in InTree : visits[l] = 1 /\ (l \in attached => l \in streams)

\* The walk comes to an end although every script may add layers.
WalkTerminates == <>[](phase = "stored")
=============================================================================
