----------------------------- MODULE ScriptProofs ---------------------------
(***************************************************************************)
(* Proofs about the script engine: the walk over the layers of a packet    *)
(* (PacketScripts), how a script and what it requires are loaded           *)
(* (ScriptModules), and what the stream scripts see of the streams         *)
(* (StreamVisit); for any number of layers, scripts, modules, namespaces,  *)
(* streams and packets.                                                    *)
(***************************************************************************)
EXTENDS MCScripts, FiniteSetTheorems, WellFoundedInduction, TLAPS

\* A set of natural numbers that is not empty has a least member.
LEMMA Least ==
    ASSUME NEW S, S \subseteq Nat, S # {}
    PROVE  \E n \in S : \A m \in S : n <= m
<1> DEFINE R == OpToRel(<, Nat)
<1>1. \E n \in S : \A m \in S : ~(<<m, n>> \in R)
  BY NatLessThanWellFounded, WFMin
<1>2. \A m, n \in Nat : m < n => <<m, n>> \in R
  BY DEF OpToRel
<1> HIDE DEF R
<1>3. PICK n \in S : \A m \in S : ~(<<m, n>> \in R)
  BY <1>1
<1>4. ASSUME NEW m \in S  PROVE n <= m
  <2>1. m \in Nat /\ n \in Nat
    OBVIOUS
  <2>2. m < n => <<m, n>> \in R
    BY <1>2, <2>1
  <2>3. ~(m < n)
    BY <1>3, <2>2
  <2> QED  BY <2>1, <2>3
<1> QED  BY <1>4

-----------------------------------------------------------------------------
(* The walk.                                                               *)

\* Layer objects that are not made yet, and what was dissected.
LayersInv ==
    /\ ns \in [Packets!Layers -> Packets!Usable]
    /\ current <= used
    /\ \A l \in Packets!Layers : l > used => at[l] = Packets!Detached /\ visits[l] = 0

\* A layer is dissected under a key that the walk has not seen; a layer that
\* is taken out does not come back.
VisitsInv ==
    \A l \in Packets!Layers :
        /\ visits[l] <= 1
        /\ visits[l] = 1 /\ at[l] # Packets!Detached => Packets!Key(l) \in history

StoredInv ==
    walkPhase = "stored" => \A l \in Packets!InTree : Packets!Key(l) \in history

\* Scripts like the shipped ones build one layer upon the other.
ChainInv ==
    /\ \A l \in 1..used : at[l] # Packets!Detached /\ at[l][1] = l - 1 /\ ns[l] = Packets!Key(l)
    /\ \A l, m \in 1..used : Packets!Key(l) = Packets!Key(m) => l = m

\* Of the chain, one layer at most is not dissected yet, and only the last
\* one can have a stream.
ShippedInv ==
    /\ ChainInv
    /\ \A k \in Packets!Usable : scripts[k] <= 1
    /\ used <= current + 1
    /\ \A l \in 1..current : visits[l] = 1
    /\ history = {Packets!Key(l) : l \in 1..current}
    /\ todo > 0 => current = used /\ todo = 1 /\ scripts[ns[current]] = 1
    /\ attached # {} => attached = {used} /\ streams = {used} /\ scripts[ns[used]] = 0
    /\ walkPhase = "stored" => current = used

WalkInv ==
    /\ Packets!TypeOK /\ LayersInv /\ VisitsInv /\ StoredInv
    /\ shipped => ShippedInv

LEMMA TreeLayers ==
    ASSUME NEW l \in Packets!InTree
    PROVE  l \in Packets!Layers /\ at[l] # Packets!Detached
BY DEF Packets!InTree, Packets!Rooted

\* When nothing is left to see, every layer's key has been seen: of the others
\* the first one would have a path to it.
LEMMA AllSeen ==
    ASSUME Packets!TypeOK, Packets!Unseen = {}
    PROVE  \A l \in Packets!InTree : Packets!Key(l) \in history
<1> DEFINE missed == {l \in Packets!InTree : Packets!Key(l) \notin history}
<1> SUFFICES ASSUME missed # {}  PROVE FALSE
  OBVIOUS
<1>1. Packets!Layers \subseteq Nat
  BY DEF Packets!Layers
<1>2. missed \subseteq Nat
  BY <1>1, TreeLayers
<1>3. PICK l \in missed : \A m \in missed : l <= m
  <2> HIDE DEF missed
  <2> QED  BY <1>2, Least
<1>4. PICK layers \in SUBSET Packets!Layers : l \in layers /\ Packets!Rooted(layers)
  BY <1>3 DEF Packets!InTree
<1> DEFINE path == {m \in layers : m <= l}
<1>5. l \in Packets!Layers /\ l \in path /\ path \in SUBSET Packets!Layers
  <2>1. l <= l
    BY <1>1, <1>4
  <2> QED  BY <1>4, <2>1
<1>6. Packets!Rooted(path)
  <2> SUFFICES ASSUME NEW m \in path
               PROVE  at[m] # Packets!Detached
                      /\ (at[m][1] = Packets!Packet \/ at[m][1] \in path)
    BY DEF Packets!Rooted
  <2>1. m \in Packets!Layers /\ m <= l
    BY <1>4
  <2>2. at[m] # Packets!Detached /\ (at[m][1] = Packets!Packet \/ at[m][1] \in layers)
    BY <1>4 DEF Packets!Rooted
  <2>3. at[m][1] < m
    BY <2>1 DEF Packets!TypeOK
  <2>4. CASE at[m][1] \in layers
    <3>1. at[m][1] \in Nat /\ m \in Nat /\ l \in Nat
      BY <1>1, <1>4, <1>5, <2>1, <2>4
    <3> QED  BY <2>1, <2>2, <2>3, <2>4, <3>1
  <2> QED  BY <2>2, <2>4
<1>7. \A m \in path \ {l} : Packets!Key(m) \in history
  <2> SUFFICES ASSUME NEW m \in path, m # l, Packets!Key(m) \notin history
               PROVE  FALSE
    OBVIOUS
  <2>1. m \in Packets!InTree
    BY <1>4 DEF Packets!InTree
  <2>2. l <= m
    BY <1>3, <2>1
  <2>3. m <= l /\ m \in Nat /\ l \in Nat
    BY <1>1, <1>4, <1>5
  <2> QED  BY <2>2, <2>3
<1> HIDE DEF path
<1>8. l \in Packets!Unseen
  BY <1>3, <1>5, <1>6, <1>7 DEF Packets!Unseen
<1> QED  BY <1>8

\* What can be seen is in the tree and was not dissected.
LEMMA UnseenFacts ==
    ASSUME NEW l \in Packets!Unseen
    PROVE  /\ l \in Packets!Layers /\ at[l] # Packets!Detached
           /\ Packets!Key(l) \notin history
BY DEF Packets!Unseen, Packets!Rooted

LEMMA ChainIsTree ==
    ASSUME Packets!TypeOK, ChainInv
    PROVE  1..used \subseteq Packets!InTree
<1>1. used \in Packets!Layers /\ MaxLayers \in Nat
  BY ScriptsAssumption DEF Packets!TypeOK, Packets!BoundsAssumption
<1>2. 1..used \in SUBSET Packets!Layers
  BY <1>1 DEF Packets!Layers
<1>3. Packets!Rooted(1..used)
  <2> SUFFICES ASSUME NEW l \in 1..used
               PROVE  at[l] # Packets!Detached
                      /\ (at[l][1] = Packets!Packet \/ at[l][1] \in 1..used)
    BY DEF Packets!Rooted
  <2>1. at[l] # Packets!Detached /\ at[l][1] = l - 1
    BY DEF ChainInv
  <2>2. l - 1 = 0 \/ l - 1 \in 1..used
    BY <1>1 DEF Packets!Layers
  <2> QED  BY <2>1, <2>2 DEF Packets!Packet
<1> QED  BY <1>2, <1>3 DEF Packets!InTree

LEMMA WalkInit == Packets!Init => WalkInv
<1> SUFFICES ASSUME Packets!Init  PROVE WalkInv
  OBVIOUS
<1> USE ScriptsAssumption DEF Packets!BoundsAssumption, Packets!Init
<1>1. PICK k \in Packets!Usable :
         /\ at = [l \in Packets!Layers |->
                     IF l = 1 THEN <<Packets!Packet, k>> ELSE Packets!Detached]
         /\ ns = [l \in Packets!Layers |-> k]
  OBVIOUS
<1>2. 1 \in Packets!Layers /\ Packets!Layers \subseteq Nat \ {0} /\ Packets!Usable \subseteq Keys
  BY DEF Packets!Layers, Packets!Usable
<1>3. Packets!Packet = 0 /\ Packets!Detached = <<-1, "none">>
  BY DEF Packets!Packet, Packets!Detached
<1>4. at[1] = <<0, k>> /\ \A l \in Packets!Layers : l # 1 => at[l] = Packets!Detached
  BY <1>1, <1>2, <1>3
<1>5. <<0, k>> # Packets!Detached
  BY <1>3
<1>6. Packets!TypeOK
  <2>1. at \in [Packets!Layers -> ({Packets!Packet} \cup Packets!Layers) \X Keys
                                      \cup {Packets!Detached}]
    BY <1>1, <1>2
  <2>2. \A l \in Packets!Layers : at[l][1] < l
    BY <1>2, <1>3, <1>4
  <2>3. ns \in [Packets!Layers -> Keys] /\ visits \in [Packets!Layers -> Nat]
    BY <1>1, <1>2
  <2>4. scripts \in [Packets!Usable -> 0..MaxScripts]
    OBVIOUS
  <2>5. current \in {Packets!Packet} \cup Packets!Layers /\ todo \in 0..MaxScripts
    OBVIOUS
  <2>6. used \in Packets!Layers
    BY <1>2
  <2> QED  BY <2>1, <2>2, <2>3, <2>4, <2>5, <2>6 DEF Packets!TypeOK
<1>7. LayersInv
  BY <1>1, <1>2, <1>3, <1>4 DEF LayersInv
<1>8. VisitsInv
  BY DEF VisitsInv
<1>9. StoredInv
  BY DEF StoredInv
<1>10. shipped => ShippedInv
  <2> SUFFICES ASSUME shipped  PROVE ShippedInv
    OBVIOUS
  <2>1. ChainInv
    BY <1>1, <1>2, <1>4, <1>5 DEF ChainInv, Packets!Key
  <2>2. \A n \in Packets!Usable : scripts[n] <= 1
    OBVIOUS
  <2>3. history = {Packets!Key(l) : l \in 1..current}
    BY <1>3
  <2>4. used <= current + 1 /\ \A l \in 1..current : visits[l] = 1
    BY <1>3
  <2> QED  BY <2>1, <2>2, <2>3, <2>4 DEF ShippedInv
<1> QED  BY <1>6, <1>7, <1>8, <1>9, <1>10 DEF WalkInv

\* Bounds and numbers.
LEMMA WalkTypes ==
    ASSUME WalkInv
    PROVE  /\ Packets!Layers \subseteq Nat \ {0} /\ Packets!Usable \subseteq Keys
           /\ FreeKeys \subseteq Packets!Usable
           /\ used \in Packets!Layers /\ current \in Nat /\ todo \in Nat
           /\ current \in {0} \cup Packets!Layers /\ current <= used
           /\ \A l \in Nat : l \in 1..used => l \in Packets!Layers
<1>1. Packets!Layers \subseteq Nat \ {0} /\ used \in Packets!Layers
  BY DEF Packets!Layers, WalkInv, Packets!TypeOK
<1>2. Packets!Usable \subseteq Keys /\ FreeKeys \subseteq Packets!Usable
  BY ScriptsAssumption DEF Packets!BoundsAssumption, Packets!Usable
<1>3. current \in {0} \cup Packets!Layers /\ todo \in Nat
  BY DEF WalkInv, Packets!TypeOK, Packets!Packet
<1>4. current <= used
  BY DEF WalkInv, LayersInv
<1>5. MaxLayers \in Nat
  BY ScriptsAssumption DEF Packets!BoundsAssumption
<1>6. \A l \in Nat : l \in 1..used => l \in Packets!Layers
  BY <1>1, <1>5 DEF Packets!Layers
<1> QED  BY <1>1, <1>2, <1>3, <1>4, <1>6

LEMMA NextLayerKeeps ==
    ASSUME WalkInv, Packets!NextLayer
    PROVE  WalkInv'
<1>1. PICK l \in Packets!Unseen :
         /\ walkPhase = "walking" /\ todo = 0
         /\ current' = l /\ history' = history \cup {Packets!Key(l)}
         /\ todo' = scripts[ns[l]] /\ visits' = [visits EXCEPT ![l] = @ + 1]
         /\ scripts' = scripts /\ shipped' = shipped /\ at' = at /\ ns' = ns
         /\ streams' = streams /\ used' = used /\ walkPhase' = walkPhase
         /\ attached' = attached
  BY DEF Packets!NextLayer, Packets!scriptVars
<1>2. l \in Packets!Layers /\ at[l] # Packets!Detached /\ Packets!Key(l) \notin history
  BY UnseenFacts
<1>3. /\ Packets!TypeOK /\ LayersInv /\ VisitsInv
      /\ Packets!Layers \subseteq Nat \ {0} /\ Packets!Usable \subseteq Keys
      /\ used \in Packets!Layers
  BY WalkTypes DEF WalkInv
<1>4. l <= used /\ l \in Nat /\ used \in Nat
  BY <1>2, <1>3 DEF LayersInv
<1>5. visits[l] = 0
  <2>1. visits[l] \in Nat /\ visits[l] <= 1 /\ visits[l] # 1
    BY <1>2, <1>3 DEF VisitsInv, Packets!TypeOK
  <2> QED  BY <2>1
<1>6. visits' \in [Packets!Layers -> Nat] /\ visits'[l] = 1
      /\ \A m \in Packets!Layers : m # l => visits'[m] = visits[m]
  BY <1>1, <1>2, <1>3, <1>5 DEF Packets!TypeOK
<1>7. \A m : Packets!Key(m)' = Packets!Key(m)
  BY <1>1 DEF Packets!Key
<1>8. Packets!Key(l) \in Keys
  <2>1. at[l] \in ({Packets!Packet} \cup Packets!Layers) \X Keys
    BY <1>2, <1>3 DEF Packets!TypeOK
  <2> QED  BY <2>1 DEF Packets!Key
<1>9. ns[l] \in Packets!Usable /\ Packets!Usable' = Packets!Usable
  BY <1>1, <1>2, <1>3 DEF LayersInv, Packets!Usable
<1>10. todo' \in 0..MaxScripts
  BY <1>1, <1>3, <1>9 DEF Packets!TypeOK
<1>11. Packets!TypeOK'
  BY <1>1, <1>2, <1>3, <1>6, <1>8, <1>9, <1>10 DEF Packets!TypeOK
<1>12. LayersInv'
  BY <1>1, <1>2, <1>3, <1>4, <1>6, <1>9 DEF LayersInv
<1>13. VisitsInv'
  BY <1>1, <1>2, <1>3, <1>6, <1>7 DEF VisitsInv
<1>14. StoredInv'
  BY <1>1 DEF StoredInv
<1>15. shipped' => ShippedInv'
  <2> SUFFICES ASSUME shipped  PROVE ShippedInv'
    BY <1>1
  <2>1. ShippedInv
    BY DEF WalkInv
  <2>2. ChainInv'
    BY <1>1, <2>1 DEF ShippedInv, ChainInv, Packets!Key
  <2>3. l = current + 1 /\ used = l /\ current \in Nat
    <3>1. current \in Nat /\ used <= current + 1
      BY <2>1, WalkTypes DEF ShippedInv
    <3>2. ~(l \in 1..current)
      BY <1>2, <2>1 DEF ShippedInv
    <3>3. l # 0
      BY <1>2, <1>3
    <3> QED  BY <1>4, <3>1, <3>2, <3>3
  <2>4. \A m \in 1..current' : visits'[m] = 1
    <3>1. \A m \in 1..current : m \in Packets!Layers
      <4>1. \A m \in 1..current : m \in Nat /\ m \in 1..used
        BY <2>3
      <4> QED  BY <4>1, WalkTypes
    <3>2. \A m \in 1..current : m # l /\ visits[m] = 1
      BY <2>1, <2>3 DEF ShippedInv
    <3>3. \A m \in 1..current : visits'[m] = 1
      BY <1>6, <3>1, <3>2
    <3>4. \A m \in 1..l : m = l \/ m \in 1..current
      BY <2>3
    <3> QED  BY <1>1, <1>6, <3>3, <3>4
  <2>5. history' = {Packets!Key(m) : m \in 1..l}
    <3>1. 1..l = 1..current \cup {l}
      BY <2>3
    <3>2. history = {Packets!Key(m) : m \in 1..current}
      BY <2>1 DEF ShippedInv
    <3> QED  BY <1>1, <3>1, <3>2
  <2>6. todo' > 0 => todo' = 1 /\ scripts[ns[l]] = 1
    <3>1. scripts[ns[l]] <= 1 /\ scripts[ns[l]] \in Nat
      BY <1>1, <1>9, <1>10, <2>1 DEF ShippedInv
    <3> QED  BY <1>1, <3>1
  <2>7. history' = {Packets!Key(m) : m \in 1..current}'
    BY <1>1, <1>7, <2>5
  <2>8. current' = used' /\ used' <= current' + 1
    BY <1>1, <2>3
  <2> QED  BY <1>1, <1>9, <2>1, <2>2, <2>4, <2>6, <2>7, <2>8 DEF ShippedInv
<1> QED  BY <1>11, <1>12, <1>13, <1>14, <1>15 DEF WalkInv

LEMMA WalkEndsKeeps ==
    ASSUME WalkInv, Packets!WalkEnds
    PROVE  WalkInv'
<1>1. /\ walkPhase = "walking" /\ Packets!Unseen = {} /\ walkPhase' = "stored"
      /\ scripts' = scripts /\ shipped' = shipped /\ at' = at /\ ns' = ns
      /\ streams' = streams /\ used' = used /\ history' = history /\ current' = current
      /\ todo' = todo /\ visits' = visits /\ attached' = attached
  BY DEF Packets!WalkEnds, Packets!scriptVars, Packets!ghostVars
<1>2. Packets!TypeOK'
  BY <1>1 DEF WalkInv, Packets!TypeOK, Packets!Usable
<1>3. LayersInv' /\ VisitsInv'
  BY <1>1 DEF WalkInv, LayersInv, VisitsInv, Packets!Usable, Packets!Key
<1>4. \A l \in Packets!InTree : Packets!Key(l) \in history
  BY <1>1, AllSeen DEF WalkInv
<1>5. Packets!InTree' = Packets!InTree /\ \A m : Packets!Key(m)' = Packets!Key(m)
  BY <1>1 DEF Packets!InTree, Packets!Rooted, Packets!Key
<1>6. StoredInv'
  BY <1>1, <1>4, <1>5 DEF StoredInv
<1>7. shipped' => ShippedInv'
  <2> SUFFICES ASSUME shipped  PROVE ShippedInv'
    BY <1>1
  <2>1. ShippedInv /\ ChainInv /\ Packets!TypeOK
    BY DEF WalkInv, ShippedInv
  <2>2. /\ current \in Nat /\ used \in Nat /\ used # 0
        /\ current <= used /\ used <= current + 1
    BY <2>1, WalkTypes DEF ShippedInv
  <2>3. used \in 1..used
    BY <2>2
  <2>4. Packets!Key(used) \in history
    BY <1>4, <2>1, <2>3, ChainIsTree
  <2>5. PICK m \in 1..current : Packets!Key(m) = Packets!Key(used)
    BY <2>1, <2>4 DEF ShippedInv
  <2>6. m \in 1..used
    BY <2>2
  <2>7. m = used
    BY <2>1, <2>3, <2>5, <2>6 DEF ChainInv
  <2>8. current = used
    BY <2>2, <2>7
  <2> QED  BY <1>1, <2>1, <2>8 DEF ShippedInv, ChainInv, Packets!Key, Packets!Usable
<1> QED  BY <1>2, <1>3, <1>6, <1>7 DEF WalkInv

\* What a call does to the layers: the types, and that a layer that is not in
\* use yet is detached and not dissected.
LEMMA RenamedIs ==
    ASSUME WalkInv, NEW n \in Packets!Renamed
    PROVE  /\ n \in [Packets!Layers -> Packets!Usable] /\ n \in [Packets!Layers -> Keys]
           /\ shipped => n = ns
<1>1. ns \in [Packets!Layers -> Packets!Usable] /\ Packets!Usable \subseteq Keys
      /\ FreeKeys \subseteq Packets!Usable
  BY WalkTypes DEF WalkInv, LayersInv
<1>2. n = ns \/ (~shipped /\ \E k \in FreeKeys : n = [ns EXCEPT ![current] = k])
  BY DEF Packets!Renamed
<1>3. n \in [Packets!Layers -> Packets!Usable]
  BY <1>1, <1>2
<1> QED  BY <1>1, <1>2, <1>3

\* The parts of the state that no call changes.
CallFrame ==
    /\ walkPhase = "walking" /\ todo > 0 /\ todo' = todo - 1
    /\ scripts' = scripts /\ shipped' = shipped /\ history' = history
    /\ current' = current /\ walkPhase' = walkPhase /\ visits' = visits

\* What any call has to keep: a layer stays where it is, is taken out, or is
\* the next object.
LEMMA CallKeepsLayers ==
    ASSUME WalkInv, CallFrame,
           ns' \in [Packets!Layers -> Packets!Usable],
           used' \in Packets!Layers, used <= used',
           at' \in [Packets!Layers -> ({Packets!Packet} \cup Packets!Layers) \X Keys
                                        \cup {Packets!Detached}],
           \A l \in Packets!Layers : at'[l][1] < l,
           \A l \in Packets!Layers : at'[l] = at[l] \/ at'[l] = Packets!Detached
                                     \/ (l = used' /\ used < used'),
           streams' \subseteq Packets!Layers, attached' \subseteq Packets!Layers
    PROVE  Packets!TypeOK' /\ LayersInv' /\ VisitsInv' /\ StoredInv'
<1>1. /\ Packets!TypeOK /\ LayersInv /\ VisitsInv
      /\ Packets!Layers \subseteq Nat \ {0} /\ Packets!Usable \subseteq Keys
      /\ used \in Packets!Layers /\ todo \in Nat /\ current \in Nat
      /\ current <= used
  BY WalkTypes DEF WalkInv
<1>2. used \in Nat /\ used' \in Nat
  BY <1>1
<1>3. todo' \in 0..MaxScripts /\ ns' \in [Packets!Layers -> Keys]
  <2>1. todo \in 0..MaxScripts /\ MaxScripts \in Nat
    BY <1>1, ScriptsAssumption DEF Packets!TypeOK, Packets!BoundsAssumption
  <2> QED  BY <1>1, <2>1 DEF CallFrame
<1>4. Packets!Usable' = Packets!Usable
  BY DEF CallFrame, Packets!Usable
<1>5. Packets!TypeOK'
  BY <1>1, <1>3, <1>4 DEF Packets!TypeOK, CallFrame
<1>6. LayersInv'
  <2>1. ASSUME NEW l \in Packets!Layers, l > used'
        PROVE  at'[l] = Packets!Detached /\ visits'[l] = 0
    <3>1. l > used /\ l # used'
      <4>1. l \in Nat /\ used <= used'
        BY <1>1
      <4> QED  BY <1>2, <2>1, <4>1
    <3>2. at[l] = Packets!Detached /\ visits[l] = 0
      BY <1>1, <3>1 DEF LayersInv
    <3> QED  BY <3>1, <3>2 DEF CallFrame
  <2>2. current' <= used'
    BY <1>1, <1>2 DEF CallFrame
  <2> QED  BY <1>4, <2>1, <2>2 DEF LayersInv
<1>7. VisitsInv'
  <2> SUFFICES ASSUME NEW l \in Packets!Layers
               PROVE  /\ visits[l] <= 1
                      /\ visits[l] = 1 /\ at'[l] # Packets!Detached => at'[l][2] \in history
    BY DEF VisitsInv, CallFrame, Packets!Key
  <2>1. visits[l] <= 1
    BY <1>1 DEF VisitsInv
  <2>2. CASE at'[l] = at[l]
    BY <1>1, <2>2 DEF VisitsInv, Packets!Key
  <2>3. CASE l = used' /\ used < used'
    <3>1. visits[l] = 0
      BY <1>1, <1>2, <2>3 DEF LayersInv
    <3> QED  BY <2>1, <3>1
  <2> QED  BY <2>1, <2>2, <2>3
<1>8. StoredInv'
  BY DEF StoredInv, CallFrame
<1> QED  BY <1>5, <1>6, <1>7, <1>8

\* A call of a shipped script comes while the chain has no layer behind the
\* current one and no stream.
LEMMA ShippedCall ==
    ASSUME WalkInv, shipped, CallFrame
    PROVE  /\ ShippedInv /\ ChainInv /\ current = used /\ todo' = 0 /\ attached = {}
           /\ current \in Nat \ {0}
<1>1. ShippedInv /\ ChainInv
  BY DEF WalkInv, ShippedInv
<1>2. current = used /\ todo = 1 /\ scripts[ns[current]] = 1
  BY <1>1 DEF ShippedInv, CallFrame
<1>3. todo' = 0
  BY <1>2 DEF CallFrame
<1>4. attached = {}
  BY <1>1, <1>2 DEF ShippedInv
<1>5. current \in Nat \ {0}
  BY <1>2, WalkTypes
<1> QED  BY <1>1, <1>2, <1>3, <1>4, <1>5

\* It leaves the chain as it is, or puts a layer with a new key at its end.
LEMMA ShippedKeeps ==
    ASSUME WalkInv, shipped, CallFrame, ChainInv', \A l \in 1..used : at'[l] = at[l],
           used' = used \/ used' = used + 1,
           attached' # {} => attached' = {used'} /\ streams' = {used'} /\ scripts[ns'[used']] = 0
    PROVE  ShippedInv'
<1>1. /\ ShippedInv /\ current = used /\ todo' = 0 /\ current \in Nat
  BY ShippedCall
<1>2. Packets!Usable' = Packets!Usable
  BY DEF CallFrame, Packets!Usable
<1>3. used' <= current' + 1
  BY <1>1 DEF CallFrame
<1>4. history' = {Packets!Key(l) : l \in 1..current}'
  <2>1. history = {at[l][2] : l \in 1..used}
    BY <1>1 DEF ShippedInv, Packets!Key
  <2>2. history = {at'[l][2] : l \in 1..used}
    BY <2>1
  <2> QED  BY <1>1, <2>2 DEF CallFrame, Packets!Key
<1> QED  BY <1>1, <1>2, <1>3, <1>4 DEF ShippedInv, CallFrame

LEMMA QuietCallKeeps ==
    ASSUME WalkInv, CallFrame, ns' \in Packets!Renamed, UNCHANGED <<at, used>>,
           streams' \subseteq Packets!Layers, attached' \subseteq Packets!Layers,
           shipped => attached' = {}
    PROVE  WalkInv'
<1>1. /\ ns' \in [Packets!Layers -> Packets!Usable]
      /\ shipped => ns' = ns
  BY RenamedIs
<1>2. Packets!TypeOK
  BY DEF WalkInv
<1>3. Packets!TypeOK' /\ LayersInv' /\ VisitsInv' /\ StoredInv'
  <2>1. used' \in Packets!Layers /\ used <= used'
    BY <1>2, WalkTypes DEF Packets!TypeOK
  <2> QED  BY <1>1, <1>2, <2>1, CallKeepsLayers DEF Packets!TypeOK
<1>4. shipped' => ShippedInv'
  <2> SUFFICES ASSUME shipped  PROVE ShippedInv'
    BY DEF CallFrame
  <2>1. ChainInv'
    BY <1>1, ShippedCall DEF ChainInv, Packets!Key
  <2> QED  BY <2>1, ShippedKeeps
<1> QED  BY <1>3, <1>4 DEF WalkInv

LEMMA WrongParentKeeps ==
    ASSUME WalkInv, Packets!WrongParent
    PROVE  WalkInv'
<1>1. /\ CallFrame /\ at' = at /\ ns' = ns /\ streams' = streams /\ used' = used
      /\ attached' = attached
  BY DEF Packets!WrongParent, Packets!Called, CallFrame, Packets!scriptVars, Packets!ghostVars
<1>2. ns' \in Packets!Renamed
  BY <1>1 DEF Packets!Renamed
<1>3. streams' \subseteq Packets!Layers /\ attached' \subseteq Packets!Layers
  BY <1>1 DEF WalkInv, Packets!TypeOK
<1>4. shipped => attached' = {}
  BY <1>1, ShippedCall
<1> QED  BY <1>1, <1>2, <1>3, <1>4, QuietCallKeeps

LEMMA ThrowsKeeps ==
    ASSUME WalkInv, Packets!Throws
    PROVE  WalkInv'
<1>1. /\ CallFrame /\ ns' \in Packets!Renamed /\ at' = at /\ streams' = streams
      /\ used' = used /\ attached' = attached
  BY DEF Packets!Throws, Packets!Called, CallFrame, Packets!scriptVars, Packets!ghostVars
<1>2. streams' \subseteq Packets!Layers /\ attached' \subseteq Packets!Layers
  BY <1>1 DEF WalkInv, Packets!TypeOK
<1>3. shipped => attached' = {}
  BY <1>1, ShippedCall
<1> QED  BY <1>1, <1>2, <1>3, QuietCallKeeps

\* What a call that succeeds does to the streams.
LEMMA PushedIs ==
    ASSUME WalkInv, Packets!Succeeds, used' \in Packets!Layers
    PROVE  \E pushed \in SUBSET Packets!Layers :
              /\ streams' = pushed /\ attached' = attached \cup pushed
              /\ shipped => \/ pushed = {}
                            \/ used' > used /\ pushed = {used'} /\ scripts[ns'[used']] = 0
<1>1. PICK pushed \in {{}} \cup {{l} : l \in Packets!MayAttach} :
         /\ streams' = Packets!FromScript(Packets!ToScript(streams), pushed)
         /\ attached' = attached \cup pushed
  BY DEF Packets!Succeeds
<1>2. streams' = pushed
  BY <1>1 DEF Packets!FromScript, Packets!ToScript
<1>3. current \in Packets!Layers
  BY TreeLayers DEF Packets!Succeeds
<1>4. CASE shipped
  <2>1. Packets!MayAttach = {l \in {used'} : used' > used /\ scripts[ns'[l]] = 0}
    BY <1>4 DEF Packets!MayAttach
  <2>2. \A l \in Packets!MayAttach : l = used' /\ used' > used /\ scripts[ns'[used']] = 0
    BY <2>1
  <2>3. pushed = {} \/ (used' > used /\ pushed = {used'} /\ scripts[ns'[used']] = 0)
    BY <2>2
  <2> QED  BY <1>1, <1>2, <2>3
<1>5. CASE ~shipped
  <2>1. Packets!MayAttach \subseteq Packets!Layers
    BY <1>3, <1>5 DEF Packets!MayAttach
  <2> QED  BY <1>1, <1>2, <1>5, <2>1
<1> QED  BY <1>4, <1>5

LEMMA AddsKeeps ==
    ASSUME WalkInv, Packets!Succeeds, Packets!Adds
    PROVE  WalkInv'
<1>1. CallFrame
  BY DEF Packets!Succeeds, Packets!Called, CallFrame, Packets!scriptVars
<1>2. PICK k \in Packets!NewKeys, n \in Packets!Renamed :
         at' = Packets!Added(k) /\ ns' = [n EXCEPT ![used + 1] = k]
  BY DEF Packets!Adds
<1>3. used < MaxLayers /\ used' = used + 1
  BY DEF Packets!Adds
<1>4. /\ Packets!TypeOK /\ LayersInv
      /\ Packets!Layers \subseteq Nat \ {0} /\ used \in Nat \ {0} /\ current \in Nat
      /\ current \in {0} \cup Packets!Layers /\ current <= used
      /\ \A l \in Nat : l \in 1..used => l \in Packets!Layers
  BY WalkTypes DEF WalkInv
<1>5. used' \in Packets!Layers /\ used < used' /\ used <= used'
  BY <1>3, <1>4, ScriptsAssumption DEF Packets!Layers, Packets!BoundsAssumption
<1>6. k \in Packets!Usable /\ k \in Keys
  BY WalkTypes DEF Packets!NewKeys, Packets!Usable
<1>7. /\ n \in [Packets!Layers -> Packets!Usable]
      /\ shipped => n = ns
  BY RenamedIs
<1>8. /\ ns' \in [Packets!Layers -> Packets!Usable] /\ ns'[used'] = k
      /\ \A l \in Packets!Layers : l # used' => ns'[l] = n[l]
  BY <1>2, <1>3, <1>5, <1>6, <1>7
<1>9. /\ at'[used'] = <<current, k>>
      /\ \A l \in Packets!Layers : l # used' =>
            at'[l] = IF at[l] = <<current, k>> THEN Packets!Detached ELSE at[l]
      /\ DOMAIN at' = Packets!Layers /\ at' = [l \in Packets!Layers |-> at'[l]]
  BY <1>2, <1>3, <1>5 DEF Packets!Added
<1>10. \A l \in Packets!Layers :
          /\ at'[l] \in ({Packets!Packet} \cup Packets!Layers) \X Keys \cup {Packets!Detached}
          /\ at'[l][1] < l
  <2> TAKE l \in Packets!Layers
  <2>1. CASE l = used'
    <3>1. at'[l] = <<current, k>> /\ current < l
      BY <1>3, <1>4, <1>9, <2>1
    <3> QED  BY <1>4, <1>6, <3>1 DEF Packets!Packet
  <2>2. CASE l # used' /\ at'[l] = at[l]
    BY <1>4, <2>2 DEF Packets!TypeOK
  <2>3. CASE at'[l] = Packets!Detached
    <3>1. Packets!Detached[1] = -1 /\ l \in Nat
      BY <1>4 DEF Packets!Detached
    <3> QED  BY <2>3, <3>1
  <2> QED  BY <1>9, <2>1, <2>2, <2>3
<1>11. PICK pushed \in SUBSET Packets!Layers :
          /\ streams' = pushed /\ attached' = attached \cup pushed
          /\ shipped => \/ pushed = {}
                        \/ used' > used /\ pushed = {used'} /\ scripts[ns'[used']] = 0
  BY <1>5, PushedIs
<1>12. Packets!TypeOK' /\ LayersInv' /\ VisitsInv' /\ StoredInv'
  <2>1. at' \in [Packets!Layers -> ({Packets!Packet} \cup Packets!Layers) \X Keys
                                     \cup {Packets!Detached}]
    BY <1>9, <1>10
  <2>2. \A l \in Packets!Layers : at'[l] = at[l] \/ at'[l] = Packets!Detached
                                   \/ (l = used' /\ used < used')
    BY <1>5, <1>9
  <2>3. streams' \subseteq Packets!Layers /\ attached' \subseteq Packets!Layers
    BY <1>4, <1>11 DEF Packets!TypeOK
  <2> QED  BY <1>1, <1>5, <1>8, <1>10, <2>1, <2>2, <2>3, CallKeepsLayers
<1>13. shipped' => ShippedInv'
  <2> SUFFICES ASSUME shipped  PROVE ShippedInv'
    BY <1>1 DEF CallFrame
  <2>1. ShippedInv /\ ChainInv /\ current = used /\ attached = {}
    BY <1>1, ShippedCall
  <2>2. ASSUME NEW l \in 1..used
        PROVE  /\ l \in Packets!Layers /\ l # used' /\ at'[l] = at[l] /\ ns'[l] = ns[l]
               /\ at[l][2] # k
    <3>1. l \in Packets!Layers /\ l # used' /\ l \in Nat
      BY <1>3, <1>4
    <3>2. at[l][1] = l - 1
      BY <2>1 DEF ChainInv
    <3>3. at[l] # <<current, k>>
      BY <1>4, <2>1, <3>1, <3>2
    <3>4. ns'[l] = ns[l]
      BY <1>7, <1>8, <3>1
    <3>5. Packets!Key(l) # k
      BY <1>4, <2>1, ChainIsTree DEF Packets!NewKeys
    <3> QED  BY <1>9, <3>1, <3>3, <3>4, <3>5 DEF Packets!Key
  <2>3. ChainInv'
    <3>1. \A l \in 1..used' : l = used' \/ l \in 1..used
      BY <1>3, <1>4
    <3>2. at'[used'] # Packets!Detached /\ at'[used'][1] = used' - 1 /\ at'[used'][2] = k
      BY <1>3, <1>4, <1>9, <2>1 DEF Packets!Detached
    <3>3. \A l \in 1..used' : at'[l] # Packets!Detached /\ at'[l][1] = l - 1 /\ ns'[l] = at'[l][2]
      <4> TAKE l \in 1..used'
      <4>1. CASE l = used'
        BY <1>8, <3>2, <4>1
      <4>2. CASE l \in 1..used
        BY <2>1, <2>2, <4>2 DEF ChainInv, Packets!Key
      <4> QED  BY <3>1, <4>1, <4>2
    <3>4. \A l, m \in 1..used' : at'[l][2] = at'[m][2] => l = m
      <4> TAKE l, m \in 1..used'
      <4>1. CASE l \in 1..used /\ m \in 1..used
        BY <2>1, <2>2, <4>1 DEF ChainInv, Packets!Key
      <4>2. CASE l = used' /\ m \in 1..used
        BY <2>2, <3>2, <4>2
      <4>3. CASE l \in 1..used /\ m = used'
        BY <2>2, <3>2, <4>3
      <4> QED  BY <3>1, <4>1, <4>2, <4>3
    <3> QED  BY <3>3, <3>4 DEF ChainInv, Packets!Key
  <2>4. attached' # {} =>
           attached' = {used'} /\ streams' = {used'} /\ scripts[ns'[used']] = 0
    BY <1>11, <2>1
  <2> QED  BY <1>1, <1>3, <2>2, <2>3, <2>4, ShippedKeeps
<1> QED  BY <1>12, <1>13 DEF WalkInv

LEMMA SucceedsKeeps ==
    ASSUME WalkInv, Packets!Succeeds
    PROVE  WalkInv'
<1>1. CallFrame
  BY DEF Packets!Succeeds, Packets!Called, CallFrame, Packets!scriptVars
<1>2. CASE Packets!Removes
  <2>1. ~shipped /\ used' = used /\ ns' \in Packets!Renamed
    BY <1>2 DEF Packets!Removes
  <2>2. PICK l \in Packets!InTree : at' = [at EXCEPT ![l] = Packets!Detached]
    BY <1>2 DEF Packets!Removes
  <2>3. /\ Packets!TypeOK /\ used \in Packets!Layers /\ used <= used
        /\ Packets!Layers \subseteq Nat \ {0}
    BY WalkTypes DEF WalkInv, Packets!TypeOK
  <2>4. PICK pushed \in SUBSET Packets!Layers :
           streams' = pushed /\ attached' = attached \cup pushed
    BY <2>1, <2>3, PushedIs
  <2>5. /\ at' \in [Packets!Layers -> ({Packets!Packet} \cup Packets!Layers) \X Keys
                                       \cup {Packets!Detached}]
        /\ \A m \in Packets!Layers : at'[m] = at[m] \/ at'[m] = Packets!Detached
    BY <2>2, <2>3 DEF Packets!TypeOK
  <2>6. \A m \in Packets!Layers : at'[m][1] < m
    <3>1. Packets!Detached[1] = -1
      BY DEF Packets!Detached
    <3> QED  BY <2>3, <2>5, <3>1 DEF Packets!TypeOK
  <2>7. streams' \subseteq Packets!Layers /\ attached' \subseteq Packets!Layers
    BY <2>3, <2>4 DEF Packets!TypeOK
  <2>8. Packets!TypeOK' /\ LayersInv' /\ VisitsInv' /\ StoredInv'
    BY <1>1, <2>1, <2>3, <2>5, <2>6, <2>7, RenamedIs, CallKeepsLayers
  <2> QED  BY <1>1, <2>1, <2>8 DEF WalkInv, CallFrame
<1>3. CASE Packets!LeavesLayers
  <2>1. ns' \in Packets!Renamed /\ at' = at /\ used' = used
    BY <1>3 DEF Packets!LeavesLayers
  <2>2. used \in Packets!Layers /\ used \in Nat /\ Packets!TypeOK
    BY WalkTypes DEF WalkInv
  <2>3. PICK pushed \in SUBSET Packets!Layers :
           /\ streams' = pushed /\ attached' = attached \cup pushed
           /\ shipped => pushed = {} \/ used' > used
    BY <2>1, <2>2, PushedIs
  <2>4. streams' \subseteq Packets!Layers /\ attached' \subseteq Packets!Layers
    BY <2>2, <2>3 DEF Packets!TypeOK
  <2>5. shipped => attached' = {}
    <3>1. ~(used' > used)
      BY <2>1, <2>2
    <3> QED  BY <1>1, <2>3, <3>1, ShippedCall
  <2> QED  BY <1>1, <2>1, <2>4, <2>5, QuietCallKeeps
<1> QED  BY <1>2, <1>3, AddsKeeps DEF Packets!Succeeds

-----------------------------------------------------------------------------
LEMMA WalkStutters ==
    ASSUME WalkInv, UNCHANGED packetVars
    PROVE  WalkInv'
<1>1. /\ scripts' = scripts /\ shipped' = shipped /\ at' = at /\ ns' = ns
      /\ streams' = streams /\ used' = used /\ history' = history /\ current' = current
      /\ todo' = todo /\ walkPhase' = walkPhase /\ visits' = visits /\ attached' = attached
  BY DEF packetVars
<1>2. Packets!TypeOK' /\ LayersInv' /\ VisitsInv'
  BY <1>1 DEF WalkInv, Packets!TypeOK, LayersInv, VisitsInv, Packets!Usable, Packets!Key
<1>3. StoredInv'
  BY <1>1 DEF WalkInv, StoredInv, Packets!InTree, Packets!Rooted, Packets!Key
<1>4. shipped' => ShippedInv'
  BY <1>1 DEF WalkInv, ShippedInv, ChainInv, Packets!Usable, Packets!Key
<1> QED  BY <1>2, <1>3, <1>4 DEF WalkInv

LEMMA WalkNext ==
    (part = "packet" => WalkInv) /\ [ScriptsNext]_allVars => (part = "packet" => WalkInv)'
<1> SUFFICES ASSUME part = "packet" => WalkInv, [ScriptsNext]_allVars, part' = "packet"
             PROVE  WalkInv'
  OBVIOUS
<1>1. part = "packet" /\ WalkInv
  BY DEF ScriptsNext, allVars
<1>2. CASE UNCHANGED packetVars
  BY <1>1, <1>2, WalkStutters
<1>3. CASE Packets!Next
  <2>1. CASE Packets!Terminated
    <3>1. UNCHANGED packetVars
      BY <2>1 DEF Packets!Terminated, Packets!vars, Packets!scriptVars, Packets!walkVars,
                  Packets!ghostVars, packetVars
    <3> QED  BY <1>1, <3>1, WalkStutters
  <2> QED  BY <1>1, <1>3, <2>1, NextLayerKeeps, WalkEndsKeeps, WrongParentKeeps, ThrowsKeeps,
              SucceedsKeeps
           DEF Packets!Next, Packets!Call
<1> QED  BY <1>1, <1>2, <1>3 DEF ScriptsNext, allVars

LEMMA WalkInvSound == (part = "packet" => WalkInv) => WalkIsSound
<1> SUFFICES ASSUME WalkInv  PROVE Packets!EveryKeyOnce /\ Packets!NothingIsLost
  BY DEF WalkIsSound, WalkInv
<1>1. Packets!EveryKeyOnce
  BY DEF WalkInv, VisitsInv, StoredInv, Packets!EveryKeyOnce
<1>2. Packets!NothingIsLost
  <2> SUFFICES ASSUME shipped, walkPhase = "stored", NEW l \in Packets!InTree
               PROVE  visits[l] = 1 /\ (l \in attached => l \in streams)
    BY DEF Packets!NothingIsLost
  <2>1. ShippedInv /\ current = used
    BY DEF WalkInv, ShippedInv
  <2>2. l \in 1..used
    <3>1. l \in Packets!Layers /\ at[l] # Packets!Detached
      BY TreeLayers
    <3>2. ~(l > used)
      BY <3>1 DEF WalkInv, LayersInv
    <3>3. l \in Nat \ {0} /\ used \in Nat
      BY <3>1, WalkTypes
    <3> QED  BY <3>2, <3>3
  <2> QED  BY <2>1, <2>2 DEF ShippedInv
<1> QED  BY <1>1, <1>2

\* For any scripts, which may add, remove, replace and rename layers and may
\* throw: DissectorWorker dissects no layer twice and stores a packet only
\* when it has come to every namespace in it; scripts like the shipped ones
\* lose no layer and no stream.
THEOREM WalkSound == ScriptsSpec => []WalkIsSound
<1>1. ScriptsInit => (part = "packet" => WalkInv)
  BY WalkInit DEF ScriptsInit
<1> QED  BY <1>1, WalkNext, WalkInvSound, PTL DEF ScriptsSpec

-----------------------------------------------------------------------------
(* Loading.                                                                *)

LEMMA OneOrMore == ASSUME NEW m \in Nat, m # 0  PROVE m = 1 \/ m > 1
OBVIOUS

\* What the source of a frame requires.
Needs(name) == IF name = Script THEN wants ELSE requires[name]

SourcesInv ==
    /\ requires \in [Names -> SUBSET Names] /\ exporting \subseteq Names
    /\ registered \subseteq Names /\ wants \subseteq Names /\ streaming \in BOOLEAN

\* When the modules are there, and what runs.
PhaseInv ==
    /\ modules = {} \/ modules = registered
    /\ ~streaming /\ phase # "start" => modules = registered
    /\ streaming /\ phase # "ready" => modules = {} /\ cache = {}
    /\ unpacking # Nothing => phase = "ready" /\ modules = registered
    /\ phase = "start" => stack = <<>> /\ cache = {}
    /\ phase = "loading" => stack # <<>>
    /\ stack # <<>> => phase = "loading" \/ unpacking # Nothing

\* Each source on the stack waits for the one above it, and has what it
\* required before; a class that is evaluated is not cached.
StackInv ==
    /\ stack # <<>> => stack[1].name = IF unpacking # Nothing THEN unpacking ELSE Script
    /\ \A i \in 1..Len(stack) :
          /\ stack[i].todo \subseteq Needs(stack[i].name)
          /\ Needs(stack[i].name) \ stack[i].todo \subseteq cache
          /\ stack[i].name # Script => stack[i].name \in modules \ cache
    /\ \A i \in 1..Len(stack) : i > 1 => stack[i].name \in stack[i - 1].todo

\* A cached class has all that it requires, and does not need itself.
ClassesInv ==
    \A n \in cache : /\ n \in registered \cap exporting
                     /\ requires[n] \subseteq cache
                     /\ n \notin Reached(requires[n])

\* What the end of an evaluation says of its sources.
OutcomeInv ==
    /\ phase = "ready" => wants \subseteq cache /\ (streaming => wants = {})
    /\ phase = "failed" => ~(IF streaming THEN wants = {} ELSE Resolvable(wants))
    /\ unpacking # Nothing /\ stack = <<>> => unpacking \in cache \/ unpacking \notin registered

LoadInv ==
    TypeOK /\ SourcesInv /\ PhaseInv /\ StackInv /\ ClassesInv /\ OutcomeInv /\ ClassIsUnique

-----------------------------------------------------------------------------
(* What names reach.                                                       *)

LEMMA ReachedIsLeast ==
    ASSUME NEW names, NEW all \in SUBSET Names, names \subseteq all, Closed(all)
    PROVE  Reached(names) \subseteq all
BY DEF Reached

LEMMA ReachedHas ==
    ASSUME NEW names \in SUBSET Names
    PROVE  names \subseteq Reached(names)
BY DEF Reached

\* A registered class brings all that its source reaches.
LEMMA ReachedGoesOn ==
    ASSUME NEW names, NEW n \in Reached(names), n \in registered
    PROVE  Reached(requires[n]) \subseteq Reached(names)
<1> SUFFICES ASSUME NEW m \in Reached(requires[n]), NEW all \in SUBSET Names,
                    names \subseteq all, Closed(all)
             PROVE  m \in all
  BY DEF Reached
<1>1. n \in all
  BY DEF Reached
<1>2. requires[n] \subseteq all
  BY <1>1 DEF Closed
<1> QED  BY <1>2, ReachedIsLeast

\* What is cached can be resolved.
LEMMA CacheResolves ==
    ASSUME cache \subseteq Names, ClassesInv, NEW names \in SUBSET cache
    PROVE  Reached(names) \subseteq cache /\ Resolvable(names)
<1>1. Closed(cache)
  BY DEF Closed, ClassesInv
<1>2. Reached(names) \subseteq cache
  BY <1>1, ReachedIsLeast
<1> QED  BY <1>2 DEF Resolvable, ClassesInv

\* The sources stay, so what they reach stays.
LEMMA ReachedStays ==
    ASSUME UNCHANGED sources
    PROVE  /\ \A n \in Names : Reached(requires[n])' = Reached(requires[n])
           /\ Resolvable(wants)' <=> Resolvable(wants)
<1>1. requires' = requires /\ exporting' = exporting /\ registered' = registered
      /\ wants' = wants
  BY DEF sources
<1>2. \A n \in Names : Reached(requires[n])' = Reached(requires[n])
  BY <1>1 DEF Reached, Closed
<1>3. Reached(wants)' = Reached(wants)
  BY <1>1 DEF Reached, Closed
<1>4. Reached(wants) \subseteq Names
  BY DEF Reached
<1>5. Resolvable(wants)' <=> Resolvable(wants)
  BY <1>1, <1>2, <1>3, <1>4 DEF Resolvable
<1> QED  BY <1>2, <1>5

-----------------------------------------------------------------------------
(* The stack.                                                              *)

Frames == [name : Names \cup {Script}, todo : SUBSET Names]

LEMMA StackTypes ==
    ASSUME LoadInv
    PROVE  /\ stack \in Seq(Frames) /\ Len(stack) \in Nat
           /\ \A i \in 1..Len(stack) :
                 stack[i] \in Frames /\ stack[i].name \in Names \cup {Script}
                 /\ stack[i].todo \subseteq Names
           /\ \A i \in 1..Len(stack) : i > 1 => stack[i].name \in Names /\ stack[i].name # Script
           /\ \A i \in 1..Len(stack) : stack[i].name # Script =>
                 stack[i].name \in Names /\ stack[i].name \in registered \ cache
           /\ stack # <<>> => Len(stack) \in 1..Len(stack)
           /\ cache \subseteq Names /\ modules \subseteq registered
<1>1. stack \in Seq(Frames)
  BY DEF LoadInv, TypeOK, Frames
<1>2. Len(stack) \in Nat /\ (stack # <<>> => Len(stack) \in 1..Len(stack))
  BY <1>1
<1>3. \A i \in 1..Len(stack) : stack[i] \in Frames
  BY <1>1
<1>4. \A i \in 1..Len(stack) :
         stack[i].name \in Names \cup {Script} /\ stack[i].todo \subseteq Names
  BY <1>3 DEF Frames
<1>5. Script \notin Names
  BY DepthAssumption
<1>6. ASSUME NEW i \in 1..Len(stack), i > 1
      PROVE  stack[i].name \in Names /\ stack[i].name # Script
  <2>1. stack[i].name \in stack[i - 1].todo
    BY <1>6 DEF LoadInv, StackInv
  <2>2. i - 1 \in 1..Len(stack)
    BY <1>2, <1>6
  <2> QED  BY <1>4, <1>5, <2>1, <2>2
<1>7. cache \subseteq Names /\ modules \subseteq registered
  BY DEF LoadInv, TypeOK, PhaseInv
<1>8. \A i \in 1..Len(stack) : stack[i].name # Script =>
         stack[i].name \in Names /\ stack[i].name \in registered \ cache
  BY <1>4, <1>7 DEF LoadInv, StackInv
<1> QED  BY <1>1, <1>2, <1>3, <1>4, <1>6, <1>7, <1>8

\* A source on the stack reaches those above it: of those that are missing in
\* a closed set the first one is required by one that is in it.
LEMMA StackChain ==
    ASSUME LoadInv, NEW i \in 1..Len(stack), NEW j \in 1..Len(stack), i < j
    PROVE  stack[j].name \in Reached(Needs(stack[i].name))
<1> SUFFICES ASSUME NEW all \in SUBSET Names, Needs(stack[i].name) \subseteq all, Closed(all),
                    stack[j].name \notin all
             PROVE  FALSE
  BY StackTypes DEF Reached
<1> DEFINE missed == {k \in 1..Len(stack) : i < k /\ stack[k].name \notin all}
<1>1. missed \subseteq Nat /\ missed # {}
  OBVIOUS
<1>2. PICK k \in missed : \A m \in missed : k <= m
  <2> HIDE DEF missed
  <2> QED  BY <1>1, Least
<1>3. k \in 1..Len(stack) /\ i < k /\ stack[k].name \notin all /\ k > 1
  OBVIOUS
<1>4. k - 1 \in 1..Len(stack) /\ k \in Nat /\ i <= k - 1
  BY <1>3, StackTypes
<1>5. stack[k].name \in Needs(stack[k - 1].name)
  BY <1>3, <1>4 DEF LoadInv, StackInv
<1>6. CASE k - 1 = i
  BY <1>3, <1>5, <1>6
<1>7. CASE k - 1 > i
  <2>1. k - 1 \notin missed
    <3>1. ~(k <= k - 1)
      BY <1>4
    <3> HIDE DEF missed
    <3> QED  BY <1>2, <3>1
  <2>2. stack[k - 1].name \in all
    BY <1>4, <1>7, <2>1
  <2>3. stack[k - 1].name # Script
    BY <1>4, <1>7, StackTypes
  <2>4. stack[k - 1].name \in registered
    BY <1>4, <2>3, StackTypes
  <2>5. requires[stack[k - 1].name] \subseteq all
    BY <2>2, <2>4 DEF Closed
  <2> QED  BY <1>3, <1>5, <2>3, <2>5 DEF Needs
<1> QED  BY <1>4, <1>6, <1>7

LEMMA NeedsTypes ==
    ASSUME LoadInv, NEW i \in 1..Len(stack)
    PROVE  Needs(stack[i].name) \subseteq Names
<1>1. stack[i].name \in Names \cup {Script}
  BY StackTypes
<1> QED  BY <1>1 DEF LoadInv, SourcesInv, Needs

\* So it reaches what the topmost one is about to require.
LEMMA TopChain ==
    ASSUME LoadInv, NEW i \in 1..Len(stack), NEW name \in Top.todo
    PROVE  name \in Reached(Needs(stack[i].name)) /\ name \in Names
<1>1. Len(stack) \in 1..Len(stack) /\ i <= Len(stack) /\ i \in Nat /\ Len(stack) \in Nat
  BY StackTypes
<1>2. name \in Needs(stack[Len(stack)].name)
  BY <1>1 DEF LoadInv, StackInv, Top
<1>3. Needs(stack[Len(stack)].name) \subseteq Names
  BY <1>1, NeedsTypes
<1>4. name \in Reached(Needs(stack[Len(stack)].name))
  BY <1>2, <1>3, ReachedHas
<1>5. CASE i = Len(stack)
  BY <1>2, <1>3, <1>4, <1>5
<1>6. CASE i < Len(stack)
  <2>1. stack[Len(stack)].name \in Reached(Needs(stack[i].name))
    BY <1>1, <1>6, StackChain
  <2>2. stack[Len(stack)].name # Script
    <3>1. Len(stack) > 1
      BY <1>1, <1>6
    <3> QED  BY <1>1, <3>1, StackTypes
  <2>3. stack[Len(stack)].name \in registered
    BY <1>1, <2>2, StackTypes
  <2>4. Reached(requires[stack[Len(stack)].name]) \subseteq Reached(Needs(stack[i].name))
    BY <2>1, <2>3, ReachedGoesOn
  <2> QED  BY <1>2, <1>3, <1>4, <2>2, <2>4 DEF Needs
<1> QED  BY <1>1, <1>5, <1>6

\* What the evaluation is for.
Roots == IF unpacking # Nothing THEN {unpacking} ELSE wants

LEMMA RootChain ==
    ASSUME LoadInv, NEW j \in 1..Len(stack), stack[j].name # Script
    PROVE  stack[j].name \in Reached(Roots)
<1>1. /\ Len(stack) \in Nat /\ j \in Nat /\ j >= 1 /\ 1 \in 1..Len(stack)
      /\ Nothing # Script /\ Script \notin Names /\ Nothing \notin Names
      /\ unpacking \in Names \cup {Nothing}
  <2>1. Len(stack) \in Nat /\ j \in Nat /\ j >= 1 /\ 1 \in 1..Len(stack)
    BY StackTypes
  <2>2. Script \notin Names /\ Nothing \notin Names
    BY DepthAssumption
  <2>3. Nothing # Script
    BY DEF Nothing, Script
  <2>4. unpacking \in Names \cup {Nothing}
    BY DEF LoadInv, TypeOK
  <2> QED  BY <2>1, <2>2, <2>3, <2>4
<1>2. stack[1].name = IF unpacking # Nothing THEN unpacking ELSE Script
  <2>1. stack # <<>>
    BY <1>1
  <2> QED  BY <2>1 DEF LoadInv, StackInv
<1>3. CASE unpacking = Nothing
  <2>1. j > 1
    <3>1. j # 1
      BY <1>2, <1>3
    <3> QED  BY <1>1, <3>1
  <2>2. stack[j].name \in Reached(Needs(stack[1].name))
    BY <1>1, <2>1, StackChain
  <2> QED  BY <1>2, <1>3, <2>2 DEF Needs, Roots
<1>4. CASE unpacking # Nothing
  <2>1. stack[1].name = unpacking /\ unpacking \in Names /\ unpacking # Script
    BY <1>1, <1>2, <1>4
  <2>2. unpacking \in Reached({unpacking}) /\ Roots = {unpacking}
    BY <1>4, <2>1, ReachedHas DEF Roots
  <2>3. CASE j = 1
    BY <2>1, <2>2, <2>3
  <2>4. CASE j > 1
    <3>1. stack[j].name \in Reached(Needs(stack[1].name))
      BY <1>1, <2>4, StackChain
    <3>2. Needs(stack[1].name) = requires[unpacking]
      BY <2>1 DEF Needs
    <3>3. unpacking \in registered
      BY <1>1, <2>1, StackTypes
    <3>4. Reached(requires[unpacking]) \subseteq Reached(Roots)
      BY <2>2, <3>3, ReachedGoesOn
    <3> QED  BY <3>1, <3>2, <3>4
  <2> QED  BY <1>1, <2>3, <2>4
<1> QED  BY <1>3, <1>4

\* A stack that overflows holds a name twice, which is a class that needs
\* itself.
LEMMA OverflowIsCircle ==
    ASSUME LoadInv, stack # <<>>, NEW name \in Top.todo, Len(stack) >= MaxDepth
    PROVE  \E n \in Reached(Roots) : n \in Reached(requires[n])
<1> DEFINE upper == [i \in 1..Len(stack) |->
                        IF i = Len(stack) THEN name ELSE stack[i + 1].name]
<1>1. Len(stack) \in Nat /\ Len(stack) \in 1..Len(stack)
  BY StackTypes
<1>2. \A i \in 1..Len(stack) : i = Len(stack) \/ (i + 1 \in 1..Len(stack) /\ i + 1 > 1)
  BY <1>1
<1>3. name \in Names
  BY <1>1, TopChain
<1>4. upper \in [1..Len(stack) -> Names]
  BY <1>2, <1>3, StackTypes
<1>5. IsFiniteSet(1..Len(stack)) /\ Cardinality(1..Len(stack)) = Len(stack)
  <2>1. Cardinality(1..Len(stack)) = IF 1 > Len(stack) THEN 0 ELSE Len(stack) - 1 + 1
    BY <1>1, FS_Interval
  <2>2. IsFiniteSet(1..Len(stack))
    BY <1>1, FS_Interval
  <2> QED  BY <1>1, <2>1, <2>2
<1>6. /\ IsFiniteSet(Names)
      /\ Cardinality(Names) < Cardinality(1..Len(stack))
  <2>1. Cardinality(Names) \in Nat
    BY DepthAssumption, FS_CardinalityType
  <2> QED  BY <1>1, <1>5, <2>1, DepthAssumption
<1>7. \E i, j \in 1..Len(stack) : i # j /\ upper[i] = upper[j]
  <2> HIDE DEF upper
  <2> QED  BY <1>4, <1>5, <1>6, FS_PigeonHole
<1>8. PICK i \in 1..Len(stack), j \in 1..Len(stack) : i < j /\ upper[i] = upper[j]
  <2>1. PICK x \in 1..Len(stack), y \in 1..Len(stack) : x # y /\ upper[x] = upper[y]
    BY <1>7
  <2>2. x < y \/ y < x
    BY <1>1, <2>1
  <2> HIDE DEF upper
  <2> QED  BY <2>1, <2>2
<1>9. i + 1 \in 1..Len(stack) /\ i # Len(stack) /\ i + 1 > 1
  BY <1>1, <1>8
<1> DEFINE n == stack[i + 1].name
<1>10. upper[i] = n
  BY <1>9
<1>11. n # Script
  BY <1>9, StackTypes
<1> HIDE DEF n
<1>12. n \in Reached(Roots)
  BY <1>9, <1>11, RootChain DEF n
<1>13. upper[j] \in Reached(Needs(n))
  <2>1. CASE j = Len(stack)
    <3>1. upper[j] = name
      BY <2>1
    <3>2. name \in Reached(Needs(n))
      BY <1>9, TopChain DEF n
    <3> QED  BY <3>1, <3>2
  <2>2. CASE j # Len(stack)
    <3>1. j + 1 \in 1..Len(stack) /\ i + 1 < j + 1
      BY <1>1, <1>8, <2>2
    <3>2. upper[j] = stack[j + 1].name
      BY <2>2
    <3>3. stack[j + 1].name \in Reached(Needs(n))
      BY <1>9, <3>1, StackChain DEF n
    <3> QED  BY <3>2, <3>3
  <2> QED  BY <2>1, <2>2
<1>14. n \in Reached(requires[n])
  <2>1. Needs(n) = requires[n] /\ upper[j] = n
    BY <1>8, <1>10, <1>11 DEF Needs
  <2> QED  BY <1>13, <2>1
<1> QED  BY <1>12, <1>14

LEMMA ScriptFrame ==
    ASSUME LoadInv, stack # <<>>, Top.name = Script
    PROVE  unpacking = Nothing /\ phase = "loading"
<1>1. Len(stack) \in 1..Len(stack) /\ Len(stack) \in Nat
  BY StackTypes
<1>2. ~(Len(stack) > 1)
  BY <1>1, StackTypes DEF Top
<1>3. Top = stack[1]
  BY <1>1, <1>2 DEF Top
<1>4. stack[1].name = IF unpacking # Nothing THEN unpacking ELSE Script
  BY DEF LoadInv, StackInv
<1>5. unpacking # Script
  <2>1. Nothing # Script
    BY DEF Nothing, Script
  <2>2. Script \notin Names
    BY DepthAssumption
  <2> QED  BY <2>1, <2>2 DEF LoadInv, TypeOK
<1>6. unpacking = Nothing
  BY <1>3, <1>4, <1>5
<1> QED  BY <1>6 DEF LoadInv, PhaseInv

\* An exception says that something cannot be resolved.
LEMMA ThrowIsRight ==
    ASSUME LoadInv, stack # <<>>, modules = registered,
           \/ \E name \in Top.todo : name \notin modules \/ Len(stack) >= MaxDepth
           \/ Top.name # Script /\ Top.name \notin exporting
    PROVE  ~Resolvable(Roots)
<1>1. Len(stack) \in 1..Len(stack) /\ 1 \in 1..Len(stack) /\ Len(stack) \in Nat
  BY StackTypes
<1>2. CASE Top.name # Script /\ Top.name \notin exporting
  <2>1. Top.name \in Reached(Roots)
    BY <1>1, <1>2, RootChain DEF Top
  <2> QED  BY <1>2, <2>1 DEF Resolvable
<1>3. CASE \E name \in Top.todo : name \notin modules
  <2>1. PICK name \in Top.todo : name \notin registered
    BY <1>3
  <2>2. name \in Reached(Roots)
    <3>1. CASE Top.name # Script
      <4>1. Top.name \in Reached(Roots) /\ Top.name \in registered
        BY <1>1, <3>1, RootChain, StackTypes DEF Top
      <4>2. name \in Reached(Needs(Top.name))
        BY <1>1, TopChain DEF Top
      <4>3. Reached(requires[Top.name]) \subseteq Reached(Roots)
        BY <4>1, ReachedGoesOn
      <4> QED  BY <3>1, <4>2, <4>3 DEF Needs
    <3>2. CASE Top.name = Script
      <4>1. Needs(Top.name) = wants
        BY <3>2 DEF Needs
      <4>2. name \in Reached(wants)
        BY <1>1, <4>1, TopChain DEF Top
      <4>3. Roots = wants
        BY <3>2, ScriptFrame DEF Roots
      <4> QED  BY <4>2, <4>3
    <3> QED  BY <3>1, <3>2
  <2> QED  BY <2>1, <2>2 DEF Resolvable
<1>4. CASE \E name \in Top.todo : Len(stack) >= MaxDepth
  <2>1. \E n \in Reached(Roots) : n \in Reached(requires[n])
    BY <1>4, OverflowIsCircle
  <2> QED  BY <2>1 DEF Resolvable
<1> QED  BY <1>2, <1>3, <1>4

\* Without modules only the script itself is on the stack.
LEMMA StreamingStack ==
    ASSUME LoadInv, stack # <<>>, unpacking = Nothing,
           Top.todo # {} \/ Top.name # Script
    PROVE  wants # {}
<1>1. Len(stack) \in 1..Len(stack) /\ 1 \in 1..Len(stack) /\ Len(stack) \in Nat
  BY StackTypes
<1>2. stack[1].name = Script
  BY DEF LoadInv, StackInv
<1>3. stack[1].todo \subseteq wants
  BY <1>1, <1>2 DEF LoadInv, StackInv, Needs
<1>4. CASE Len(stack) = 1
  BY <1>2, <1>3, <1>4 DEF Top
<1>5. CASE Len(stack) > 1
  <2>1. 2 \in 1..Len(stack) /\ 2 > 1 /\ 2 - 1 = 1
    BY <1>1, <1>5
  <2>2. stack[2].name \in stack[2 - 1].todo
    BY <2>1 DEF LoadInv, StackInv
  <2> QED  BY <1>3, <2>1, <2>2
<1>6. Len(stack) = 1 \/ Len(stack) > 1
  <2>1. Len(stack) \in Nat /\ Len(stack) # 0
    BY <1>1
  <2> QED  BY <2>1, OneOrMore
<1> QED  BY <1>4, <1>5, <1>6

-----------------------------------------------------------------------------
(* The actions.                                                            *)

LEMMA PassedIs ==
    ASSUME NEW frames \in Seq(Frames), frames # <<>>, NEW name
    PROVE  /\ Passed(frames, name) \in Seq(Frames)
           /\ Len(Passed(frames, name)) = Len(frames)
           /\ \A i \in 1..Len(frames) :
                 /\ Passed(frames, name)[i].name = frames[i].name
                 /\ i # Len(frames) => Passed(frames, name)[i].todo = frames[i].todo
                 /\ i = Len(frames) => Passed(frames, name)[i].todo = frames[i].todo \ {name}
<1> DEFINE passed == Passed(frames, name)
<1>1. Len(frames) \in Nat /\ Len(frames) \in 1..Len(frames) /\ DOMAIN frames = 1..Len(frames)
  OBVIOUS
<1>2. passed = [frames EXCEPT ![Len(frames)].todo = @ \ {name}]
  BY DEF Passed
<1> HIDE DEF passed
<1>3. DOMAIN passed = 1..Len(frames) /\ passed = [i \in 1..Len(frames) |-> passed[i]]
  BY <1>1, <1>2
<1>4. \A i \in 1..Len(frames) : i # Len(frames) => passed[i] = frames[i]
  BY <1>1, <1>2
<1>5. passed[Len(frames)] = [frames[Len(frames)] EXCEPT !.todo = @ \ {name}]
  BY <1>1, <1>2
<1>6. \A i \in 1..Len(frames) : frames[i] \in Frames
  OBVIOUS
<1>7. /\ passed[Len(frames)] \in Frames
      /\ passed[Len(frames)].name = frames[Len(frames)].name
      /\ passed[Len(frames)].todo = frames[Len(frames)].todo \ {name}
  BY <1>1, <1>5, <1>6 DEF Frames
<1>8. \A i \in 1..Len(frames) : passed[i] \in Frames
  BY <1>4, <1>6, <1>7
<1>9. passed \in Seq(Frames) /\ Len(passed) = Len(frames)
  BY <1>1, <1>3, <1>8
<1> QED  BY <1>4, <1>7, <1>9 DEF passed

LEMMA CallersAre ==
    ASSUME NEW frames \in Seq(Frames), Len(frames) > 1
    PROVE  LET callers == SubSeq(frames, 1, Len(frames) - 1)
           IN  /\ callers \in Seq(Frames) /\ Len(callers) = Len(frames) - 1 /\ callers # <<>>
               /\ \A i \in 1..Len(frames) - 1 : callers[i] = frames[i]
<1> DEFINE callers == SubSeq(frames, 1, Len(frames) - 1)
<1>1. Len(frames) \in Nat /\ Len(frames) - 1 \in Nat /\ Len(frames) - 1 # 0
  <2>1. Len(frames) \in Nat
    OBVIOUS
  <2>2. \A m \in Nat : m > 1 => m - 1 \in Nat /\ m - 1 # 0
    OBVIOUS
  <2> QED  BY <2>1, <2>2
<1>2. callers \in Seq(Frames)
  <2>1. \A i \in 1..Len(frames) - 1 : frames[i] \in Frames
    BY <1>1
  <2>2. callers = [i \in 1..Len(frames) - 1 |-> frames[i]]
    BY <1>1
  <2> HIDE DEF callers
  <2> QED  BY <1>1, <2>1, <2>2
<1>3. Len(callers) = Len(frames) - 1
  BY <1>1
<1>4. \A i \in 1..Len(frames) - 1 : callers[i] = frames[i]
  BY <1>1
<1>5. callers # <<>>
  <2>1. Len(callers) # 0
    BY <1>1, <1>3
  <2> HIDE DEF callers
  <2> QED  BY <2>1
<1> QED  BY <1>2, <1>3, <1>4, <1>5

\* The source that is now the topmost one goes on behind its require().
LEMMA StackPasses ==
    ASSUME LoadInv, UNCHANGED sources, unpacking' = unpacking, modules' = modules,
           NEW m \in 1..Len(stack), NEW name, Len(stack') = m,
           \A i \in 1..m : stack'[i].name = stack[i].name,
           \A i \in 1..m : i # m => stack'[i].todo = stack[i].todo,
           stack'[m].todo = stack[m].todo \ {name},
           cache \subseteq cache', name \in cache',
           \A i \in 1..m : stack[i].name # Script => stack[i].name \notin cache'
    PROVE  StackInv'
<1>1. Len(stack) \in Nat /\ m \in Nat /\ 1..m \subseteq 1..Len(stack) /\ 1 \in 1..m
  BY StackTypes
<1>2. \A x : Needs(x)' = Needs(x)
  BY DEF Needs, sources
<1>3. stack' # <<>> => stack'[1].name = IF unpacking' # Nothing THEN unpacking' ELSE Script
  <2>1. stack # <<>>
    BY <1>1
  <2> QED  BY <1>1, <2>1 DEF LoadInv, StackInv
<1>4. ASSUME NEW i \in 1..m
      PROVE  /\ stack'[i].todo \subseteq Needs(stack[i].name)
             /\ Needs(stack[i].name) \ stack'[i].todo \subseteq cache'
             /\ stack[i].name # Script => stack[i].name \in modules' \ cache'
  <2>1. /\ stack[i].todo \subseteq Needs(stack[i].name)
        /\ Needs(stack[i].name) \ stack[i].todo \subseteq cache
        /\ stack[i].name # Script => stack[i].name \in modules
    BY <1>1 DEF LoadInv, StackInv
  <2>2. CASE i # m
    BY <2>1, <2>2
  <2>3. CASE i = m
    BY <2>1, <2>3
  <2> QED  BY <2>2, <2>3
<1>5. \A i \in 1..m : /\ stack'[i].todo \subseteq Needs(stack[i].name)'
                      /\ Needs(stack[i].name)' \ stack'[i].todo \subseteq cache'
                      /\ stack'[i].name # Script => stack'[i].name \in modules' \ cache'
  BY <1>2, <1>4
<1>6. ASSUME NEW i \in 1..m, i > 1
      PROVE  stack'[i].name \in stack'[i - 1].todo
  <2>1. i - 1 \in 1..m /\ i - 1 # m /\ i \in 1..Len(stack)
    BY <1>1, <1>6
  <2>2. stack[i].name \in stack[i - 1].todo
    BY <1>6, <2>1 DEF LoadInv, StackInv
  <2> QED  BY <2>1, <2>2
<1> QED  BY <1>3, <1>5, <1>6 DEF StackInv

LEMMA ClassesStay ==
    ASSUME LoadInv, UNCHANGED <<sources, cache, functions>>
    PROVE  SourcesInv' /\ ClassesInv' /\ ClassIsUnique'
<1>1. cache \subseteq Names
  BY StackTypes
<1>2. SourcesInv' /\ ClassIsUnique'
  BY DEF LoadInv, SourcesInv, ClassIsUnique, sources
<1>3. ClassesInv'
  BY <1>1, ReachedStays DEF LoadInv, ClassesInv, sources
<1> QED  BY <1>2, <1>3

LEMMA EmptyStack == ASSUME stack' = <<>>  PROVE StackInv'
<1>1. \A i \in 1..Len(stack') : FALSE
  OBVIOUS
<1> QED  BY <1>1 DEF StackInv

LEMMA LoadModulesKeeps ==
    ASSUME LoadInv, LoadModules
    PROVE  LoadInv'
<1>1. /\ stack = <<>> /\ stack' = stack /\ modules' = registered /\ modules # registered
      /\ phase' = phase /\ phase = IF streaming THEN "ready" ELSE "start"
      /\ UNCHANGED <<sources, cache, functions, unpacking, unpacked>>
  BY DEF LoadModules
<1>2. SourcesInv' /\ ClassesInv' /\ ClassIsUnique'
  BY <1>1, ClassesStay
<1>3. TypeOK'
  <2>1. registered \in SUBSET Names
    BY DEF LoadInv, SourcesInv
  <2> QED  BY <1>1, <2>1 DEF LoadInv, TypeOK
<1>4. PhaseInv'
  BY <1>1 DEF LoadInv, PhaseInv, sources
<1>5. StackInv'
  BY <1>1, EmptyStack
<1>6. OutcomeInv'
  BY <1>1, ReachedStays DEF LoadInv, OutcomeInv, sources
<1> QED  BY <1>2, <1>3, <1>4, <1>5, <1>6 DEF LoadInv

\* A stack of one source that has required nothing yet.
LEMMA NewStack ==
    ASSUME NEW name \in Names \cup {Script}, NEW needs \in SUBSET Names,
           stack' = <<Frame(name, needs)>>,
           needs = Needs(name)', name = IF unpacking' # Nothing THEN unpacking' ELSE Script,
           name # Script => name \in modules' \ cache'
    PROVE  StackInv' /\ stack' \in Seq(Frames) /\ Len(stack') = 1 /\ stack' # <<>>
<1>1. Frame(name, needs) \in Frames
  BY DEF Frame, Frames
<1>2. /\ stack' \in Seq(Frames) /\ Len(stack') = 1 /\ stack' # <<>>
      /\ stack'[1] = Frame(name, needs)
  BY <1>1
<1>3. stack'[1].name = name /\ stack'[1].todo = needs
  BY <1>2 DEF Frame
<1>4. \A i \in 1..Len(stack') : i = 1
  BY <1>2
<1>5. \A i \in 1..Len(stack') :
         /\ stack'[i].todo \subseteq Needs(name)' /\ stack'[i].name = name
         /\ Needs(name)' \ stack'[i].todo \subseteq cache'
  BY <1>3, <1>4
<1>6. \A i \in 1..Len(stack') : ~(i > 1)
  BY <1>4
<1>7. \A i \in 1..Len(stack') :
         /\ stack'[i].todo \subseteq (IF stack'[i].name = Script THEN wants' ELSE requires'[stack'[i].name])
         /\ (IF stack'[i].name = Script THEN wants' ELSE requires'[stack'[i].name])
               \ stack'[i].todo \subseteq cache'
         /\ stack'[i].name # Script => stack'[i].name \in modules' \ cache'
  BY <1>5 DEF Needs
<1>8. stack'[1].name = IF unpacking' # Nothing THEN unpacking' ELSE Script
  BY <1>3
<1> QED  BY <1>2, <1>6, <1>7, <1>8 DEF StackInv, Needs

LEMMA LoadSourceKeeps ==
    ASSUME LoadInv, LoadSource
    PROVE  LoadInv'
<1>1. /\ phase = "start" /\ phase' = "loading" /\ (streaming \/ modules = registered)
      /\ stack' = <<Frame(Script, wants)>>
      /\ UNCHANGED <<sources, modules, cache, functions, unpacking, unpacked>>
  BY DEF LoadSource
<1>2. SourcesInv' /\ ClassesInv' /\ ClassIsUnique'
  BY <1>1, ClassesStay
<1>3. unpacking = Nothing /\ cache = {} /\ wants \in SUBSET Names
  BY <1>1 DEF LoadInv, PhaseInv, SourcesInv
<1>4. StackInv' /\ stack' \in Seq(Frames) /\ Len(stack') = 1 /\ stack' # <<>>
  <2>1. Needs(Script)' = wants
    BY <1>1 DEF Needs, sources
  <2>2. Script = IF unpacking' # Nothing THEN unpacking' ELSE Script
    BY <1>1, <1>3
  <2> HIDE DEF Script
  <2> QED  BY <1>1, <1>3, <2>1, <2>2, NewStack
<1>5. TypeOK'
  <2>1. 1 <= MaxDepth + 1
    BY DepthAssumption
  <2> QED  BY <1>1, <1>4, <2>1 DEF LoadInv, TypeOK, Frames
<1>6. PhaseInv'
  BY <1>1, <1>3, <1>4 DEF LoadInv, PhaseInv, sources
<1>7. OutcomeInv'
  BY <1>1, <1>3 DEF OutcomeInv
<1> QED  BY <1>2, <1>4, <1>5, <1>6, <1>7 DEF LoadInv

LEMMA OutcomeTypes ==
    \A value \in {Nothing, "instance", "custom"} : \A threw \in BOOLEAN :
        Outcome(value, threw) \in [value : {Nothing, "instance", "custom"}, threw : BOOLEAN]
BY DEF Outcome

\* An exception leaves nothing behind but its reason.
LEMMA ThrowKeeps ==
    ASSUME LoadInv, stack # <<>>, Throw, UNCHANGED <<sources, modules, cache, functions>>,
           \/ \E name \in Top.todo : name \notin modules \/ Len(stack) >= MaxDepth
           \/ Top.name # Script /\ Top.name \notin exporting
    PROVE  LoadInv' /\ (unpacking # Nothing => UnpackedRight)
<1>1. /\ stack' = <<>> /\ unpacking' = Nothing
      /\ phase' = (IF phase = "loading" THEN "failed" ELSE phase)
      /\ unpacked' = (IF unpacking # Nothing THEN Outcome("custom", FALSE) ELSE unpacked)
  BY DEF Throw
<1>2. SourcesInv' /\ ClassesInv' /\ ClassIsUnique' /\ StackInv'
  BY <1>1, ClassesStay, EmptyStack
<1>3. TypeOK'
  <2>1. Len(stack') = 0 /\ stack' \in Seq([name : Names \cup {Script}, todo : SUBSET Names])
    BY <1>1
  <2>2. 0 <= MaxDepth + 1
    BY DepthAssumption
  <2>3. unpacked' \in [value : {Nothing, "instance", "custom"}, threw : BOOLEAN]
    BY <1>1, OutcomeTypes DEF LoadInv, TypeOK
  <2> QED  BY <1>1, <2>1, <2>2, <2>3 DEF LoadInv, TypeOK
<1>4. \/ phase = "loading" /\ unpacking = Nothing
      \/ phase = "ready" /\ unpacking # Nothing
  <2>1. (unpacking # Nothing => phase = "ready") /\ (phase = "loading" \/ unpacking # Nothing)
    BY DEF LoadInv, PhaseInv
  <2> QED  BY <2>1
<1>5. PhaseInv'
  BY <1>1, <1>4 DEF LoadInv, PhaseInv, sources
<1>6. ~(streaming /\ phase = "loading") => ~Resolvable(Roots)
  <2>1. ~(streaming /\ phase = "loading") => modules = registered
    BY <1>4 DEF LoadInv, PhaseInv
  <2> QED  BY <2>1, ThrowIsRight
<1>7. unpacking # Nothing => ~Resolvable({unpacking})
  BY <1>4, <1>6 DEF Roots
<1>8. phase = "loading" => ~(IF streaming THEN wants = {} ELSE Resolvable(wants))
  <2>1. unpacking = Nothing => wants # {}
    BY StreamingStack
  <2> QED  BY <1>4, <1>6, <2>1 DEF Roots
<1>9. OutcomeInv'
  <2>1. streaming' = streaming /\ wants' = wants /\ cache' = cache
    BY DEF sources
  <2>2. (Resolvable(wants)' <=> Resolvable(wants))
    BY ReachedStays
  <2>3. (phase = "ready" => wants \subseteq cache /\ (streaming => wants = {}))
    BY DEF LoadInv, OutcomeInv
  <2>4. phase' = "ready" => phase = "ready"
    BY <1>1
  <2>5. phase' = "failed" => phase = "loading"
    BY <1>1, <1>4
  <2> QED  BY <1>1, <1>8, <2>1, <2>2, <2>3, <2>4, <2>5 DEF OutcomeInv
<1>10. unpacking # Nothing => UnpackedRight
  <2>1. unpacking # Nothing => unpacked' = [value |-> "custom", threw |-> FALSE]
    BY <1>1 DEF Outcome
  <2> QED  BY <1>7, <2>1 DEF UnpackedRight
<1> QED  BY <1>2, <1>3, <1>5, <1>9, <1>10 DEF LoadInv

LEMMA RequireKeeps ==
    ASSUME LoadInv, CallRequire
    PROVE  LoadInv' /\ (unpacking # Nothing /\ unpacking' = Nothing =>
                           UnpackedRight)
<1>1. stack # <<>> /\ UNCHANGED <<sources, modules, cache, functions>>
  BY DEF CallRequire
<1>2. PICK name \in Top.todo : Require(name)
  BY DEF CallRequire
<1>3. /\ Len(stack) \in 1..Len(stack) /\ Len(stack) \in Nat /\ 1 \in 1..Len(stack)
      /\ stack \in Seq(Frames) /\ Top = stack[Len(stack)] /\ cache \subseteq Names
      /\ modules \subseteq registered /\ Len(stack) <= MaxDepth + 1 /\ MaxDepth \in Nat
  BY <1>1, StackTypes, DepthAssumption DEF Top, LoadInv, TypeOK
<1>4. SourcesInv' /\ ClassesInv' /\ ClassIsUnique'
  BY <1>1, ClassesStay
<1>5. name \in Names /\ name # Script
  BY <1>3, TopChain, DepthAssumption
<1>6. ASSUME phase' = phase, unpacking' = unpacking, unpacked' = unpacked, stack' # <<>>,
             stack' \in Seq(Frames), Len(stack') <= MaxDepth + 1, StackInv'
      PROVE  LoadInv'
  <2>1. TypeOK'
    BY <1>1, <1>6 DEF LoadInv, TypeOK, Frames
  <2>2. PhaseInv'
    BY <1>1, <1>6 DEF LoadInv, PhaseInv, sources
  <2>3. OutcomeInv'
    BY <1>1, <1>6, ReachedStays DEF LoadInv, OutcomeInv, sources
  <2> QED  BY <1>4, <1>6, <2>1, <2>2, <2>3 DEF LoadInv
<1>7. CASE name \in cache /\ stack' = Passed(stack, name)
            /\ UNCHANGED <<phase, unpacking, unpacked>>
  <2>1. /\ stack' \in Seq(Frames) /\ Len(stack') = Len(stack)
        /\ \A i \in 1..Len(stack) :
              /\ stack'[i].name = stack[i].name
              /\ i # Len(stack) => stack'[i].todo = stack[i].todo
              /\ i = Len(stack) => stack'[i].todo = stack[i].todo \ {name}
    BY <1>1, <1>3, <1>7, PassedIs
  <2>2. \A i \in 1..Len(stack) : stack[i].name # Script => stack[i].name \notin cache
    BY StackTypes
  <2>3. StackInv'
    BY <1>1, <1>3, <1>7, <2>1, <2>2, StackPasses
  <2>4. stack' # <<>>
    BY <1>3, <2>1
  <2> QED  BY <1>3, <1>6, <1>7, <2>1, <2>3, <2>4
<1>8. CASE /\ name \notin cache /\ name \in modules /\ Len(stack) < MaxDepth
           /\ stack' = Append(stack, Frame(name, requires[name]))
           /\ UNCHANGED <<phase, unpacking, unpacked>>
  <2>1. requires[name] \subseteq Names
    BY <1>5 DEF LoadInv, SourcesInv
  <2>2. Frame(name, requires[name]) \in Frames
    BY <1>5, <2>1 DEF Frame, Frames
  <2>3. /\ stack' \in Seq(Frames) /\ Len(stack') = Len(stack) + 1 /\ stack' # <<>>
        /\ stack'[Len(stack) + 1] = Frame(name, requires[name])
        /\ \A i \in 1..Len(stack) : stack'[i] = stack[i]
    BY <1>3, <1>8, <2>2
  <2>4. /\ stack'[Len(stack) + 1].name = name
        /\ stack'[Len(stack) + 1].todo = requires[name]
    BY <2>3 DEF Frame
  <2>5. \A i \in 1..Len(stack') : i \in 1..Len(stack) \/ i = Len(stack) + 1
    BY <1>3, <2>3
  <2>6. stack'[1].name = IF unpacking' # Nothing THEN unpacking' ELSE Script
    BY <1>1, <1>3, <1>8, <2>3 DEF LoadInv, StackInv
  <2>7. ASSUME NEW i \in 1..Len(stack')
        PROVE  /\ stack'[i].todo \subseteq
                     (IF stack'[i].name = Script THEN wants' ELSE requires'[stack'[i].name])
               /\ (IF stack'[i].name = Script THEN wants' ELSE requires'[stack'[i].name])
                     \ stack'[i].todo \subseteq cache'
               /\ stack'[i].name # Script => stack'[i].name \in modules' \ cache'
    <3>1. wants' = wants /\ requires' = requires /\ modules' = modules /\ cache' = cache
      BY <1>1 DEF sources
    <3>2. CASE i \in 1..Len(stack)
      BY <2>3, <3>1, <3>2 DEF LoadInv, StackInv, Needs
    <3>3. CASE i = Len(stack) + 1
      BY <1>5, <1>8, <2>4, <3>1, <3>3
    <3> QED  BY <2>5, <3>2, <3>3
  <2>8. ASSUME NEW i \in 1..Len(stack'), i > 1
        PROVE  stack'[i].name \in stack'[i - 1].todo
    <3>1. i - 1 \in 1..Len(stack) /\ stack'[i - 1] = stack[i - 1]
      <4>1. i - 1 \in 1..Len(stack)
        BY <1>3, <2>3, <2>8
      <4> QED  BY <2>3, <4>1
    <3>2. CASE i \in 1..Len(stack)
      BY <2>3, <2>8, <3>1, <3>2 DEF LoadInv, StackInv
    <3>3. CASE i = Len(stack) + 1
      <4>1. i - 1 = Len(stack)
        BY <1>3, <3>3
      <4> QED  BY <1>2, <1>3, <2>4, <3>1, <3>3, <4>1
    <3> QED  BY <2>5, <3>2, <3>3
  <2>9. StackInv'
    BY <2>6, <2>7, <2>8 DEF StackInv, Needs
  <2>10. Len(stack') <= MaxDepth + 1
    BY <1>3, <1>8, <2>3
  <2> QED  BY <1>6, <1>8, <2>3, <2>9, <2>10
<1>9. CASE (name \notin modules \/ Len(stack) >= MaxDepth) /\ Throw
  BY <1>1, <1>9, ThrowKeeps DEF Throw
<1>10. CASE UNCHANGED unpacking
  <2>1. LoadInv'
    BY <1>2, <1>7, <1>8, <1>9 DEF Require
  <2> QED  BY <1>10, <2>1
<1> QED  BY <1>2, <1>7, <1>8, <1>9, <1>10 DEF Require

LEMMA LoadedKeeps ==
    ASSUME LoadInv, Loaded
    PROVE  LoadInv'
<1>1. /\ stack # <<>> /\ Top.name = Script /\ Top.todo = {} /\ stack' = <<>> /\ phase' = "ready"
      /\ UNCHANGED <<sources, modules, cache, functions, unpacking, unpacked>>
  BY DEF Loaded
<1>2. SourcesInv' /\ ClassesInv' /\ ClassIsUnique' /\ StackInv'
  BY <1>1, ClassesStay, EmptyStack
<1>3. unpacking = Nothing /\ phase = "loading"
  BY <1>1, ScriptFrame
<1>4. wants \subseteq cache
  <2>1. Len(stack) \in 1..Len(stack)
    BY <1>1, StackTypes
  <2>2. Needs(Top.name) \ Top.todo \subseteq cache
    BY <2>1 DEF LoadInv, StackInv, Top
  <2> QED  BY <1>1, <2>2 DEF Needs
<1>5. streaming => wants = {}
  <2>1. streaming => cache = {}
    BY <1>3 DEF LoadInv, PhaseInv
  <2> QED  BY <1>4, <2>1
<1>6. TypeOK'
  <2>1. Len(stack') = 0 /\ stack' \in Seq([name : Names \cup {Script}, todo : SUBSET Names])
    BY <1>1
  <2>2. 0 <= MaxDepth + 1
    BY DepthAssumption
  <2> QED  BY <1>1, <2>1, <2>2 DEF LoadInv, TypeOK
<1>7. PhaseInv'
  BY <1>1, <1>3 DEF LoadInv, PhaseInv, sources
<1>8. OutcomeInv'
  BY <1>1, <1>3, <1>4, <1>5 DEF OutcomeInv, sources
<1> QED  BY <1>2, <1>6, <1>7, <1>8 DEF LoadInv

LEMMA UnpackKeeps ==
    ASSUME LoadInv, NEW name \in Names, Unpack(name)
    PROVE  LoadInv'
<1>1. /\ phase = "ready" /\ stack = <<>> /\ modules = registered /\ unpacking = Nothing
      /\ unpacking' = name /\ unpacked' = Outcome(Nothing, FALSE)
      /\ UNCHANGED <<sources, phase, modules, cache, functions>>
  BY DEF Unpack
<1>2. SourcesInv' /\ ClassesInv' /\ ClassIsUnique'
  BY <1>1, ClassesStay
<1>3. name # Nothing /\ name # Script
  BY DepthAssumption
<1>4. /\ StackInv' /\ stack' \in Seq(Frames) /\ Len(stack') <= MaxDepth + 1
      /\ stack' = <<>> => name \in cache \/ name \notin registered
  <2>1. CASE name \in modules \ cache
    <3>1. requires[name] \in SUBSET Names
      BY DEF LoadInv, SourcesInv
    <3>2. stack' = <<Frame(name, requires[name])>>
      BY <2>1 DEF Unpack
    <3>3. Needs(name)' = requires[name]
      BY <1>1, <1>3 DEF Needs, sources
    <3>4. name = IF unpacking' # Nothing THEN unpacking' ELSE Script
      BY <1>1, <1>3
    <3>5. StackInv' /\ stack' \in Seq(Frames) /\ Len(stack') = 1 /\ stack' # <<>>
      BY <1>1, <2>1, <3>1, <3>2, <3>3, <3>4, NewStack
    <3>6. 1 <= MaxDepth + 1
      BY DepthAssumption
    <3> QED  BY <3>5, <3>6
  <2>2. CASE name \notin modules \ cache
    <3>1. stack' = stack
      BY <2>2 DEF Unpack
    <3>2. StackInv'
      BY <1>1, <3>1, EmptyStack
    <3>3. stack' \in Seq(Frames) /\ Len(stack') <= MaxDepth + 1
      BY <3>1 DEF LoadInv, TypeOK, Frames
    <3> QED  BY <1>1, <2>2, <3>2, <3>3
  <2> QED  BY <2>1, <2>2
<1>5. TypeOK'
  <2>1. unpacked' \in [value : {Nothing, "instance", "custom"}, threw : BOOLEAN]
    BY <1>1, OutcomeTypes
  <2> QED  BY <1>1, <1>4, <2>1 DEF LoadInv, TypeOK, Frames
<1>6. PhaseInv'
  BY <1>1, <1>3 DEF LoadInv, PhaseInv, sources
<1>7. OutcomeInv'
  BY <1>1, <1>4 DEF LoadInv, OutcomeInv, sources
<1> QED  BY <1>2, <1>4, <1>5, <1>6, <1>7 DEF LoadInv

LEMMA ConstructKeeps ==
    ASSUME LoadInv, Construct
    PROVE  LoadInv' /\ UnpackedRight
<1>1. /\ unpacking # Nothing /\ stack = <<>> /\ stack' = stack /\ unpacking' = Nothing
      /\ \/ unpacking \in cache /\ unpacked' = [value |-> "instance", threw |-> FALSE]
         \/ unpacking \in cache /\ unpacked' = [value |-> "custom", threw |-> TRUE]
         \/ unpacking \notin cache /\ unpacked' = [value |-> "custom", threw |-> FALSE]
      /\ UNCHANGED <<sources, phase, modules, cache, functions>>
  BY DEF Construct, Outcome
<1>2. SourcesInv' /\ ClassesInv' /\ ClassIsUnique' /\ StackInv'
  BY <1>1, ClassesStay, EmptyStack
<1>3. TypeOK'
  <2>1. \/ unpacked' = Outcome("instance", FALSE)
        \/ unpacked' = Outcome("custom", TRUE)
        \/ unpacked' = Outcome("custom", FALSE)
    BY DEF Construct
  <2>2. unpacked' \in [value : {Nothing, "instance", "custom"}, threw : BOOLEAN]
    BY <2>1, OutcomeTypes
  <2> QED  BY <1>1, <2>2 DEF LoadInv, TypeOK
<1>4. PhaseInv' /\ OutcomeInv'
  <2>1. phase = "ready"
    BY <1>1 DEF LoadInv, PhaseInv
  <2>2. PhaseInv'
    BY <1>1, <2>1 DEF LoadInv, PhaseInv, sources
  <2>3. OutcomeInv'
    BY <1>1, <2>1 DEF LoadInv, OutcomeInv, sources
  <2> QED  BY <2>2, <2>3
<1>5. UnpackedRight
  <2>1. CASE unpacking \in cache
    <3>1. cache \subseteq Names
      BY StackTypes
    <3>2. Resolvable({unpacking})
      BY <2>1, <3>1, CacheResolves DEF LoadInv
    <3> QED  BY <1>1, <2>1, <3>2 DEF UnpackedRight
  <2>2. CASE unpacking \notin cache
    <3>1. unpacking \notin registered
      BY <1>1, <2>2 DEF LoadInv, OutcomeInv
    <3>2. unpacking \in Names
      BY <1>1 DEF LoadInv, TypeOK
    <3>3. unpacking \in Reached({unpacking})
      BY <3>2, ReachedHas
    <3>4. ~Resolvable({unpacking})
      BY <3>1, <3>3 DEF Resolvable
    <3> QED  BY <1>1, <2>2, <3>4 DEF UnpackedRight
  <2> QED  BY <2>1, <2>2
<1> QED  BY <1>2, <1>3, <1>4, <1>5 DEF LoadInv

\* A class that was evaluated is cached, together with all that it needs.
LEMMA CachedClass ==
    ASSUME LoadInv, stack # <<>>, NEW top \in Names, top = Top.name, Top.todo = {},
           top \in exporting, UNCHANGED sources,
           cache' = cache \cup {top}, functions' = [functions EXCEPT ![top] = @ + 1]
    PROVE  /\ SourcesInv' /\ ClassesInv' /\ ClassIsUnique'
           /\ functions' \in [Names -> Nat]
           /\ top \in registered \ cache /\ requires[top] \subseteq cache
<1>1. Len(stack) \in 1..Len(stack) /\ top = stack[Len(stack)].name /\ top # Script
  BY StackTypes, DepthAssumption DEF Top
<1>2. top \in registered \ cache
  BY <1>1, StackTypes
<1>3. requires[top] \subseteq cache
  <2>1. Needs(stack[Len(stack)].name) \ stack[Len(stack)].todo \subseteq cache
    BY <1>1 DEF LoadInv, StackInv
  <2> QED  BY <1>1, <2>1 DEF Needs, Top
<1>4. top \notin Reached(requires[top])
  <2>1. Reached(requires[top]) \subseteq cache
    BY <1>3, StackTypes, CacheResolves DEF LoadInv
  <2> QED  BY <1>2, <2>1
<1>5. ClassesInv'
  <2>1. requires' = requires /\ registered' = registered /\ exporting' = exporting
    BY DEF sources
  <2>2. \A n \in Names : Reached(requires[n])' = Reached(requires[n])
    BY ReachedStays
  <2>3. \A n \in cache : n \in Names /\ n \in registered \cap exporting
                         /\ requires[n] \subseteq cache /\ n \notin Reached(requires[n])
    BY StackTypes DEF LoadInv, ClassesInv
  <2>4. \A n \in cache' : n \in registered \cap exporting
                          /\ requires[n] \subseteq cache' /\ n \notin Reached(requires[n])'
    BY <1>2, <1>3, <1>4, <2>2, <2>3
  <2> QED  BY <2>1, <2>4 DEF ClassesInv
<1>6. functions' \in [Names -> Nat] /\ ClassIsUnique'
  <2>1. functions \in [Names -> Nat] /\ \A n \in Names : functions[n] = (IF n \in cache THEN 1 ELSE 0)
    BY DEF LoadInv, TypeOK, ClassIsUnique
  <2>2. functions[top] = 0
    BY <1>2, <2>1
  <2>3. \A n \in Names : functions'[n] = IF n = top THEN 1 ELSE functions[n]
    BY <2>1, <2>2
  <2>4. functions' \in [Names -> Nat]
    BY <2>1
  <2>5. \A n \in Names : functions'[n] = (IF n \in cache' THEN 1 ELSE 0)
    BY <2>1, <2>3
  <2> QED  BY <2>4, <2>5 DEF ClassIsUnique
<1>7. SourcesInv'
  BY DEF LoadInv, SourcesInv, sources
<1> QED  BY <1>2, <1>3, <1>5, <1>6, <1>7

LEMMA ReturnKeeps ==
    ASSUME LoadInv, ReturnExports
    PROVE  LoadInv' /\ (unpacking # Nothing /\ unpacking' = Nothing =>
                           UnpackedRight)
<1>1. stack # <<>> /\ Top.name # Script /\ Top.todo = {} /\ UNCHANGED <<sources, modules>>
  BY DEF ReturnExports
<1>2. /\ Len(stack) \in 1..Len(stack) /\ Len(stack) \in Nat
      /\ stack \in Seq(Frames) /\ Top = stack[Len(stack)] /\ cache \subseteq Names
  BY <1>1, StackTypes DEF Top
<1>3. PICK top \in Names : top = Top.name
  BY <1>1, <1>2, StackTypes
<1>4. CASE Top.name \notin exporting /\ Throw /\ UNCHANGED <<cache, functions>>
  BY <1>1, <1>4, ThrowKeeps DEF Throw
<1>5. CASE /\ top \in exporting /\ cache' = cache \cup {top}
           /\ functions' = [functions EXCEPT ![top] = @ + 1]
           /\ stack' = Passed(Callers, top)
           /\ UNCHANGED <<phase, unpacking, unpacked>>
  <2>1. /\ SourcesInv' /\ ClassesInv' /\ ClassIsUnique' /\ functions' \in [Names -> Nat]
        /\ top \in registered \ cache /\ requires[top] \subseteq cache
    BY <1>1, <1>3, <1>5, CachedClass
  <2>2. StackInv' /\ stack' \in Seq(Frames) /\ Len(stack') <= Len(stack)
        /\ (stack' = <<>> => unpacking = top)
    <3>1. CASE Len(stack) = 1
      <4>1. Callers = <<>>
        BY <1>2, <3>1 DEF Callers
      <4>2. stack' = <<>>
        BY <1>5, <4>1 DEF Passed
      <4>3. unpacking = top
        <5>1. stack[1].name = top
          BY <1>2, <1>3, <3>1
        <5> QED  BY <1>1, <1>3, <5>1 DEF LoadInv, StackInv
      <4>4. StackInv'
        BY <4>2, EmptyStack
      <4> QED  BY <1>2, <4>2, <4>3, <4>4
    <3>2. CASE Len(stack) > 1
      <4> DEFINE m == Len(stack) - 1
      <4>1. m \in Nat /\ m \in 1..Len(stack) /\ 1..m \subseteq 1..Len(stack) /\ m < Len(stack)
        BY <1>2, <3>2
      <4>2. /\ Callers \in Seq(Frames) /\ Len(Callers) = m /\ Callers # <<>>
            /\ \A i \in 1..m : Callers[i] = stack[i]
        BY <1>2, <3>2, CallersAre DEF Callers
      <4> HIDE DEF m
      <4>3. /\ stack' \in Seq(Frames) /\ Len(stack') = m
            /\ \A i \in 1..m :
                  /\ stack'[i].name = stack[i].name
                  /\ i # m => stack'[i].todo = stack[i].todo
                  /\ i = m => stack'[i].todo = stack[i].todo \ {top}
        <5>1. /\ Passed(Callers, top) \in Seq(Frames)
              /\ Len(Passed(Callers, top)) = m
              /\ \A i \in 1..m :
                    /\ Passed(Callers, top)[i].name = Callers[i].name
                    /\ i # m => Passed(Callers, top)[i].todo = Callers[i].todo
                    /\ i = m => Passed(Callers, top)[i].todo = Callers[i].todo \ {top}
          BY <4>2, PassedIs
        <5>2. stack' = Passed(Callers, top)
          BY <1>5
        <5> QED  BY <4>2, <5>1, <5>2
      <4>4. ASSUME NEW i \in 1..m, stack[i].name # Script
            PROVE  stack[i].name \notin cache'
        <5>1. stack[i].name \notin cache /\ i \in 1..Len(stack)
          BY <4>1, <4>4, StackTypes
        <5>2. ASSUME stack[i].name = top  PROVE FALSE
          <6>1. i + 1 \in 1..Len(stack) /\ i + 1 > 1 /\ (i + 1) - 1 = i
            BY <1>2, <4>1
          <6> DEFINE j == i + 1
          <6>2. stack[j].name \in stack[j - 1].todo
            BY <6>1 DEF LoadInv, StackInv
          <6>3. stack[i].todo \subseteq requires[top]
            BY <4>4, <5>1, <5>2 DEF LoadInv, StackInv, Needs
          <6>4. stack[j].name \in cache
            BY <2>1, <6>1, <6>2, <6>3
          <6>5. stack[j].name # Script
            BY <6>1, StackTypes
          <6>6. stack[j].name \notin cache
            BY <6>1, <6>5, StackTypes
          <6> QED  BY <6>4, <6>6
        <5> QED  BY <1>5, <5>1, <5>2
      <4>5. /\ m \in 1..m /\ top \in cache' /\ cache \subseteq cache'
            /\ unpacking' = unpacking /\ modules' = modules
        BY <1>1, <1>5, <4>1
      <4>6. StackInv'
        BY <1>1, <4>1, <4>3, <4>4, <4>5, StackPasses
      <4>7. stack' # <<>>
        BY <4>1, <4>3
      <4> QED  BY <1>2, <4>1, <4>3, <4>6, <4>7
    <3>3. Len(stack) = 1 \/ Len(stack) > 1
      <4>1. Len(stack) \in Nat /\ Len(stack) # 0
        BY <1>2
      <4> QED  BY <4>1, OneOrMore
    <3> QED  BY <3>1, <3>2, <3>3
  <2>3. TypeOK'
    <3>1. /\ stack' \in Seq([name : Names \cup {Script}, todo : SUBSET Names])
          /\ Len(stack') \in Nat
      BY <2>2 DEF Frames
    <3>2. Len(stack) <= MaxDepth + 1 /\ MaxDepth \in Nat
      BY DepthAssumption DEF LoadInv, TypeOK
    <3>3. Len(stack') <= MaxDepth + 1
      BY <1>2, <2>2, <3>1, <3>2
    <3>4. cache' \in SUBSET Names
      BY <1>2, <1>5
    <3> QED  BY <1>1, <1>5, <2>1, <3>1, <3>3, <3>4 DEF LoadInv, TypeOK
  <2>4. PhaseInv'
    <3>1. top \in modules
      BY <1>1, <1>2, <1>3 DEF LoadInv, StackInv
    <3>2. top # Nothing
      BY DepthAssumption
    <3>3. streaming' = streaming /\ registered' = registered /\ modules' = modules
          /\ phase' = phase /\ unpacking' = unpacking
      BY <1>1, <1>5 DEF sources
    <3>4. ~(streaming /\ phase # "ready") /\ phase # "start"
      BY <1>1, <3>1 DEF LoadInv, PhaseInv
    <3>5. phase = "loading" => unpacking = Nothing
      BY DEF LoadInv, PhaseInv
    <3>6. phase = "loading" => stack' # <<>>
      BY <2>2, <3>2, <3>5
    <3> QED  BY <1>1, <3>3, <3>4, <3>6 DEF LoadInv, PhaseInv
  <2>5. OutcomeInv'
    BY <1>1, <1>5, <2>2, ReachedStays DEF LoadInv, OutcomeInv, sources
  <2> QED  BY <1>5, <2>1, <2>2, <2>3, <2>4, <2>5 DEF LoadInv
<1> QED  BY <1>3, <1>4, <1>5 DEF ReturnExports

-----------------------------------------------------------------------------
(* Every behaviour.                                                        *)

LEMMA LoadInit == Init => LoadInv
<1> SUFFICES ASSUME Init  PROVE LoadInv
  OBVIOUS
<1>1. stack = <<>> /\ Len(stack) = 0 /\ \A i \in 1..Len(stack) : FALSE
  BY DEF Init
<1>2. TypeOK
  <2>1. 0 <= MaxDepth + 1
    BY DepthAssumption
  <2>2. stack \in Seq([name : Names \cup {Script}, todo : SUBSET Names])
    BY <1>1
  <2>3. unpacked \in [value : {Nothing, "instance", "custom"}, threw : BOOLEAN]
    BY OutcomeTypes DEF Init
  <2> QED  BY <1>1, <2>1, <2>2, <2>3 DEF Init, TypeOK
<1>3. SourcesInv
  BY DEF Init, SourcesInv
<1>4. PhaseInv /\ OutcomeInv
  BY DEF Init, PhaseInv, OutcomeInv
<1>5. StackInv
  BY <1>1 DEF StackInv
<1>6. ClassesInv /\ ClassIsUnique
  BY DEF Init, ClassesInv, ClassIsUnique
<1> QED  BY <1>2, <1>3, <1>4, <1>5, <1>6 DEF LoadInv

LEMMA LoadStutters ==
    ASSUME LoadInv, UNCHANGED vars
    PROVE  LoadInv'
<1>1. /\ UNCHANGED <<sources, cache, functions>> /\ stack' = stack /\ phase' = phase
      /\ modules' = modules /\ unpacking' = unpacking /\ unpacked' = unpacked
  BY DEF vars
<1>2. SourcesInv' /\ ClassesInv' /\ ClassIsUnique'
  BY <1>1, ClassesStay
<1>3. TypeOK' /\ PhaseInv'
  BY <1>1 DEF LoadInv, TypeOK, PhaseInv, sources
<1>4. StackInv'
  BY <1>1 DEF LoadInv, StackInv, Needs, sources
<1>5. OutcomeInv'
  BY <1>1, ReachedStays DEF LoadInv, OutcomeInv, sources
<1> QED  BY <1>2, <1>3, <1>4, <1>5 DEF LoadInv

\* Every step keeps the invariant, and the one that ends an unpacking has the
\* right outcome.
LEMMA LoadNext ==
    ASSUME LoadInv, [Next]_vars
    PROVE  LoadInv' /\ (unpacking # Nothing /\ unpacking' = Nothing =>
                           UnpackedRight)
<1>1. CASE LoadModules
  BY <1>1, LoadModulesKeeps DEF LoadModules
<1>2. CASE LoadSource
  BY <1>2, LoadSourceKeeps DEF LoadSource
<1>3. CASE CallRequire
  BY <1>3, RequireKeeps
<1>4. CASE ReturnExports
  BY <1>4, ReturnKeeps
<1>5. CASE Loaded
  BY <1>5, LoadedKeeps DEF Loaded
<1>6. CASE \E name \in Names : Unpack(name)
  BY <1>6, UnpackKeeps DEF Unpack
<1>7. CASE Construct
  BY <1>7, ConstructKeeps
<1>8. CASE UNCHANGED vars
  <2>1. LoadInv'
    BY <1>8, LoadStutters
  <2>2. unpacking' = unpacking
    BY <1>8 DEF vars
  <2> QED  BY <2>1, <2>2
<1> QED  BY <1>1, <1>2, <1>3, <1>4, <1>5, <1>6, <1>7, <1>8 DEF Next, Terminated

LEMMA LoadInvSound == LoadInv => TypeOK /\ LoadsIffResolvable /\ ClassIsUnique
<1> SUFFICES ASSUME LoadInv  PROVE LoadsIffResolvable
  BY DEF LoadInv
<1>1. ASSUME phase = "ready"
      PROVE  IF streaming THEN wants = {} ELSE Resolvable(wants)
  <2>1. wants \subseteq cache /\ (streaming => wants = {})
    BY <1>1 DEF LoadInv, OutcomeInv
  <2>2. Resolvable(wants)
    BY <2>1, StackTypes, CacheResolves DEF LoadInv
  <2> QED  BY <2>1, <2>2
<1>2. phase = "failed" => ~(IF streaming THEN wants = {} ELSE Resolvable(wants))
  BY DEF LoadInv, OutcomeInv
<1> QED  BY <1>1, <1>2 DEF LoadsIffResolvable

\* For any modules, which may miss, require each other in circles or export
\* nothing: loadSource() succeeds exactly when all that the script requires
\* can be resolved, a stream script's exactly when it requires nothing, and a
\* class is evaluated once.
THEOREM LoadingCorrect == Spec => [](TypeOK /\ LoadsIffResolvable /\ ClassIsUnique)
<1>1. LoadInv /\ [Next]_vars => LoadInv'
  BY LoadNext
<1> QED  BY LoadInit, <1>1, LoadInvSound, PTL DEF Spec

\* The same of the system that the runs check, whose sources are SomeSources.
THEOREM LoadingSound == ScriptsSpec => []LoadingIsSound
<1>1. ScriptsInit => (part = "modules" => LoadInv)
  BY LoadInit DEF ScriptsInit, SomeSources
<1>2. (part = "modules" => LoadInv) /\ [ScriptsNext]_allVars => (part = "modules" => LoadInv)'
  <2> SUFFICES ASSUME part = "modules" => LoadInv, [ScriptsNext]_allVars, part' = "modules"
               PROVE  LoadInv'
    OBVIOUS
  <2>1. part = "modules" /\ [Next]_vars
    BY DEF ScriptsNext, allVars
  <2> QED  BY <2>1, LoadNext
<1>3. (part = "modules" => LoadInv) => LoadingIsSound
  BY LoadInvSound DEF LoadingIsSound
<1> QED  BY <1>1, <1>2, <1>3, PTL DEF ScriptsSpec

\* For any modules, a value of a class is unpacked as its instance exactly when
\* the class and all that it requires can be resolved and its constructor does
\* not throw.
THEOREM UnpackingCorrect == Spec => InstanceIffResolvable
<1> DEFINE Right == unpacking # Nothing /\ unpacking' = Nothing => UnpackedRight
<1>1. LoadInv /\ [Next]_vars => LoadInv' /\ [Right]_vars
  BY LoadNext
<1> QED  BY LoadInit, <1>1, PTL DEF Spec, InstanceIffResolvable

\* The same of the system that the runs check, whose sources are SomeSources.
THEOREM UnpackingRight == ScriptsSpec => InstanceIffResolvable
<1> DEFINE Stay == part # "modules" => unpacking = Nothing
           Known == (part = "modules" => LoadInv) /\ Stay
           Right == unpacking # Nothing /\ unpacking' = Nothing => UnpackedRight
<1>1. ScriptsInit => Known
  BY LoadInit DEF ScriptsInit, SomeSources, ModulesRest
<1>2. Known /\ [ScriptsNext]_allVars => Known' /\ [Right]_vars
  <2> SUFFICES ASSUME Known, [ScriptsNext]_allVars  PROVE Known' /\ [Right]_vars
    OBVIOUS
  <2>1. CASE part = "modules" /\ [Next]_vars /\ part' = part
    BY <2>1, LoadNext
  <2>2. CASE part # "modules" /\ UNCHANGED vars /\ part' = part
    BY <2>2 DEF vars
  <2> QED  BY <2>1, <2>2 DEF ScriptsNext, allVars
<1> QED  BY <1>1, <1>2, PTL DEF ScriptsSpec, InstanceIffResolvable

-----------------------------------------------------------------------------
(* The visits of the stream thread.                                        *)

\* An entry of streamCache: what each of its script objects has seen.
Entry == [started : BOOLEAN, seen : Seq(Seq(Visits!Item))]

VisitTypes ==
    /\ Visits!TypeOK
    /\ streamCache = [k \in DOMAIN streamCache |-> streamCache[k]]
    /\ \A k \in DOMAIN streamCache : streamCache[k] \in Entry
    /\ ended \in [Visits!Key -> Seq(Entry)]
    /\ \A k \in Visits!Key : \A n \in DOMAIN segments[k] : segments[k][n] # <<>>
    /\ busy => /\ rest[layer] # <<>> /\ Visits!Visiting
               /\ Visits!cur.key \in DOMAIN streamCache

\* The thread is at an item of this stream.
At(k) == busy /\ Visits!cur.key = k

Begun(k) == k \in DOMAIN streamCache /\ streamCache[k].started

\* There is an entry while a stream is open, and while its item is at hand.
OpenInv(k) ==
    /\ ~At(k) => /\ Visits!Open(segments[k]) <=> k \in DOMAIN streamCache
                 /\ k \in DOMAIN streamCache => streamCache[k].started
    /\ At(k) => IF streamCache[k].started
                THEN /\ segments[k] # <<>>
                     /\ Visits!Last(Visits!Last(segments[k])) = Visits!cur
                ELSE Visits!cur.end /\ ~Visits!Open(segments[k])

\* The streams that are over were seen by objects of their own.
PastInv(k) ==
    /\ Len(segments[k]) = Len(ended[k]) + (IF Begun(k) THEN 1 ELSE 0)
    /\ \A n \in DOMAIN ended[k] : \A s \in DOMAIN ended[k][n].seen :
          ended[k][n].seen[s] = segments[k][n]

\* The stream that is open was seen so far, but for the item at hand.
NowInv(k) ==
    Begun(k) =>
       \A s \in DOMAIN streamCache[k].seen :
          streamCache[k].seen[s] =
             IF At(k) /\ s > called THEN Visits!Front(Visits!Last(segments[k]))
                                    ELSE Visits!Last(segments[k])

VisitInv ==
    VisitTypes /\ \A k \in Visits!Key : OpenInv(k) /\ PastInv(k) /\ NowInv(k)

\* Sequences, as far as the histories need them.
LEMMA AppendIs ==
    ASSUME NEW S, NEW s \in Seq(S), NEW x \in S, NEW longer, longer = Append(s, x)
    PROVE  /\ longer \in Seq(S) /\ Len(longer) = Len(s) + 1
           /\ longer # <<>> /\ DOMAIN longer = 1..Len(s) + 1
           /\ \A n \in 1..Len(s) : longer[n] = s[n]
           /\ longer[Len(s) + 1] = x
OBVIOUS

LEMMA FunctionIsSequence ==
    ASSUME NEW S, NEW m \in Nat, NEW f, f = [n \in 1..m |-> f[n]], \A n \in 1..m : f[n] \in S
    PROVE  f \in Seq(S) /\ Len(f) = m
<1>1. f \in [1..m -> S]
  OBVIOUS
<1> QED  BY <1>1

LEMMA FrontAppend ==
    ASSUME NEW S, NEW s \in Seq(S), NEW i \in S
    PROVE  /\ Append(s, i) \in Seq(S) /\ Append(s, i) # <<>>
           /\ Visits!Front(Append(s, i)) = s /\ Visits!Last(Append(s, i)) = i
<1>1. /\ Len(s) \in Nat /\ Append(s, i) \in Seq(S) /\ Len(Append(s, i)) = Len(s) + 1
      /\ \A n \in 1..Len(s) : Append(s, i)[n] = s[n]
      /\ Append(s, i)[Len(s) + 1] = i
  OBVIOUS
<1>2. Visits!Last(Append(s, i)) = i
  BY <1>1 DEF Visits!Last
<1>3. Visits!Front(Append(s, i)) = SubSeq(Append(s, i), 1, Len(s))
  BY <1>1 DEF Visits!Front
<1>4. SubSeq(Append(s, i), 1, Len(s)) = s
  <2> DEFINE longer == Append(s, i)
  <2>1. /\ longer \in Seq(S) /\ Len(longer) = Len(s) + 1
        /\ \A n \in 1..Len(s) : longer[n] = s[n]
    BY <1>1
  <2> HIDE DEF longer
  <2>2. SubSeq(longer, 1, Len(s)) = [n \in 1..Len(s) |-> longer[n]]
    BY <1>1, <2>1
  <2>3. [n \in 1..Len(s) |-> longer[n]] = [n \in 1..Len(s) |-> s[n]]
    BY <2>1
  <2>4. [n \in 1..Len(s) |-> s[n]] = s
    OBVIOUS
  <2> QED  BY <2>2, <2>3, <2>4 DEF longer
<1>5. Append(s, i) # <<>>
  <2>1. Len(Append(s, i)) # 0
    BY <1>1
  <2>2. Len(<<>>) = 0
    OBVIOUS
  <2> QED  BY <2>1, <2>2, Zenon
<1>6. Visits!Front(Append(s, i)) = s
  BY <1>3, <1>4, Zenon
<1>7. Append(s, i) \in Seq(S)
  BY <1>1
<1> QED  BY <1>2, <1>5, <1>6, <1>7, Zenon

LEMMA AppendLast ==
    ASSUME NEW S, NEW s \in Seq(S), s # <<>>
    PROVE  Append(Visits!Front(s), Visits!Last(s)) = s
<1> DEFINE n == Len(s) - 1
<1>1. Len(s) \in Nat /\ Len(s) # 0
  OBVIOUS
<1>2. n \in Nat /\ Len(s) = n + 1
  BY <1>1
<1> HIDE DEF n
<1>3. /\ SubSeq(s, 1, n) \in Seq(S) /\ Len(SubSeq(s, 1, n)) = n
      /\ \A k \in 1..n : SubSeq(s, 1, n)[k] = s[k]
  <2>1. SubSeq(s, 1, n) = [k \in 1..n |-> s[k]]
    BY <1>2
  <2>2. \A k \in 1..n : s[k] \in S
    BY <1>2
  <2> QED  BY <1>2, <2>1, <2>2
<1>4. Visits!Front(s) = SubSeq(s, 1, n) /\ Visits!Last(s) = s[n + 1] /\ s[n + 1] \in S
  BY <1>2 DEF Visits!Front, Visits!Last, n
<1>5. Append(SubSeq(s, 1, n), s[n + 1]) = [k \in 1..n + 1 |-> s[k]]
  BY <1>2, <1>3, <1>4
<1>6. [k \in 1..n + 1 |-> s[k]] = s
  BY <1>2
<1> QED  BY <1>4, <1>5, <1>6

\* An item that goes on with an open stream.
LEMMA CutOpen ==
    ASSUME NEW S, NEW parts \in Seq(Seq(S)), NEW i \in S, Visits!Open(parts),
           \A n \in DOMAIN parts : parts[n] # <<>>,
           NEW cut, cut = Visits!Cut(parts, i)
    PROVE  /\ cut \in Seq(Seq(S)) /\ Len(cut) = Len(parts) /\ parts # <<>> /\ cut # <<>>
           /\ \A n \in DOMAIN cut : cut[n] # <<>>
           /\ \A n \in DOMAIN parts : n # Len(parts) => cut[n] = parts[n]
           /\ Visits!Last(Visits!Last(cut)) = i
           /\ Visits!Front(Visits!Last(cut)) = Visits!Last(parts)
<1> DEFINE m == Len(parts)
<1>1. parts # <<>> /\ m \in Nat /\ m # 0 /\ m \in DOMAIN parts /\ DOMAIN parts = 1..m
  BY DEF Visits!Open
<1>2. cut = [parts EXCEPT ![m] = Append(parts[m], i)]
  BY DEF Visits!Cut
<1>3. \A n \in 1..m : parts[n] \in Seq(S)
  OBVIOUS
<1>4. parts[m] \in Seq(S)
  BY <1>1, <1>3
<1>5. /\ Append(parts[m], i) \in Seq(S) /\ Append(parts[m], i) # <<>>
      /\ Visits!Front(Append(parts[m], i)) = parts[m]
      /\ Visits!Last(Append(parts[m], i)) = i
  BY <1>4, FrontAppend
<1> HIDE DEF m
<1>6. /\ DOMAIN cut = 1..m /\ cut[m] = Append(parts[m], i)
      /\ \A n \in 1..m : n # m => cut[n] = parts[n]
      /\ cut = [n \in 1..m |-> cut[n]]
  BY <1>1, <1>2
<1>7. \A n \in 1..m : cut[n] \in Seq(S) /\ cut[n] # <<>>
  BY <1>1, <1>3, <1>5, <1>6
<1>8. cut \in Seq(Seq(S)) /\ Len(cut) = m
  <2> DEFINE T == Seq(S)
  <2>1. \A n \in 1..m : cut[n] \in T
    BY <1>7
  <2>2. m \in Nat /\ cut = [n \in 1..m |-> cut[n]]
    BY <1>1, <1>6
  <2> HIDE DEF T
  <2>3. cut \in Seq(T) /\ Len(cut) = m
    BY <2>1, <2>2, FunctionIsSequence
  <2> QED  BY <2>3 DEF T
<1>9. cut # <<>>
  BY <1>1, <1>8
<1>10. Visits!Last(cut) = Append(parts[m], i) /\ Visits!Last(parts) = parts[m]
  BY <1>6, <1>8 DEF Visits!Last, m
<1> QED  BY <1>1, <1>5, <1>6, <1>7, <1>8, <1>9, <1>10 DEF m

\* The first item of a stream.
LEMMA CutNew ==
    ASSUME NEW S, NEW parts \in Seq(Seq(S)), NEW i \in S, ~Visits!Open(parts), ~i.end,
           \A n \in DOMAIN parts : parts[n] # <<>>,
           NEW cut, cut = Visits!Cut(parts, i)
    PROVE  /\ cut \in Seq(Seq(S)) /\ Len(cut) = Len(parts) + 1 /\ cut # <<>>
           /\ \A n \in DOMAIN cut : cut[n] # <<>>
           /\ \A n \in DOMAIN parts : cut[n] = parts[n]
           /\ Visits!Last(Visits!Last(cut)) = i
           /\ Visits!Front(Visits!Last(cut)) = <<>>
<1> DEFINE m == Len(parts)
<1>1. cut = Append(parts, <<i>>) /\ <<i>> \in Seq(S) /\ <<i>> # <<>>
  BY DEF Visits!Cut
<1>2. m \in Nat /\ DOMAIN parts = 1..m
  OBVIOUS
<1>3. /\ cut \in Seq(Seq(S)) /\ Len(cut) = m + 1 /\ cut # <<>> /\ DOMAIN cut = 1..m + 1
      /\ \A n \in 1..m : cut[n] = parts[n]
      /\ cut[m + 1] = <<i>>
  <2> DEFINE first == <<i>>
             some  == Seq(S)
  <2>1. parts \in Seq(some) /\ first \in some /\ cut = Append(parts, first)
    BY <1>1
  <2> HIDE DEF first, some
  <2>2. /\ cut \in Seq(some) /\ Len(cut) = m + 1 /\ cut # <<>> /\ DOMAIN cut = 1..m + 1
        /\ \A n \in 1..m : cut[n] = parts[n]
        /\ cut[m + 1] = first
    BY <2>1, AppendIs
  <2> QED  BY <2>2 DEF first, some
<1> HIDE DEF m
<1>4. \A n \in 1..m + 1 : n \in 1..m \/ n = m + 1
  BY <1>2
<1>5. \A n \in DOMAIN cut : cut[n] # <<>>
  BY <1>1, <1>2, <1>3, <1>4
<1>6. Visits!Last(cut) = <<i>>
  BY <1>3 DEF Visits!Last
<1>7. <<>> \in Seq(S) /\ Append(<<>>, i) = <<i>>
  OBVIOUS
<1>8. Visits!Last(<<i>>) = i /\ Visits!Front(<<i>>) = <<>>
  BY <1>7, FrontAppend
<1> QED  BY <1>2, <1>3, <1>5, <1>6, <1>8 DEF m

-----------------------------------------------------------------------------
(* The steps of the visits.                                                *)

LEMMA CurTypes ==
    ASSUME VisitTypes, busy
    PROVE  /\ Visits!cur \in Visits!Item /\ Visits!cur.key \in Visits!Key
           /\ Visits!cur.end \in BOOLEAN /\ layer \in VisitLayers
           /\ rest[layer] \in Seq(Visits!Item) /\ Tail(rest[layer]) \in Seq(Visits!Item)
<1>1. layer \in VisitLayers /\ rest[layer] \in Seq(Visits!Item) /\ rest[layer] # <<>>
  BY DEF VisitTypes, Visits!TypeOK
<1>2. Visits!cur \in Visits!Item /\ Tail(rest[layer]) \in Seq(Visits!Item)
  BY <1>1 DEF Visits!cur
<1> QED  BY <1>1, <1>2 DEF Visits!Item

LEMMA VisitInit == Visits!Init => VisitInv
<1> SUFFICES ASSUME Visits!Init  PROVE VisitInv
  OBVIOUS
<1>1. /\ {MaxPackets, MaxScripts, MaxItems, NumNamespaces} \subseteq Nat
      /\ streamCache = [k \in {} |-> <<>>] /\ busy = FALSE /\ layer \in VisitLayers
      /\ segments = [k \in Visits!Key |-> <<>>] /\ ended = [k \in Visits!Key |-> <<>>]
      /\ streamScripts = [n \in Visits!Namespaces |-> <<>>]
      /\ rest = [l \in VisitLayers |-> <<>>] /\ derived = [l \in VisitLayers |-> <<>>]
      /\ maxID = 0 /\ visit = 0 /\ streamMaxID = 0 /\ made = 0 /\ called = 0
  BY ScriptsAssumption DEF Visits!Init, Visits!BoundsAssumption, Visits!None
<1>2. DOMAIN streamCache = {}
  BY <1>1
<1>3. /\ \A S : <<>> \in Seq(S)
      /\ DOMAIN <<>> = {} /\ Len(<<>>) = 0
  OBVIOUS
<1>4. Visits!TypeOK
  <2>1. 0 \in 0..MaxPackets /\ 0 \in 0..0 /\ 0 \in 0..MaxItems /\ 0 \in Nat
    BY <1>1
  <2>2. /\ streamScripts \in [Visits!Namespaces -> Seq(BOOLEAN)]
        /\ rest \in [VisitLayers -> Seq(Visits!Item)]
        /\ derived \in [VisitLayers -> Seq(Visits!Item)]
        /\ segments \in [Visits!Key -> Seq(Seq(Visits!Item))]
    BY <1>1, <1>3
  <2>3. busy \in BOOLEAN /\ DOMAIN streamCache \subseteq Visits!Key
    BY <1>1, <1>2
  <2> QED  BY <1>1, <2>1, <2>2, <2>3 DEF Visits!TypeOK
<1>5. VisitTypes
  <2>1. ended \in [Visits!Key -> Seq(Entry)]
    BY <1>1, <1>3
  <2>2. \A k \in Visits!Key : \A n \in DOMAIN segments[k] : segments[k][n] # <<>>
    BY <1>1, <1>3
  <2>3. streamCache = [k \in DOMAIN streamCache |-> streamCache[k]]
    BY <1>1
  <2> QED  BY <1>1, <1>2, <1>4, <2>1, <2>2, <2>3 DEF VisitTypes
<1>6. ASSUME NEW k \in Visits!Key
      PROVE  OpenInv(k) /\ PastInv(k) /\ NowInv(k)
  <2>1. ~At(k) /\ ~Begun(k) /\ k \notin DOMAIN streamCache
    BY <1>1, <1>2 DEF At, Begun
  <2>2. segments[k] = <<>> /\ ended[k] = <<>>
    BY <1>1
  <2>3. ~Visits!Open(segments[k])
    BY <2>2 DEF Visits!Open
  <2>4. OpenInv(k) /\ NowInv(k)
    BY <2>1, <2>3 DEF OpenInv, NowInv
  <2>5. PastInv(k)
    BY <1>3, <2>1, <2>2 DEF PastInv
  <2> QED  BY <2>4, <2>5
<1> QED  BY <1>5, <1>6 DEF VisitInv

\* What a step leaves that is not about this stream.
LEMMA OtherKey ==
    ASSUME NEW k \in Visits!Key, OpenInv(k), PastInv(k), NowInv(k), ~At(k), ~At(k)',
           segments'[k] = segments[k], ended'[k] = ended[k],
           k \in DOMAIN streamCache' <=> k \in DOMAIN streamCache,
           k \in DOMAIN streamCache => streamCache'[k] = streamCache[k]
    PROVE  OpenInv(k)' /\ PastInv(k)' /\ NowInv(k)'
<1>1. Begun(k)' <=> Begun(k)
  BY DEF Begun
<1>2. OpenInv(k)'
  BY DEF OpenInv
<1>3. PastInv(k)'
  BY <1>1 DEF PastInv
<1>4. NowInv(k)'
  BY <1>1 DEF NowInv, Begun
<1> QED  BY <1>2, <1>3, <1>4

\* Steps that take no item and call no script.
LEMMA QuietVisit ==
    ASSUME VisitInv, VisitTypes', UNCHANGED <<streamCache, segments, ended, called, busy>>,
           busy => UNCHANGED <<rest, layer>>
    PROVE  VisitInv'
<1> SUFFICES ASSUME NEW k \in Visits!Key
             PROVE  OpenInv(k)' /\ PastInv(k)' /\ NowInv(k)'
  BY DEF VisitInv
<1>1. OpenInv(k) /\ PastInv(k) /\ NowInv(k)
  BY DEF VisitInv
<1>2. CASE busy
  <2>1. Visits!cur' = Visits!cur
    BY <1>2 DEF Visits!cur
  <2>2. At(k)' <=> At(k)
    BY <2>1 DEF At
  <2>3. Begun(k)' <=> Begun(k)
    BY DEF Begun
  <2>4. OpenInv(k)'
    BY <1>1, <2>1, <2>2 DEF OpenInv
  <2>5. PastInv(k)'
    BY <1>1, <2>3 DEF PastInv
  <2>6. NowInv(k)'
    BY <1>1, <2>2, <2>3 DEF NowInv
  <2> QED  BY <2>4, <2>5, <2>6
<1>3. CASE ~busy
  <2>1. ~At(k) /\ ~At(k)'
    BY <1>3 DEF At
  <2> QED  BY <1>1, <2>1, OtherKey
<1> QED  BY <1>2, <1>3

LEMMA DissectedKeeps ==
    ASSUME VisitInv, Visits!Dissected \/ Visits!LoadStreamDissector
    PROVE  VisitInv'
<1>1. UNCHANGED <<made, streamCache, visit, streamMaxID, rest, layer, derived, busy, called,
                  segments, ended>>
  BY DEF Visits!Dissected, Visits!LoadStreamDissector, Visits!visitVars, Visits!ghostVars
<1>2. Visits!TypeOK /\ MaxPackets \in Nat
  BY ScriptsAssumption DEF VisitInv, VisitTypes, Visits!BoundsAssumption
<1>3. maxID' \in 0..MaxPackets /\ 0..maxID \subseteq 0..maxID'
  <2>1. maxID \in 0..MaxPackets
    BY <1>2 DEF Visits!TypeOK
  <2>2. CASE Visits!Dissected
    BY <1>2, <2>1, <2>2 DEF Visits!Dissected
  <2>3. CASE Visits!LoadStreamDissector
    BY <2>1, <2>3 DEF Visits!LoadStreamDissector
  <2> QED  BY <2>2, <2>3
<1>4. streamScripts' \in [Visits!Namespaces -> Seq(BOOLEAN)]
  <2>1. streamScripts \in [Visits!Namespaces -> Seq(BOOLEAN)]
    BY <1>2 DEF Visits!TypeOK
  <2>2. CASE Visits!Dissected
    BY <2>1, <2>2 DEF Visits!Dissected
  <2>3. CASE Visits!LoadStreamDissector
    <3>1. PICK n \in Visits!Namespaces, ok \in BOOLEAN :
             streamScripts' = [streamScripts EXCEPT ![n] = Append(@, ok)]
      BY <2>3 DEF Visits!LoadStreamDissector
    <3>2. Append(streamScripts[n], ok) \in Seq(BOOLEAN)
      <4>1. streamScripts[n] \in Seq(BOOLEAN)
        BY <2>1
      <4> QED  BY <4>1, AppendIs
    <3> QED  BY <2>1, <3>1, <3>2
  <2> QED  BY <2>2, <2>3
<1>5. Visits!TypeOK'
  BY <1>1, <1>2, <1>3, <1>4 DEF Visits!TypeOK
<1>6. VisitTypes'
  BY <1>1, <1>5 DEF VisitInv, VisitTypes, Visits!Visiting, Visits!cur
<1> QED  BY <1>1, <1>6, QuietVisit

LEMMA FiniteSetsAgree ==
    \A S : /\ Visits!IsFiniteSet(S) <=> IsFiniteSet(S)
          /\ Visits!Cardinality(S) = Cardinality(S)
BY DEF IsFiniteSet, Visits!IsFiniteSet, Cardinality, Visits!Cardinality

LEMMA SetToSeqIs ==
    ASSUME NEW S, IsFiniteSet(S)
    PROVE  Visits!SetToSeq(S) \in Seq(S)
<1>1. Cardinality(S) \in Nat
  BY FS_CardinalityType
<1>2. PICK f : f \in Bijection(1..Cardinality(S), S)
  <2>1. ExistsBijection(1..Cardinality(S), S)
    BY FS_CardinalityType
  <2> QED  BY <2>1 DEF ExistsBijection
<1>3. f \in [1..Cardinality(S) -> S] /\ Visits!IsInjective(f)
  BY <1>2 DEF Bijection, Injection, IsInjective, Visits!IsInjective
<1>4. Visits!SetToSeq(S) \in [1..Cardinality(S) -> S]
  BY <1>3, FiniteSetsAgree DEF Visits!SetToSeq
<1> QED  BY <1>1, <1>4

LEMMA FindStreamsKeeps ==
    ASSUME VisitInv, Visits!FindStreams
    PROVE  VisitInv'
<1>1. /\ maxID > visit /\ ~Visits!Visiting /\ visit' = visit + 1
      /\ UNCHANGED <<streamScripts, maxID, streamMaxID, layer, derived, busy, called,
                     streamCache, segments, ended>>
  BY DEF Visits!FindStreams, Visits!Wake, Visits!ghostVars
<1>2. PICK items \in SUBSET {i \in Visits!Item : i.packet = visit + 1} :
         /\ IsFiniteSet(items) /\ made + Cardinality(items) <= MaxItems
         /\ made' = made + Cardinality(items)
         /\ \E at_ \in [items -> VisitLayers] :
               rest' = [l \in VisitLayers |-> Visits!SetToSeq({i \in items : at_[i] = l})]
  BY FiniteSetsAgree DEF Visits!FindStreams
<1>3. PICK place \in [items -> VisitLayers] :
         rest' = [l \in VisitLayers |-> Visits!SetToSeq({i \in items : place[i] = l})]
  BY <1>2
<1>4. /\ Visits!TypeOK /\ {MaxPackets, MaxItems} \subseteq Nat
      /\ maxID \in 0..MaxPackets /\ visit \in 0..maxID /\ streamMaxID \in 0..visit
      /\ made \in 0..MaxItems
  BY ScriptsAssumption DEF VisitInv, VisitTypes, Visits!BoundsAssumption, Visits!TypeOK
<1>5. ~busy
  BY <1>1 DEF VisitInv, VisitTypes
<1>6. visit' \in 0..maxID' /\ streamMaxID' \in 0..visit' /\ maxID' \in 0..MaxPackets
  <2>1. maxID \in Nat /\ visit \in Nat /\ streamMaxID \in Nat
    BY <1>4
  <2> QED  BY <1>1, <1>4, <2>1
<1>7. made' \in 0..MaxItems
  <2>1. Cardinality(items) \in Nat
    BY <1>2, FS_CardinalityType
  <2> QED  BY <1>2, <1>4, <2>1
<1>8. rest' \in [VisitLayers -> Seq(Visits!Item)]
  <2> SUFFICES ASSUME NEW l \in VisitLayers
               PROVE  Visits!SetToSeq({i \in items : place[i] = l}) \in Seq(Visits!Item)
    BY <1>3
  <2> DEFINE some == {i \in items : place[i] = l}
  <2>1. some \in SUBSET items /\ some \subseteq Visits!Item
    OBVIOUS
  <2> HIDE DEF some
  <2>2. Visits!SetToSeq(some) \in Seq(some)
    <3>1. IsFiniteSet(some)
      BY <1>2, <2>1, FS_Subset
    <3> QED  BY <3>1, SetToSeqIs
  <2>3. Visits!SetToSeq(some) \in Seq(Visits!Item)
    BY <2>1, <2>2
  <2> QED  BY <2>3 DEF some
<1>9. Visits!TypeOK'
  BY <1>1, <1>4, <1>6, <1>7, <1>8 DEF Visits!TypeOK
<1>10. VisitTypes'
  BY <1>1, <1>5, <1>9 DEF VisitInv, VisitTypes
<1> QED  BY <1>1, <1>5, <1>10, QuietVisit

LEMMA RoundKeeps ==
    ASSUME VisitInv, Visits!NextRound \/ Visits!EndVisit
    PROVE  VisitInv'
<1>1. /\ ~busy /\ visit' = visit
      /\ UNCHANGED <<streamScripts, maxID, made, layer, busy, called, streamCache,
                     segments, ended>>
  BY DEF Visits!NextRound, Visits!EndVisit, Visits!ghostVars
<1>2. Visits!TypeOK
  BY DEF VisitInv, VisitTypes
<1>3. streamMaxID' \in 0..visit
  <2>1. streamMaxID \in 0..visit /\ visit \in Nat
    <3>1. maxID \in 0..MaxPackets /\ visit \in 0..maxID /\ streamMaxID \in 0..visit
      BY <1>2 DEF Visits!TypeOK
    <3> QED  BY <3>1
  <2> QED  BY <2>1 DEF Visits!NextRound, Visits!EndVisit
<1>4. /\ rest' \in [VisitLayers -> Seq(Visits!Item)]
      /\ derived' \in [VisitLayers -> Seq(Visits!Item)]
  <2>1. Visits!None \in [VisitLayers -> Seq(Visits!Item)]
    BY DEF Visits!None
  <2> QED  BY <1>2, <2>1 DEF Visits!TypeOK, Visits!NextRound, Visits!EndVisit
<1>5. Visits!TypeOK'
  BY <1>1, <1>2, <1>3, <1>4 DEF Visits!TypeOK
<1>6. VisitTypes'
  BY <1>1, <1>5 DEF VisitInv, VisitTypes
<1> QED  BY <1>1, <1>6, QuietVisit

\* The objects of a new entry have seen nothing.
LEMMA NewEntryIs ==
    ASSUME Visits!TypeOK, NEW k \in Visits!Key, NEW e, e = Visits!NewEntry(k)
    PROVE  e \in Entry /\ ~e.started /\ \A s \in DOMAIN e.seen : e.seen[s] = <<>>
<1> DEFINE good == {n \in DOMAIN streamScripts[k[1]] : streamScripts[k[1]][n]}
           m == Cardinality(good)
<1>1. streamScripts[k[1]] \in Seq(BOOLEAN)
  BY DEF Visits!TypeOK, Visits!Key
<1>2. m \in Nat
  <2>1. DOMAIN streamScripts[k[1]] = 1..Len(streamScripts[k[1]]) /\ Len(streamScripts[k[1]]) \in Nat
    BY <1>1
  <2>2. IsFiniteSet(DOMAIN streamScripts[k[1]])
    BY <2>1, FS_Interval
  <2>3. IsFiniteSet(good)
    BY <2>2, FS_Subset
  <2> QED  BY <2>3, FS_CardinalityType
<1>3. e = [started |-> FALSE, seen |-> [s \in 1..m |-> <<>>]]
  BY FiniteSetsAgree DEF Visits!NewEntry
<1> HIDE DEF m
<1>4. [s \in 1..m |-> <<>>] \in Seq(Seq(Visits!Item))
  <2>1. <<>> \in Seq(Visits!Item)
    OBVIOUS
  <2> QED  BY <1>2, <2>1
<1> QED  BY <1>3, <1>4 DEF Entry

\* The thread turns to the next item: the stream that its key is at goes on,
\* begins, or does neither when an end comes to a key that has no stream.
LEMMA TakeKeeps ==
    ASSUME VisitInv, Visits!Take
    PROVE  VisitInv'
<1>1. PICK l \in VisitLayers :
         /\ rest[l] # <<>> /\ layer' = l
         /\ streamCache' = [k \in DOMAIN streamCache \cup {Head(rest[l]).key} |->
               IF k = Head(rest[l]).key
               THEN [Visits!EntryOf(Head(rest[l]).key) EXCEPT !.started = @ \/ ~Head(rest[l]).end]
               ELSE streamCache[k]]
         /\ segments' = [segments EXCEPT ![Head(rest[l]).key] = Visits!Cut(@, Head(rest[l]))]
  BY DEF Visits!Take
<1>2. /\ Visits!Visiting /\ ~busy /\ busy' /\ busy' \in BOOLEAN /\ called' = 0
      /\ UNCHANGED <<streamScripts, maxID, made, visit, streamMaxID, rest, derived, ended>>
  BY DEF Visits!Take
<1>3. VisitTypes /\ Visits!TypeOK
  BY DEF VisitInv, VisitTypes
<1>i. PICK i \in Visits!Item : i = Head(rest[l])
  <2>1. rest[l] \in Seq(Visits!Item)
    BY <1>3 DEF Visits!TypeOK
  <2> QED  BY <1>1, <2>1
<1>k. PICK key \in Visits!Key : key = i.key
  BY DEF Visits!Item
<1> DEFINE e == Visits!EntryOf(key)
           new == [e EXCEPT !.started = @ \/ ~i.end]
           cut == Visits!Cut(segments[key], i)
<1>4. i \in Visits!Item /\ key \in Visits!Key /\ i.end \in BOOLEAN
  BY DEF Visits!Item
<1>5. Visits!cur' = i
  BY <1>1, <1>2, <1>i DEF Visits!cur
<1>6. \A k \in Visits!Key : ~At(k) /\ (At(k)' <=> k = key)
  BY <1>2, <1>5, <1>k DEF At
<1>7. /\ DOMAIN streamCache' = DOMAIN streamCache \cup {key}
      /\ streamCache'[key] = new
      /\ \A k \in DOMAIN streamCache : k # key => streamCache'[k] = streamCache[k]
      /\ streamCache' = [k \in DOMAIN streamCache' |-> streamCache'[k]]
  BY <1>1, <1>i, <1>k
<1>8. segments \in [Visits!Key -> Seq(Seq(Visits!Item))]
  BY <1>3 DEF Visits!TypeOK
<1>9. /\ DOMAIN segments' = Visits!Key /\ segments' = [k \in Visits!Key |-> segments'[k]]
      /\ segments'[key] = cut /\ \A k \in Visits!Key : k # key => segments'[k] = segments[k]
  BY <1>1, <1>4, <1>8, <1>i, <1>k
<1>10. segments[key] \in Seq(Seq(Visits!Item)) /\ \A n \in DOMAIN segments[key] : segments[key][n] # <<>>
  BY <1>3, <1>4, <1>8 DEF VisitTypes
<1>11. OpenInv(key) /\ PastInv(key) /\ NowInv(key) /\ ~At(key)
  BY <1>4, <1>6 DEF VisitInv
<1>12. e \in Entry /\ e.started \in BOOLEAN
  <2>1. CASE key \in DOMAIN streamCache
    BY <1>3, <2>1 DEF VisitTypes, Visits!EntryOf, Entry
  <2>2. CASE key \notin DOMAIN streamCache
    <3>1. e = Visits!NewEntry(key)
      BY <2>2 DEF Visits!EntryOf
    <3> QED  BY <1>3, <1>4, <3>1, NewEntryIs DEF Entry
  <2> QED  BY <2>1, <2>2
<1>13. new \in Entry /\ new.seen = e.seen
  BY <1>4, <1>12 DEF Entry
<1>14. new.started <=> e.started \/ ~i.end
  BY <1>4, <1>12 DEF Entry
<1> HIDE DEF e, new, cut
<1>15. /\ cut \in Seq(Seq(Visits!Item)) /\ \A n \in DOMAIN cut : cut[n] # <<>>
       /\ OpenInv(key)' /\ PastInv(key)' /\ NowInv(key)'
  <2> DEFINE parts == segments[key]
             past  == ended[key]
  <2>1. /\ parts \in Seq(Seq(Visits!Item)) /\ \A n \in DOMAIN parts : parts[n] # <<>>
        /\ cut = Visits!Cut(parts, i)
    BY <1>10 DEF cut
  <2>2. /\ Len(parts) \in Nat /\ DOMAIN parts = 1..Len(parts)
        /\ past \in Seq(Entry) /\ Len(past) \in Nat /\ DOMAIN past = 1..Len(past)
    BY <1>3, <1>4, <2>1 DEF VisitTypes
  <2>3. /\ Visits!Open(parts) <=> key \in DOMAIN streamCache
        /\ key \in DOMAIN streamCache => streamCache[key].started
        /\ Len(parts) = Len(past) + (IF Begun(key) THEN 1 ELSE 0)
        /\ \A n \in DOMAIN past : \A s \in DOMAIN past[n].seen : past[n].seen[s] = parts[n]
    BY <1>11 DEF OpenInv, PastInv
  <2>4. /\ At(key)' /\ streamCache'[key] = new /\ key \in DOMAIN streamCache'
        /\ ended'[key] = past /\ segments'[key] = cut
    BY <1>2, <1>4, <1>6, <1>7, <1>9
  <2>5. Begun(key)' <=> new.started
    BY <2>4 DEF Begun
  <2> HIDE DEF parts, past
  <2>6. \A s \in DOMAIN new.seen : s > 0
    BY <1>13 DEF Entry
  <2>7. CASE key \in DOMAIN streamCache
    <3>1. e = streamCache[key] /\ e.started /\ Visits!Open(parts) /\ Begun(key)
      BY <2>3, <2>7 DEF Visits!EntryOf, e, Begun
    <3>2. new.started /\ Begun(key)'
      BY <1>14, <2>5, <3>1
    <3>3. /\ cut \in Seq(Seq(Visits!Item)) /\ Len(cut) = Len(parts) /\ cut # <<>>
          /\ \A n \in DOMAIN cut : cut[n] # <<>>
          /\ \A n \in DOMAIN parts : n # Len(parts) => cut[n] = parts[n]
          /\ Visits!Last(Visits!Last(cut)) = i
          /\ Visits!Front(Visits!Last(cut)) = Visits!Last(parts)
      BY <1>4, <2>1, <3>1, CutOpen
    <3>4. OpenInv(key)'
      BY <1>5, <2>4, <3>2, <3>3 DEF OpenInv
    <3>5. PastInv(key)'
      <4>1. Len(parts) = Len(past) + 1
        BY <2>3, <3>1
      <4>2. \A n \in DOMAIN past : n \in DOMAIN parts /\ n # Len(parts)
        BY <2>2, <4>1
      <4>3. \A n \in DOMAIN past : \A s \in DOMAIN past[n].seen : past[n].seen[s] = cut[n]
        BY <2>3, <3>3, <4>2
      <4> QED  BY <2>4, <3>2, <3>3, <4>1, <4>3 DEF PastInv
    <3>6. NowInv(key)'
      <4>1. \A s \in DOMAIN new.seen : new.seen[s] = Visits!Last(parts)
        BY <1>11, <1>13, <3>1 DEF NowInv, parts
      <4>2. \A s \in DOMAIN new.seen : new.seen[s] = Visits!Front(Visits!Last(cut)) /\ s > called'
        BY <1>2, <2>6, <3>3, <4>1
      <4> QED  BY <2>4, <4>2 DEF NowInv
    <3> QED  BY <3>3, <3>4, <3>5, <3>6
  <2>8. CASE key \notin DOMAIN streamCache
    <3>1. e = Visits!NewEntry(key)
      BY <2>8 DEF Visits!EntryOf, e
    <3>2. ~e.started /\ \A s \in DOMAIN e.seen : e.seen[s] = <<>>
      BY <1>3, <1>4, <3>1, NewEntryIs
    <3>3. ~Visits!Open(parts) /\ ~Begun(key) /\ Len(parts) = Len(past)
      BY <2>2, <2>3, <2>8 DEF Begun
    <3>4. CASE ~i.end
      <4>1. new.started /\ Begun(key)'
        BY <1>14, <2>5, <3>4
      <4>2. /\ cut \in Seq(Seq(Visits!Item)) /\ Len(cut) = Len(parts) + 1 /\ cut # <<>>
            /\ \A n \in DOMAIN cut : cut[n] # <<>>
            /\ \A n \in DOMAIN parts : cut[n] = parts[n]
            /\ Visits!Last(Visits!Last(cut)) = i
            /\ Visits!Front(Visits!Last(cut)) = <<>>
        BY <1>4, <2>1, <3>3, <3>4, CutNew
      <4>3. OpenInv(key)'
        BY <1>5, <2>4, <4>1, <4>2 DEF OpenInv
      <4>4. PastInv(key)'
        <5>1. Len(cut) = Len(past) + 1
          BY <3>3, <4>2
        <5>2. \A n \in DOMAIN past : \A s \in DOMAIN past[n].seen : past[n].seen[s] = cut[n]
          BY <2>2, <2>3, <3>3, <4>2
        <5> QED  BY <2>4, <4>1, <5>1, <5>2 DEF PastInv
      <4>5. NowInv(key)'
        <5>1. \A s \in DOMAIN new.seen : new.seen[s] = Visits!Front(Visits!Last(cut)) /\ s > called'
          BY <1>2, <1>13, <2>6, <3>2, <4>2
        <5> QED  BY <2>4, <5>1 DEF NowInv
      <4> QED  BY <4>2, <4>3, <4>4, <4>5
    <3>5. CASE i.end
      <4>1. ~new.started /\ ~Begun(key)'
        BY <1>14, <2>5, <3>2, <3>5
      <4>2. cut = parts
        BY <2>1, <3>3, <3>5 DEF Visits!Cut
      <4>3. OpenInv(key)'
        BY <1>5, <2>4, <3>3, <3>5, <4>1, <4>2 DEF OpenInv
      <4>4. PastInv(key)'
        BY <2>3, <2>4, <3>3, <4>1, <4>2 DEF PastInv
      <4>5. NowInv(key)'
        BY <4>1 DEF NowInv
      <4> QED  BY <2>1, <4>2, <4>3, <4>4, <4>5
    <3> QED  BY <3>4, <3>5
  <2> QED  BY <2>7, <2>8
<1>16. Visits!TypeOK'
  <2>1. segments' \in [Visits!Key -> Seq(Seq(Visits!Item))]
    BY <1>8, <1>9, <1>15
  <2>2. DOMAIN streamCache' \subseteq Visits!Key
    BY <1>3, <1>4, <1>7 DEF Visits!TypeOK
  <2> QED  BY <1>1, <1>2, <1>3, <2>1, <2>2 DEF Visits!TypeOK
<1>17. VisitTypes'
  <2>1. \A k \in DOMAIN streamCache' : streamCache'[k] \in Entry
    BY <1>3, <1>7, <1>13 DEF VisitTypes
  <2>2. \A k \in Visits!Key : \A n \in DOMAIN segments'[k] : segments'[k][n] # <<>>
    <3> SUFFICES ASSUME NEW k \in Visits!Key
                 PROVE  \A n \in DOMAIN segments'[k] : segments'[k][n] # <<>>
      OBVIOUS
    <3>1. CASE k = key
      BY <1>9, <1>15, <3>1
    <3>2. CASE k # key
      <4>1. segments'[k] = segments[k]
        BY <1>9, <3>2
      <4> QED  BY <1>3, <4>1 DEF VisitTypes
    <3> QED  BY <3>1, <3>2
  <2>3. rest'[layer'] # <<>> /\ Visits!cur'.key \in DOMAIN streamCache'
    BY <1>1, <1>2, <1>5, <1>7, <1>k
  <2>5. Visits!Visiting'
    BY <1>2 DEF Visits!Visiting
  <2>4. ended' \in [Visits!Key -> Seq(Entry)]
    BY <1>2, <1>3 DEF VisitTypes
  <2> QED  BY <1>7, <1>16, <2>1, <2>2, <2>3, <2>4, <2>5 DEF VisitTypes
<1>18. ASSUME NEW k \in Visits!Key, k # key
       PROVE  OpenInv(k)' /\ PastInv(k)' /\ NowInv(k)'
  <2>1. OpenInv(k) /\ PastInv(k) /\ NowInv(k) /\ ~At(k) /\ ~At(k)'
    BY <1>6, <1>18 DEF VisitInv
  <2>2. segments'[k] = segments[k] /\ ended'[k] = ended[k]
    BY <1>2, <1>9, <1>18
  <2>3. k \in DOMAIN streamCache' <=> k \in DOMAIN streamCache
    BY <1>7, <1>18
  <2>4. k \in DOMAIN streamCache => streamCache'[k] = streamCache[k]
    BY <1>7, <1>18
  <2> QED  BY <2>1, <2>2, <2>3, <2>4, OtherKey
<1> QED  BY <1>15, <1>17, <1>18 DEF VisitInv

\* The item at hand, as constants of a step.
LEMMA ItemAtHand ==
    ASSUME VisitInv, busy
    PROVE  \E i \in Visits!Item, key \in Visits!Key :
              /\ i = Visits!cur /\ key = i.key /\ i.end \in BOOLEAN
              /\ \A k \in Visits!Key : At(k) <=> k = key
              /\ key \in DOMAIN streamCache /\ streamCache[key] \in Entry
<1>1. VisitTypes
  BY DEF VisitInv
<1>2. PICK i \in Visits!Item : i = Visits!cur
  BY <1>1, CurTypes
<1>3. PICK key \in Visits!Key : key = i.key
  BY <1>2 DEF Visits!Item
<1>4. \A k \in Visits!Key : At(k) <=> k = key
  BY <1>2, <1>3 DEF At
<1>5. key \in DOMAIN streamCache /\ streamCache[key] \in Entry
  BY <1>1, <1>2, <1>3 DEF VisitTypes
<1>6. i.end \in BOOLEAN
  BY DEF Visits!Item
<1> QED  BY <1>2, <1>3, <1>4, <1>5, <1>6

\* What a stream script derives is typed.
LEMMA DerivedIs ==
    ASSUME Visits!TypeOK, Visits!AnalyzeStream
    PROVE  made' \in 0..MaxItems /\ derived' \in [VisitLayers -> Seq(Visits!Item)]
<1>1. made \in 0..MaxItems /\ derived \in [VisitLayers -> Seq(Visits!Item)] /\ layer \in VisitLayers
  BY DEF Visits!TypeOK
<1>2. CASE UNCHANGED <<made, derived>>
  BY <1>1, <1>2
<1>3. CASE ~UNCHANGED <<made, derived>>
  <2>1. PICK i \in Visits!Item :
           /\ made < MaxItems /\ made' = made + 1
           /\ derived' = [derived EXCEPT ![layer] = Append(@, i)]
    BY <1>3 DEF Visits!AnalyzeStream
  <2>2. Append(derived[layer], i) \in Seq(Visits!Item)
    <3>1. derived[layer] \in Seq(Visits!Item)
      BY <1>1
    <3> QED  BY <3>1, FrontAppend
  <2>3. MaxItems \in Nat
    BY ScriptsAssumption DEF Visits!BoundsAssumption
  <2> QED  BY <1>1, <2>1, <2>2, <2>3
<1> QED  BY <1>2, <1>3

\* A script is called for the item, which was all that its object lacked.
LEMMA AnalyzeStreamKeeps ==
    ASSUME VisitInv, Visits!AnalyzeStream
    PROVE  VisitInv'
<1>1. /\ busy /\ Visits!Pending # {} /\ called' = called + 1
      /\ UNCHANGED <<streamScripts, maxID, visit, streamMaxID, rest, layer, busy, segments, ended>>
  BY DEF Visits!AnalyzeStream, Visits!ghostVars
<1>2. PICK i \in Visits!Item, key \in Visits!Key :
         /\ i = Visits!cur /\ key = i.key /\ i.end \in BOOLEAN
         /\ \A k \in Visits!Key : At(k) <=> k = key
         /\ key \in DOMAIN streamCache /\ streamCache[key] \in Entry
  BY <1>1, ItemAtHand
<1>3. VisitTypes /\ Visits!TypeOK
  BY DEF VisitInv, VisitTypes
<1>4. At(key) /\ OpenInv(key) /\ PastInv(key) /\ NowInv(key)
  BY <1>2 DEF VisitInv
<1> DEFINE e == streamCache[key]
           whole == Visits!Last(segments[key])
           seen == [e.seen EXCEPT ![called + 1] = Append(@, i)]
<1>5. e.started
  <2>1. ~e.started => i.end
    BY <1>2, <1>4 DEF OpenInv
  <2>2. ~e.started /\ i.end => Visits!Pending = {}
    BY <1>2 DEF Visits!Pending
  <2> QED  BY <1>1, <2>1, <2>2
<1>6. /\ e.seen \in Seq(Seq(Visits!Item)) /\ called \in Nat
      /\ called + 1 \in DOMAIN e.seen
  <2>1. e.seen \in Seq(Seq(Visits!Item)) /\ called \in Nat
    BY <1>2, <1>3 DEF Entry, Visits!TypeOK
  <2>2. \E s \in DOMAIN e.seen : s > called
    BY <1>1, <1>2 DEF Visits!Pending
  <2>3. DOMAIN e.seen = 1..Len(e.seen) /\ Len(e.seen) \in Nat
    BY <2>1
  <2> QED  BY <2>1, <2>2, <2>3
<1>7. whole \in Seq(Visits!Item) /\ whole # <<>> /\ Visits!Last(whole) = i
  <2>1. /\ segments[key] # <<>> /\ segments[key] \in Seq(Seq(Visits!Item))
        /\ Visits!Last(whole) = i
    BY <1>2, <1>3, <1>4, <1>5 DEF OpenInv, Visits!TypeOK
  <2>2. \A n \in DOMAIN segments[key] : segments[key][n] # <<>>
    BY <1>2, <1>3 DEF VisitTypes
  <2>3. Len(segments[key]) \in Nat /\ Len(segments[key]) # 0
        /\ DOMAIN segments[key] = 1..Len(segments[key])
    BY <2>1
  <2>4. Len(segments[key]) \in DOMAIN segments[key]
    BY <2>3
  <2>5. \A n \in DOMAIN segments[key] : segments[key][n] \in Seq(Visits!Item)
    BY <2>1
  <2> QED  BY <2>1, <2>2, <2>4, <2>5 DEF Visits!Last
<1>8. Append(Visits!Front(whole), i) = whole
  BY <1>7, AppendLast
<1>9. \A s \in DOMAIN e.seen : e.seen[s] = IF s > called THEN Visits!Front(whole) ELSE whole
  BY <1>4, <1>5, <1>2 DEF NowInv, Begun
<1>10. /\ streamCache' = [streamCache EXCEPT ![key] = [e EXCEPT !.seen = seen]]
  BY <1>2 DEF Visits!AnalyzeStream
<1> HIDE DEF whole, seen, e
<1>11. /\ DOMAIN seen = DOMAIN e.seen
       /\ seen[called + 1] = whole
       /\ \A s \in DOMAIN e.seen : s # called + 1 => seen[s] = e.seen[s]
  <2>1. e.seen[called + 1] = Visits!Front(whole)
    BY <1>6, <1>9
  <2> QED  BY <1>6, <1>8, <2>1 DEF seen
<1>12. \A s \in DOMAIN seen : seen[s] = IF s > called + 1 THEN Visits!Front(whole) ELSE whole
  <2>1. DOMAIN e.seen \subseteq Nat
    BY <1>6
  <2> QED  BY <1>6, <1>9, <1>11, <2>1
<1>13. seen \in Seq(Seq(Visits!Item))
  <2> DEFINE items == Seq(Visits!Item)
             m == Len(e.seen)
  <2>1. e.seen \in Seq(items) /\ whole \in items
    BY <1>6, <1>7
  <2> HIDE DEF items
  <2>2. m \in Nat /\ DOMAIN e.seen = 1..m /\ \A s \in DOMAIN e.seen : e.seen[s] \in items
    BY <2>1
  <2>3. \A s \in 1..m : seen[s] \in items
    BY <1>11, <2>1, <2>2
  <2>4. seen = [s \in 1..m |-> seen[s]]
    BY <1>6, <2>2 DEF seen
  <2> HIDE DEF m
  <2>5. seen \in Seq(items)
    BY <2>2, <2>3, <2>4, FunctionIsSequence
  <2> QED  BY <2>5 DEF items
<1>14. /\ DOMAIN streamCache' = DOMAIN streamCache
       /\ streamCache' = [k \in DOMAIN streamCache' |-> streamCache'[k]]
       /\ streamCache'[key] \in Entry /\ streamCache'[key].started
       /\ streamCache'[key].seen = seen
       /\ \A k \in DOMAIN streamCache : k # key => streamCache'[k] = streamCache[k]
  <2>1. [e EXCEPT !.seen = seen] \in Entry /\ [e EXCEPT !.seen = seen].seen = seen
        /\ [e EXCEPT !.seen = seen].started = e.started
    BY <1>2, <1>13 DEF Entry, e
  <2>2. streamCache = [k \in DOMAIN streamCache |-> streamCache[k]]
    BY <1>3 DEF VisitTypes
  <2> QED  BY <1>2, <1>5, <1>10, <2>1, <2>2
<1>15. Visits!TypeOK'
  <2>1. called' \in Nat
    BY <1>1, <1>6
  <2>2. made' \in 0..MaxItems /\ derived' \in [VisitLayers -> Seq(Visits!Item)]
    BY <1>3, DerivedIs
  <2> QED  BY <1>1, <1>3, <1>14, <2>1, <2>2 DEF Visits!TypeOK
<1>16. Visits!cur' = Visits!cur
  BY <1>1 DEF Visits!cur
<1>17. VisitTypes'
  <2>1. \A k \in DOMAIN streamCache' : streamCache'[k] \in Entry
    BY <1>3, <1>14 DEF VisitTypes
  <2>2. rest'[layer'] # <<>> /\ Visits!cur'.key \in DOMAIN streamCache'
    BY <1>1, <1>3, <1>14, <1>16 DEF VisitTypes
  <2>3. Visits!Visiting'
    BY <1>1, <1>3 DEF Visits!Visiting, VisitTypes
  <2>4. /\ ended' \in [Visits!Key -> Seq(Entry)]
        /\ \A k \in Visits!Key : \A n \in DOMAIN segments'[k] : segments'[k][n] # <<>>
    BY <1>1, <1>3 DEF VisitTypes
  <2> QED  BY <1>14, <1>15, <2>1, <2>2, <2>3, <2>4 DEF VisitTypes
<1>18. \A k \in Visits!Key : At(k)' <=> At(k)
  BY <1>1, <1>16 DEF At
<1>19. ASSUME NEW k \in Visits!Key
       PROVE  OpenInv(k)' /\ PastInv(k)' /\ NowInv(k)'
  <2>1. CASE k # key
    <3>1. OpenInv(k) /\ PastInv(k) /\ NowInv(k) /\ ~At(k) /\ ~At(k)'
      BY <1>2, <1>18, <2>1 DEF VisitInv
    <3>2. /\ segments'[k] = segments[k] /\ ended'[k] = ended[k]
          /\ k \in DOMAIN streamCache' <=> k \in DOMAIN streamCache
          /\ k \in DOMAIN streamCache => streamCache'[k] = streamCache[k]
      BY <1>1, <1>14, <2>1
    <3> QED  BY <3>1, <3>2, OtherKey
  <2>2. CASE k = key
    <3>1. At(key) /\ At(key)' /\ Begun(key) /\ Begun(key)'
      BY <1>2, <1>4, <1>5, <1>14, <1>18 DEF Begun, e
    <3>2. OpenInv(key)'
      BY <1>1, <1>4, <1>5, <1>14, <1>16, <3>1 DEF OpenInv, e
    <3>3. PastInv(key)'
      BY <1>1, <1>4, <3>1 DEF PastInv
    <3>4. NowInv(key)'
      BY <1>1, <1>12, <1>14 , <3>1 DEF NowInv, whole
    <3> QED  BY <2>2, <3>2, <3>3, <3>4
  <2> QED  BY <2>1, <2>2
<1> QED  BY <1>17, <1>19 DEF VisitInv

\* All scripts are called; behind an end the entry goes, and counts as the one
\* of a stream if the stream had begun.
LEMMA AnalyzedKeeps ==
    ASSUME VisitInv, Visits!Analyzed
    PROVE  VisitInv'
<1>1. /\ busy /\ ~busy' /\ busy' \in BOOLEAN /\ Visits!Pending = {}
      /\ UNCHANGED <<streamScripts, maxID, made, visit, streamMaxID, layer, derived, called, segments>>
  BY DEF Visits!Analyzed
<1>2. /\ rest' = [rest EXCEPT ![layer] = Tail(@)]
      /\ streamCache' = [k \in DOMAIN streamCache \ Visits!Erased |-> streamCache[k]]
      /\ ended' = [k \in Visits!Key |-> IF k \in Visits!Erased /\ streamCache[k].started
                                        THEN Append(ended[k], streamCache[k]) ELSE ended[k]]
  BY DEF Visits!Analyzed
<1>3. PICK i \in Visits!Item, key \in Visits!Key :
         /\ i = Visits!cur /\ key = i.key /\ i.end \in BOOLEAN
         /\ \A k \in Visits!Key : At(k) <=> k = key
         /\ key \in DOMAIN streamCache /\ streamCache[key] \in Entry
  BY <1>1, ItemAtHand
<1>4. VisitTypes /\ Visits!TypeOK
  BY DEF VisitInv, VisitTypes
<1>5. At(key) /\ OpenInv(key) /\ PastInv(key) /\ NowInv(key)
  BY <1>3 DEF VisitInv
<1>6. Visits!Erased = IF i.end THEN {key} ELSE {}
  BY <1>3 DEF Visits!Erased
<1>7. /\ DOMAIN streamCache' = DOMAIN streamCache \ Visits!Erased
      /\ streamCache' = [k \in DOMAIN streamCache' |-> streamCache'[k]]
      /\ \A k \in DOMAIN streamCache' : streamCache'[k] = streamCache[k]
  BY <1>2
<1>8. \A k \in Visits!Key : ~At(k)'
  BY <1>1 DEF At
<1>9. \A k \in Visits!Key : k # key => ended'[k] = ended[k]
  BY <1>2, <1>6
<1>10. ended'[key] = IF i.end /\ streamCache[key].started
                     THEN Append(ended[key], streamCache[key]) ELSE ended[key]
  BY <1>2, <1>6
<1>11. \A k \in Visits!Key : ended'[k] \in Seq(Entry)
  <2>1. \A k \in Visits!Key : ended[k] \in Seq(Entry)
    BY <1>4 DEF VisitTypes
  <2>2. Append(ended[key], streamCache[key]) \in Seq(Entry)
    <3>1. ended[key] \in Seq(Entry)
      BY <2>1
    <3> QED  BY <1>3, <3>1, FrontAppend
  <2>3. ended'[key] \in Seq(Entry)
    BY <1>10, <2>1, <2>2
  <2> QED  BY <1>9, <2>1, <2>3
<1>12. ended' \in [Visits!Key -> Seq(Entry)]
  BY <1>2, <1>11
<1>13. Visits!TypeOK'
  <2>1. rest' \in [VisitLayers -> Seq(Visits!Item)]
    BY <1>1, <1>2, <1>4, CurTypes DEF Visits!TypeOK
  <2>2. DOMAIN streamCache' \subseteq Visits!Key
    BY <1>4, <1>7 DEF Visits!TypeOK
  <2> QED  BY <1>1, <1>4, <2>1, <2>2 DEF Visits!TypeOK
<1>14. VisitTypes'
  <2>1. \A k \in DOMAIN streamCache' : streamCache'[k] \in Entry
    BY <1>4, <1>7 DEF VisitTypes
  <2>2. \A k \in Visits!Key : \A n \in DOMAIN segments'[k] : segments'[k][n] # <<>>
    BY <1>1, <1>4 DEF VisitTypes
  <2> QED  BY <1>1, <1>7, <1>12, <1>13, <2>1, <2>2 DEF VisitTypes
<1>15. ASSUME NEW k \in Visits!Key, k # key
       PROVE  OpenInv(k)' /\ PastInv(k)' /\ NowInv(k)'
  <2>1. OpenInv(k) /\ PastInv(k) /\ NowInv(k) /\ ~At(k) /\ ~At(k)'
    BY <1>3, <1>8, <1>15 DEF VisitInv
  <2>2. segments'[k] = segments[k] /\ ended'[k] = ended[k]
    BY <1>1, <1>9, <1>15
  <2>3. k \in DOMAIN streamCache' <=> k \in DOMAIN streamCache
    BY <1>6, <1>7, <1>15
  <2>4. k \in DOMAIN streamCache => streamCache'[k] = streamCache[k]
    BY <1>7, <2>3
  <2> QED  BY <2>1, <2>2, <2>3, <2>4, OtherKey
<1>16. OpenInv(key)' /\ PastInv(key)' /\ NowInv(key)'
  <2> DEFINE e == streamCache[key]
             parts == segments[key]
  <2>1. IF e.started THEN parts # <<>> /\ Visits!Last(Visits!Last(parts)) = i
                     ELSE i.end /\ ~Visits!Open(parts)
    BY <1>3, <1>5 DEF OpenInv
  <2>2. ~At(key)' /\ segments'[key] = parts
    BY <1>1, <1>8
  <2>3. e.started => \A s \in DOMAIN e.seen : e.seen[s] = Visits!Last(parts)
    <3>1. e.started => \A s \in DOMAIN e.seen : ~(s > called)
      BY <1>1, <1>3 DEF Visits!Pending
    <3> QED  BY <1>3, <1>5, <3>1 DEF NowInv, Begun
  <2>4. /\ Len(parts) = Len(ended[key]) + (IF e.started THEN 1 ELSE 0)
        /\ \A n \in DOMAIN ended[key] : \A s \in DOMAIN ended[key][n].seen :
              ended[key][n].seen[s] = parts[n]
    BY <1>3, <1>5 DEF PastInv, Begun
  <2>5. ended[key] \in Seq(Entry) /\ parts \in Seq(Seq(Visits!Item)) /\ e \in Entry
    BY <1>3, <1>4 DEF VisitTypes, Visits!TypeOK
  <2> HIDE DEF e, parts
  <2>6. CASE ~i.end
    <3>1. /\ key \in DOMAIN streamCache' /\ streamCache'[key] = e /\ e.started
          /\ ended'[key] = ended[key]
      BY <1>3, <1>6, <1>7, <1>10, <2>1, <2>6 DEF e
    <3>2. Visits!Open(parts)
      BY <2>1, <2>6, <3>1 DEF Visits!Open
    <3>3. Begun(key)'
      BY <3>1 DEF Begun
    <3>4. OpenInv(key)'
      BY <2>2, <3>1, <3>2 DEF OpenInv
    <3>5. PastInv(key)'
      BY <2>2, <2>4, <3>1, <3>3 DEF PastInv
    <3>6. NowInv(key)'
      BY <2>2, <2>3, <3>1, <3>3 DEF NowInv
    <3> QED  BY <3>4, <3>5, <3>6
  <2>7. CASE i.end
    <3>1. key \notin DOMAIN streamCache' /\ ~Begun(key)'
      BY <1>6, <1>7, <2>7 DEF Begun
    <3>2. ~Visits!Open(parts)
      BY <2>1, <2>7 DEF Visits!Open
    <3>3. OpenInv(key)' /\ NowInv(key)'
      BY <2>2, <3>1, <3>2 DEF OpenInv, NowInv
    <3>4. CASE ~e.started
      <4>1. ended'[key] = ended[key] /\ Len(parts) = Len(ended[key]) + 0
        BY <1>10, <2>4, <3>4 DEF e
      <4>2. PastInv(key)'
        BY <2>2, <2>4, <3>1, <4>1 DEF PastInv
      <4> QED  BY <3>3, <4>2
    <3>5. CASE e.started
      <4> DEFINE past == ended[key]
                 m == Len(past)
                 now == ended'[key]
      <4>1. m \in Nat /\ DOMAIN past = 1..m /\ Len(parts) = m + 1
        BY <2>4, <2>5, <3>5
      <4>2. now = Append(past, e)
        BY <1>10, <2>7, <3>5 DEF e
      <4>3. past \in Seq(Entry)
        BY <2>5
      <4> HIDE DEF past, now
      <4>4. /\ DOMAIN now = 1..Len(past) + 1 /\ Len(now) = Len(past) + 1
            /\ \A n \in 1..Len(past) : now[n] = past[n]
            /\ now[Len(past) + 1] = e
        BY <2>5, <4>2, <4>3, AppendIs
      <4> HIDE DEF m
      <4>5. Visits!Last(parts) = parts[m + 1]
        BY <4>1 DEF Visits!Last
      <4>6. \A n \in 1..m : \A s \in DOMAIN now[n].seen : now[n].seen[s] = parts[n]
        BY <2>4, <4>1, <4>4 DEF past, m
      <4>7. \A s \in DOMAIN now[m + 1].seen : now[m + 1].seen[s] = parts[m + 1]
        BY <2>3, <3>5, <4>4, <4>5 DEF m
      <4>8. DOMAIN now = 1..m + 1 /\ Len(now) = m + 1
        BY <4>4 DEF m
      <4>9. \A n \in DOMAIN now : n \in 1..m \/ n = m + 1
        BY <4>1, <4>8
      <4>10. \A n \in DOMAIN now : \A s \in DOMAIN now[n].seen : now[n].seen[s] = parts[n]
        BY <4>6, <4>7, <4>9
      <4>11. Len(parts) = Len(now) + 0
        BY <4>1, <4>8
      <4>12. PastInv(key)'
        BY <2>2, <3>1, <4>10, <4>11 DEF PastInv, now
      <4> QED  BY <3>3, <4>12
    <3> QED  BY <3>4, <3>5
  <2> QED  BY <2>6, <2>7
<1> QED  BY <1>14, <1>15, <1>16 DEF VisitInv

LEMMA VisitStutters ==
    ASSUME VisitInv, UNCHANGED visitVars
    PROVE  VisitInv'
<1>1. UNCHANGED <<streamScripts, maxID, made, streamCache, visit, streamMaxID, rest, layer,
                  derived, busy, called, segments, ended>>
  BY DEF visitVars
<1>2. Visits!TypeOK'
  BY <1>1 DEF VisitInv, VisitTypes, Visits!TypeOK
<1>3. VisitTypes'
  BY <1>1, <1>2 DEF VisitInv, VisitTypes, Visits!Visiting, Visits!cur
<1> QED  BY <1>1, <1>3, QuietVisit

LEMMA VisitNext ==
    ASSUME part = "visit" => VisitInv, [ScriptsNext]_allVars
    PROVE  (part = "visit" => VisitInv)'
<1> SUFFICES ASSUME part' = "visit"  PROVE VisitInv'
  OBVIOUS
<1>1. part = "visit" /\ VisitInv
  BY DEF ScriptsNext, allVars
<1>2. Visits!Next \/ UNCHANGED visitVars
  BY <1>1 DEF ScriptsNext, allVars
<1>3. CASE UNCHANGED visitVars
  BY <1>1, <1>3, VisitStutters
<1>4. CASE Visits!Terminated
  <2>1. UNCHANGED visitVars
    BY <1>4 DEF Visits!Terminated, Visits!vars, Visits!visitVars, Visits!ghostVars, visitVars
  <2> QED  BY <1>1, <2>1, VisitStutters
<1>5. CASE Visits!Dissected \/ Visits!LoadStreamDissector
  BY <1>1, <1>5, DissectedKeeps
<1>6. CASE Visits!FindStreams
  BY <1>1, <1>6, FindStreamsKeeps
<1>7. CASE Visits!Take
  BY <1>1, <1>7, TakeKeeps
<1>8. CASE Visits!AnalyzeStream
  BY <1>1, <1>8, AnalyzeStreamKeeps
<1>9. CASE Visits!Analyzed
  BY <1>1, <1>9, AnalyzedKeeps
<1>10. CASE Visits!NextRound \/ Visits!EndVisit
  BY <1>1, <1>10, RoundKeeps
<1> QED  BY <1>2, <1>3, <1>4, <1>5, <1>6, <1>7, <1>8, <1>9, <1>10 DEF Visits!Next, Visits!StreamThread

\* The entries of a key: those that are over, then the one of the open stream.
LEMMA EntriesAre ==
    ASSUME VisitTypes, NEW k \in Visits!Key
    PROVE  /\ ended[k] \in Seq(Entry)
           /\ ~Begun(k) => Visits!Entries(k) = ended[k]
           /\ Begun(k) => Visits!Entries(k) = Append(ended[k], streamCache[k])
<1>1. ended[k] \in Seq(Entry)
  BY DEF VisitTypes
<1>2. ended[k] \o <<>> = ended[k]
  BY <1>1
<1>3. Begun(k) => ended[k] \o <<streamCache[k]>> = Append(ended[k], streamCache[k])
  BY <1>1
<1> QED  BY <1>1, <1>2, <1>3 DEF Visits!Entries, Begun

LEMMA EachSeesOneStream ==
    ASSUME VisitInv
    PROVE  Visits!ObjectsSeeOneStream
<1> SUFFICES ASSUME NEW k \in Visits!Key
             PROVE  /\ Len(Visits!Entries(k)) = Len(segments[k])
                    /\ \A n \in DOMAIN Visits!Entries(k) :
                          \A s \in DOMAIN Visits!Entries(k)[n].seen :
                             Visits!Entries(k)[n].seen[s] =
                                IF /\ /\ busy /\ Visits!cur.key = k /\ streamCache[k].started
                                      /\ n = Len(Visits!Entries(k))
                                   /\ s > called
                                THEN Visits!Front(segments[k][n]) ELSE segments[k][n]
  BY DEF Visits!ObjectsSeeOneStream
<1> DEFINE all == Visits!Entries(k)
           past == ended[k]
           parts == segments[k]
           m == Len(past)
<1>1. VisitTypes /\ PastInv(k) /\ NowInv(k)
  BY DEF VisitInv
<1>2. /\ past \in Seq(Entry) /\ m \in Nat /\ DOMAIN past = 1..m
      /\ ~Begun(k) => all = past
      /\ Begun(k) => all = Append(past, streamCache[k])
  BY <1>1, EntriesAre
<1>3. /\ Len(parts) = m + (IF Begun(k) THEN 1 ELSE 0)
      /\ \A n \in DOMAIN past : \A s \in DOMAIN past[n].seen : past[n].seen[s] = parts[n]
  BY <1>1 DEF PastInv
<1>4. busy /\ Visits!cur.key = k /\ streamCache[k].started <=> At(k) /\ Begun(k)
  BY <1>1 DEF VisitTypes, At, Begun
<1>5. CASE ~Begun(k)
  BY <1>2, <1>3, <1>4, <1>5
<1>6. CASE Begun(k)
  <2> DEFINE now == streamCache[k]
  <2>1. now \in Entry
    BY <1>1, <1>6 DEF VisitTypes, Begun
  <2> HIDE DEF all, past
  <2>2. /\ Len(all) = Len(past) + 1 /\ DOMAIN all = 1..Len(past) + 1
        /\ \A n \in 1..Len(past) : all[n] = past[n]
        /\ all[Len(past) + 1] = now
    <3>1. all = Append(past, now) /\ past \in Seq(Entry)
      BY <1>2, <1>6
    <3> QED  BY <2>1, <3>1, AppendIs
  <2>3. Len(parts) = m + 1
    BY <1>3, <1>6
  <2>4. Visits!Last(parts) = parts[m + 1]
    BY <2>3 DEF Visits!Last
  <2>5. \A s \in DOMAIN now.seen :
           now.seen[s] = IF At(k) /\ s > called THEN Visits!Front(parts[m + 1]) ELSE parts[m + 1]
    BY <1>1, <1>6, <2>4 DEF NowInv
  <2> HIDE DEF m, parts, now
  <2>6. /\ Len(all) = m + 1 /\ DOMAIN all = 1..m + 1 /\ all[m + 1] = now
        /\ \A n \in 1..m : all[n] = past[n]
    BY <2>2 DEF m
  <2>7. \A n \in 1..m : n # m + 1
    BY <1>2
  <2>8. \A n \in DOMAIN all : n \in 1..m \/ n = m + 1
    BY <1>2, <2>6
  <2>9. ASSUME NEW n \in DOMAIN all, NEW s \in DOMAIN all[n].seen
        PROVE  all[n].seen[s] = IF At(k) /\ n = m + 1 /\ s > called
                                THEN Visits!Front(parts[n]) ELSE parts[n]
    <3>1. CASE n = m + 1
      BY <2>5, <2>6, <3>1
    <3>2. CASE n \in 1..m
      BY <1>2, <1>3, <2>6, <2>7, <3>2
    <3> QED  BY <2>8, <3>1, <3>2
  <2>10. Len(all) = Len(parts)
    BY <2>3, <2>6
  <2> QED  BY <1>4, <1>6, <2>6, <2>9, <2>10 DEF all, parts
<1> QED  BY <1>5, <1>6

LEMMA VisitInvSound == (part = "visit" => VisitInv) => VisitIsSound
<1> SUFFICES ASSUME VisitInv
             PROVE  Visits!TypeOK /\ Visits!ObjectsSeeOneStream /\ Visits!EntriesAreOpen
  BY DEF VisitIsSound
<1>1. ASSUME ~busy, NEW k \in DOMAIN streamCache
      PROVE  /\ streamCache[k].started
             /\ \A s \in DOMAIN streamCache[k].seen : ~Visits!Last(streamCache[k].seen[s]).end
  <2>1. k \in Visits!Key
    BY DEF VisitInv, VisitTypes, Visits!TypeOK
  <2>2. ~At(k) /\ OpenInv(k) /\ NowInv(k)
    BY <1>1, <2>1 DEF VisitInv, At
  <2>3. streamCache[k].started /\ Visits!Open(segments[k])
    BY <2>2 DEF OpenInv
  <2>4. \A s \in DOMAIN streamCache[k].seen :
           streamCache[k].seen[s] = Visits!Last(segments[k])
    BY <2>2, <2>3 DEF NowInv, Begun
  <2> QED  BY <2>3, <2>4 DEF Visits!Open
<1>2. Visits!EntriesAreOpen
  BY <1>1 DEF Visits!EntriesAreOpen
<1> QED  BY <1>2, EachSeesOneStream DEF VisitInv, VisitTypes

\* For any number of streams, scripts and packets, and however dissection, the
\* loading of stream scripts and the visits interleave: every script object
\* sees one stream, all of it and in order, and the end of a stream frees its
\* objects.
THEOREM VisitSound == ScriptsSpec => []VisitIsSound
<1>1. ScriptsInit => (part = "visit" => VisitInv)
  BY VisitInit DEF ScriptsInit
<1>2. (part = "visit" => VisitInv) /\ [ScriptsNext]_allVars => (part = "visit" => VisitInv)'
  BY VisitNext
<1> QED  BY <1>1, <1>2, VisitInvSound, PTL DEF ScriptsSpec
=============================================================================
