-------------------------------- MODULE Hnsw --------------------------------
(***************************************************************************)
(* The vector index (engine/index/hnsw) with put, remove and searchVector  *)
(* of CarinaEngine on top of it.  The code takes no lock, so one call      *)
(* follows the other; a step is one turn of one of the loops of a call.    *)
(*                                                                         *)
(* A vector is a number and l2DistanceSquare orders like the distance on   *)
(* the line.  Vectors differ and no vector is as far from one as from      *)
(* another, so the order in the priority queues is determined.             *)
(***************************************************************************)
EXTENDS Integers, Sequences, FiniteSets, SequencesExt

CONSTANTS
    Vectors,
    VectorKeys,     \* keys that are put with vectors, numbered as they come
    MaxM,           \* maxM_; maxM0_ is its double
    Ef,             \* efConstruction_
    MaxLevel,       \* bound
    MaxVectorNodes  \* bound

Distance(a, b) == IF a < b THEN b - a ELSE a - b

ASSUME HnswAssumption ==
    /\ Vectors \subseteq Int /\ VectorKeys \subseteq Nat
    /\ \A a, b, c \in Vectors : a # c /\ b # c /\ a # b => Distance(a, c) # Distance(b, c)
    /\ MaxM \in Nat \ {0} /\ Ef \in Nat \ {0} /\ MaxLevel \in Nat /\ MaxVectorNodes \in Nat

VARIABLES
    nodes,       \* nodes_: for each id the vector and the neighbours on its levels, from 0
    enter,       \* enterPointId_
    keyOf,       \* vectorIdToKey_
    live,        \* the keys that a query finds
    \* the call under way
    pc,          \* "idle", "search" (in searchLayer), "select" and "prune" (in selectHeuristic),
                 \*   "link" (the loop over selectNeighbors), "found"
    inserting,   \* whether the call is insert, else search
    query,       \* the vector that is inserted or asked for
    targetLevel, \* 0 for a search
    layer,       \* lc
    ep,          \* currObj
    visited, results,  \* of searchLayer
    candidates,  \* of searchLayer and selectHeuristic
    ahead,       \* the neighbours of currNode that are still to be looked at
    selected,    \* of selectHeuristic
    chosen       \* selectNeighbors, from the one whose turn it is

graphVars == <<nodes, enter>>
clientVars == <<keyOf, live>>
callVars == <<inserting, query, targetLevel>>
layerVars == <<visited, results, ahead>>
selectVars == <<selected, chosen>>
indexVars == <<graphVars, clientVars, pc, callVars, layer, ep, layerVars, candidates, selectVars>>

IndexInit ==
    /\ nodes = <<>> /\ enter = 0 /\ keyOf = <<>> /\ live = {}
    /\ pc = "idle" /\ inserting = FALSE /\ query = 0 /\ targetLevel = 0 /\ layer = 0 /\ ep = 0
    /\ visited = {} /\ results = {} /\ candidates = {} /\ ahead = <<>>
    /\ selected = <<>> /\ chosen = <<>>

Ids == 1 .. Len(nodes)
\* The node that is being inserted, the last of them.
New == Len(nodes)

LayerMax == IF layer = 0 THEN 2 * MaxM ELSE MaxM
LevelOf(n) == Len(nodes[n].neighbors) - 1
Neighbors(n, lc) == IF lc <= LevelOf(n) THEN nodes[n].neighbors[lc + 1] ELSE <<>>

Away(v, n) == Distance(nodes[n].vector, v)
Nearest(v, set) == CHOOSE n \in set : \A m \in set : Away(v, n) <= Away(v, m)
Furthest(v, set) == CHOOSE n \in set : \A m \in set : Away(v, m) <= Away(v, n)

-----------------------------------------------------------------------------
(* searchLayer                                                             *)

BeginLayer(lc, start) ==
    /\ pc' = "search" /\ layer' = lc /\ ep' = start
    /\ visited' = {start} /\ results' = {start} /\ candidates' = {start} /\ ahead' = <<>>

\* Above targetLevel the search is for the one nearest node.
Breadth == IF layer > targetLevel THEN 1 ELSE Ef

VisitAgain ==  \* a mutant of the next one: a node may be a candidate more than once
    /\ pc = "search" /\ ahead # <<>>
    /\ LET n == Head(ahead)
           more == results \cup {n}
       IN IF Cardinality(results) < Breadth \/ Away(query, n) < Away(query, Furthest(query, results))
          THEN /\ candidates' = candidates \cup {n}
               /\ results' = IF Cardinality(more) > Breadth THEN more \ {Furthest(query, more)} ELSE more
          ELSE UNCHANGED <<candidates, results>>
    /\ ahead' = Tail(ahead)
    /\ UNCHANGED <<graphVars, clientVars, pc, callVars, layer, ep, visited, selectVars>>
Visit ==
    /\ pc = "search" /\ ahead # <<>>
    /\ LET n == Head(ahead)
           more == results \cup {n}
       IN /\ visited' = visited \cup {n}
          /\ IF /\ n \notin visited
                /\ \/ Cardinality(results) < Breadth
                   \/ Away(query, n) < Away(query, Furthest(query, results))
             THEN /\ candidates' = candidates \cup {n}
                  /\ results' = IF Cardinality(more) > Breadth THEN more \ {Furthest(query, more)} ELSE more
             ELSE UNCHANGED <<candidates, results>>
    /\ ahead' = Tail(ahead)
    /\ UNCHANGED <<graphVars, clientVars, pc, callVars, layer, ep, selectVars>>

Exhausted ==
    candidates # {} => Away(query, Nearest(query, candidates)) > Away(query, Furthest(query, results))

Expand ==
    /\ pc = "search" /\ ahead = <<>> /\ ~ Exhausted
    /\ LET current == Nearest(query, candidates)
       IN candidates' = candidates \ {current} /\ ahead' = Neighbors(current, layer)
    /\ UNCHANGED <<graphVars, clientVars, pc, callVars, layer, ep, visited, results, selectVars>>

LayerSearched == pc = "search" /\ ahead = <<>> /\ Exhausted

\* The greedy descent over the layers above targetLevel.
Descend ==
    /\ LayerSearched /\ layer > targetLevel
    /\ BeginLayer(layer - 1, Nearest(query, results))
    /\ UNCHANGED <<graphVars, clientVars, callVars, selectVars>>

-----------------------------------------------------------------------------
(* selectHeuristic: for the new node and, when a list grows too long, for  *)
(* the node it belongs to.                                                 *)

Centre == IF pc = "prune" THEN nodes[Head(chosen)].vector ELSE query

ApartFromNone(n) == TRUE  \* a mutant of the next one: no heuristic
\* No node that is selected already is nearer to n than the centre is.
ApartFromSelected(n) ==
    \A i \in DOMAIN selected : Distance(nodes[n].vector, nodes[selected[i]].vector) > Away(Centre, n)

Select ==
    /\ pc \in {"select", "prune"}
    /\ candidates # {} /\ Len(selected) < LayerMax
    /\ LET n == Nearest(Centre, candidates)
       IN /\ candidates' = candidates \ {n}
          /\ selected' = IF ApartFromSelected(n) THEN Append(selected, n) ELSE selected
    /\ UNCHANGED <<graphVars, clientVars, pc, callVars, layer, ep, layerVars, chosen>>

Selected == candidates = {} \/ Len(selected) >= LayerMax

-----------------------------------------------------------------------------
(* insert                                                                  *)

BeginSelect ==
    /\ LayerSearched /\ layer <= targetLevel /\ inserting
    /\ pc' = "select" /\ candidates' = results /\ selected' = <<>>
    /\ visited' = {} /\ results' = {} /\ UNCHANGED ahead
    /\ UNCHANGED <<graphVars, clientVars, callVars, layer, ep, chosen>>

EndSelect ==
    /\ pc = "select" /\ Selected
    /\ pc' = "link" /\ chosen' = selected
    /\ ep' = IF selected = <<>> THEN ep ELSE selected[1]
    /\ candidates' = {} /\ selected' = <<>>
    /\ UNCHANGED <<graphVars, clientVars, callVars, layer, layerVars>>

LinkUnpruned ==  \* a mutant of the next one
    /\ pc = "link" /\ chosen # <<>>
    /\ LET n == Head(chosen)
       IN nodes' = [nodes EXCEPT ![New].neighbors[layer + 1] = Append(@, n),
                                 ![n].neighbors[layer + 1] = Append(@, New)]
    /\ chosen' = Tail(chosen)
    /\ UNCHANGED <<enter, clientVars, pc, callVars, layer, ep, layerVars, candidates, selected>>
\* Both directions; a list that grows too long is pruned.
Link ==
    /\ pc = "link" /\ chosen # <<>>
    /\ LET n == Head(chosen)
           back == Append(nodes[n].neighbors[layer + 1], New)
       IN /\ nodes' = [nodes EXCEPT ![New].neighbors[layer + 1] = Append(@, n),
                                    ![n].neighbors[layer + 1] = back]
          /\ IF Len(back) > LayerMax
             THEN pc' = "prune" /\ candidates' = ToSet(back) /\ UNCHANGED chosen
             ELSE chosen' = Tail(chosen) /\ UNCHANGED <<pc, candidates>>
    /\ UNCHANGED <<enter, clientVars, callVars, layer, ep, layerVars, selected>>

EndPrune ==
    /\ pc = "prune" /\ Selected
    /\ pc' = "link" /\ chosen' = Tail(chosen)
    /\ nodes' = [nodes EXCEPT ![Head(chosen)].neighbors[layer + 1] = selected]
    /\ candidates' = {} /\ selected' = <<>>
    /\ UNCHANGED <<enter, clientVars, callVars, layer, ep, layerVars>>

LayerLinked == pc = "link" /\ chosen = <<>>

NextLayer ==
    /\ LayerLinked /\ layer > 0
    /\ BeginLayer(layer - 1, ep)
    /\ UNCHANGED <<graphVars, clientVars, callVars, selectVars>>

\* What a call leaves of its own variables.
Return ==
    /\ pc' = "idle" /\ inserting' = FALSE /\ query' = 0 /\ targetLevel' = 0 /\ layer' = 0 /\ ep' = 0
    /\ visited' = {} /\ results' = {} /\ candidates' = {} /\ ahead' = <<>>
    /\ UNCHANGED selectVars

\* The key can be found once the index has the vector.
EndInsert ==
    /\ LayerLinked /\ layer = 0
    /\ enter' = IF targetLevel > LevelOf(enter) THEN New ELSE enter
    /\ live' = live \cup {keyOf[New]}
    /\ Return
    /\ UNCHANGED <<nodes, keyOf>>

-----------------------------------------------------------------------------
(* The calls: put, remove and searchVector of the engine.                  *)

\* randomLevel: minus the logarithm of a random number, scaled and rounded down.
RandomLevels == 0 .. MaxLevel

\* put: each put with a vector has an id of its own; older vectors of the key stay.
PutVector(k) ==
    /\ pc = "idle"
    /\ Len(nodes) < MaxVectorNodes /\ k <= Cardinality(ToSet(keyOf)) + 1
    /\ keyOf' = Append(keyOf, k)
    /\ \E v \in Vectors \ {nodes[n].vector : n \in Ids}, level \in RandomLevels :
          /\ nodes' = Append(nodes, [vector |-> v, neighbors |-> [i \in 1 .. level + 1 |-> <<>>]])
          /\ IF nodes = <<>>
             THEN /\ enter' = 1 /\ live' = live \cup {k}
                  /\ UNCHANGED <<pc, callVars, layer, ep, layerVars, candidates>>
             ELSE /\ inserting' = TRUE /\ query' = v /\ targetLevel' = level
                  /\ BeginLayer(LevelOf(enter), enter)
                  /\ UNCHANGED <<enter, live>>
    /\ UNCHANGED selectVars

\* remove leaves the index alone.
RemoveVector(k) ==
    /\ pc = "idle"
    /\ k \in live
    /\ live' = live \ {k}
    /\ UNCHANGED <<graphVars, keyOf, pc, callVars, layer, ep, layerVars, candidates, selectVars>>

BeginQuery(v) ==
    /\ pc = "idle" /\ nodes # <<>>
    /\ query' = v
    /\ BeginLayer(LevelOf(enter), enter)
    /\ UNCHANGED <<graphVars, clientVars, inserting, targetLevel, selectVars>>

EndQuery ==
    /\ LayerSearched /\ layer = 0 /\ ~ inserting
    /\ pc' = "found" /\ visited' = {} /\ candidates' = {}
    /\ UNCHANGED <<graphVars, clientVars, callVars, layer, ep, results, ahead, selectVars>>

\* search cuts the sorted results off after count of them, and searchVector those whose
\* key a query finds.
FirstOf(set, count) == {n \in set : Cardinality({m \in set : Away(query, m) < Away(query, n)}) < count}
Found(set) == {n \in set : keyOf[n] \in live}
SearchVectorOnly(k) == FirstOf(Found(FirstOf(results, k)), k)  \* a mutant of the next one
SearchVector(k) == FirstOf(Found(FirstOf(results, 2 * k)), k)

GiveAnswer == pc = "found" /\ Return /\ UNCHANGED <<graphVars, clientVars>>

CallStep ==
    \/ Visit \/ Expand \/ Descend
    \/ BeginSelect \/ Select \/ EndSelect \/ Link \/ EndPrune \/ NextLayer \/ EndInsert
    \/ EndQuery \/ GiveAnswer

IndexNext ==
    \/ \E k \in VectorKeys : PutVector(k) \/ RemoveVector(k)
    \/ \E v \in Vectors : BeginQuery(v)
    \/ CallStep

\* A call runs on: it is a loop without waiting.
IndexSpec == IndexInit /\ [][IndexNext]_indexVars /\ WF_indexVars(CallStep)

-----------------------------------------------------------------------------
(* Properties.                                                             *)

\* Between calls: a neighbour on a layer exists there (the code indexes its lists without a
\* check), no list is longer than maxM_ or maxM0_, none names a node twice or its owner, and
\* the entry point is on the top layer.
LinksSound ==
    pc = "idle" =>
        \A n \in Ids :
            /\ LevelOf(n) <= LevelOf(enter)
            /\ \A lc \in 0 .. LevelOf(n) :
                  LET list == Neighbors(n, lc)
                  IN /\ Len(list) <= (IF lc = 0 THEN 2 * MaxM ELSE MaxM)
                     /\ IsInjective(list)
                     /\ \A m \in ToSet(list) : m # n /\ LevelOf(m) >= lc

\* Each vector could be compared with all the others when it was put.
AllCompared == Len(nodes) <= Ef + 1

\* On a line the lowest layer does not come apart, whatever was pruned and in whatever
\* order the vectors came: a search finds the nearest vectors.
FindsNearest == pc = "found" /\ AllCompared => FirstOf(results, Ef) = FirstOf(Ids, Ef)

\* Asking for twice as many makes up for removed keys, as long as there are not more
\* removed vectors than answers wanted.
RemovedMadeUpFor ==
    pc = "found" /\ AllCompared =>
        \A k \in 1 .. Ef \div 2 :
            Len(nodes) - Cardinality(Found(Ids)) <= k => SearchVector(k) = FirstOf(Found(Ids), k)

\* Neighbours lead in circles, but every call ends (visited in searchLayer, and the
\* layers, candidates and neighbours that it takes one by one).
CallsEnd == pc # "idle" ~> pc = "idle"

=============================================================================
