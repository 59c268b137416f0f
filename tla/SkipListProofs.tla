--------------------------- MODULE SkipListProofs ---------------------------
(***************************************************************************)
(* Theorems about the lock-free skip list of module SkipList, for any      *)
(* number of writers and readers, any keys, any height and any arena.      *)
(***************************************************************************)
EXTENDS SkipList, SequenceTheorems, TLAPS

-----------------------------------------------------------------------------
(* Nodes and their owners.  Every linked node is linked once, and every    *)
(* put has a node of its own, which is linked when put starts on level 1.  *)

NodesSound ==
    /\ \A i, j \in 1 .. Len(order) : order[i] = order[j] => i = j
    /\ Linked \subseteq 2 .. used
    /\ height[HeadNode] = MaxHeight
    /\ \A n \in 2 .. used : key[n] \in Keys /\ height[n] \in 1 .. MaxHeight

Rising(t) == pc[t] \in {"rise", "refind"}

OwnNode(t) ==
    IF pc[t] = "idle" THEN mine[t] = Null
    ELSE /\ mine[t] \in 2 .. used
         /\ key[mine[t]] = goal[t]
         /\ (mine[t] \in Linked) <=> Rising(t)
         /\ Rising(t) => rising[t] > 0 /\ rising[t] < height[mine[t]]
         /\ pc[t] # "get"
OwnNodes ==
    /\ \A t \in Writers : OwnNode(t)
    /\ \A t, u \in Writers : t # u /\ mine[t] # Null => mine[t] # mine[u]

Structure == TypeOK /\ NodesSound /\ OwnNodes

LEMMA Bounds ==
    /\ MaxHeight \in Nat \ {0} /\ MaxNodes \in Nat \ {0}
    /\ 0 \in Levels /\ MaxHeight - 1 \in Levels /\ Levels \subseteq Nat
    /\ HeadNode \in Nodes /\ Null \notin Nodes /\ Nodes \subseteq Nat
    /\ NoKey \notin Keys /\ Idle \notin Nodes /\ Idle # Null
BY SkipListAssumption DEF Levels, Nodes, HeadNode, Null, NoKey, Idle

\* What compare_exchange_strong on level 0 does to the history of insertions.
LEMMA LinkedGrows ==
    ASSUME order \in Seq(Nodes), NEW x \in Nodes, order' = Append(order, x)
    PROVE  /\ order' \in Seq(Nodes)
           /\ Len(order) \in Nat
           /\ Len(order') = Len(order) + 1
           /\ \A i \in 1 .. Len(order) : order'[i] = order[i]
           /\ order'[Len(order) + 1] = x
           /\ Linked' = Linked \cup {x}
<1>1. /\ order' \in Seq(Nodes)
      /\ Len(order) \in Nat
      /\ Len(order') = Len(order) + 1
      /\ \A i \in 1 .. Len(order) : order'[i] = order[i]
      /\ order'[Len(order) + 1] = x
  BY AppendProperties, LenProperties
<1>2. Linked' = Linked \cup {x}
  BY <1>1 DEF Linked
<1> QED  BY <1>1, <1>2

LEMMA InitStructure == Init => Structure
<1> SUFFICES ASSUME Init PROVE Structure
  OBVIOUS
<1> USE SkipListAssumption, Bounds DEF Init
<1>1. order = <<>> /\ <<>> \in Seq(Nodes) /\ Len(<<>>) = 0
  BY EmptySeq
<1>2. Linked = {}
  BY <1>1 DEF Linked
<1>3. TypeOK
  BY <1>1 DEF TypeOK, NoTower, Levels, Nodes, HeadNode
<1>4. NodesSound
  <2>1. height[HeadNode] = MaxHeight
    OBVIOUS
  <2>2. 2 .. used = {}
    BY DEF HeadNode
  <2> QED  BY <1>1, <1>2, <2>1, <2>2, SMTT(20) DEF NodesSound
<1>5. OwnNodes
  BY DEF OwnNodes, OwnNode, Threads
<1> QED  BY <1>3, <1>4, <1>5 DEF Structure

\* The walk of one thread changes no pointer; most actions leave most variables alone.
LEMMA TypeStep == Structure /\ [Next]_vars => TypeOK'
<1> SUFFICES ASSUME Structure, [Next]_vars PROVE TypeOK'
  OBVIOUS
<1> USE SkipListAssumption, Bounds DEF Structure, nodeVars, walkVars
<1>t. TypeOK
  OBVIOUS
<1>p. /\ \A m \in Nodes, i \in Levels : next[m][i] \in Nodes \cup {Null}
      /\ \A t \in Threads : current[t] \in Nodes /\ level[t] \in Levels
  BY DEF TypeOK
<1>a. \A t \in Threads : Ahead(t) \in Nodes \cup {Null}
  BY <1>p DEF Ahead
<1>l. \A i \in Levels : i > 0 => i - 1 \in Levels
  BY DEF Levels
<1>1. ASSUME NEW t \in Threads, Forward(t) PROVE TypeOK'
  <2>1. Ahead(t) # Null => Ahead(t) \in Nodes
    BY <1>a
  <2>2. current' \in [Threads -> Nodes]
    BY <1>1, <2>1 DEF TypeOK, Forward, Short
  <2> QED  BY <1>1, <2>2 DEF TypeOK, Forward
<1>2. ASSUME NEW t \in Writers, FindLevel(t) PROVE TypeOK'
  <2>1. /\ t \in Threads /\ level[t] \in Levels /\ current[t] \in Nodes
        /\ Ahead(t) \in Nodes \cup {Null}
    BY <1>p, <1>a DEF Threads
  <2>2. preds' \in [Writers -> [Levels -> Nodes \cup {Null}]]
    BY <1>2, <2>1 DEF TypeOK, FindLevel
  <2>3. succs' \in [Writers -> [Levels -> Nodes \cup {Null}]]
    BY <1>2, <2>1 DEF TypeOK, FindLevel
  <2>4. level' \in [Threads -> Levels]
    <3>1. CASE level[t] > 0
      <4>1. level' = [level EXCEPT ![t] = level[t] - 1]
        BY <1>2, <3>1 DEF FindLevel
      <4> QED  BY <1>l, <1>t, <2>1, <3>1, <4>1 DEF TypeOK
    <3>2. CASE ~ (level[t] > 0)
      BY <1>2, <3>2 DEF TypeOK, FindLevel
    <3> QED  BY <3>1, <3>2
  <2>5. pc' \in [Threads -> {"idle", "find", "link", "rise", "refind", "get"}]
    BY <1>2, <2>1, ZenonT(30) DEF TypeOK, FindLevel
  <2> QED  BY <1>2, <2>2, <2>3, <2>4, <2>5 DEF TypeOK, FindLevel
<1> DEFINE ThreadsTyped ==
             /\ pc \in [Threads -> {"idle", "find", "link", "rise", "refind", "get"}]
             /\ goal \in [Threads -> Keys \cup {NoKey}]
             /\ current \in [Threads -> Nodes]
             /\ level \in [Threads -> Levels]
             /\ mine \in [Writers -> Nodes \cup {Null}]
             /\ preds \in [Writers -> [Levels -> Nodes \cup {Null}]]
             /\ succs \in [Writers -> [Levels -> Nodes \cup {Null}]]
             /\ rising \in [Writers -> Levels]
             /\ answer \in [Readers -> Nodes \cup {Null}]
<1>r. ThreadsTyped
  BY DEF TypeOK
<1>3. ASSUME NEW t \in Writers, NEW i \in Nat, Rise(t, i), height[mine[t]] \in 1 .. MaxHeight
      PROVE  ThreadsTyped'
  <2>1. CASE i < height[mine[t]]
    <3>1. i \in Levels
      BY <1>3, <2>1 DEF Levels
    <3>2. /\ pc' = [pc EXCEPT ![t] = "rise"]
          /\ rising' = [rising EXCEPT ![t] = i]
          /\ UNCHANGED <<goal, current, level, mine, preds, succs, answer>>
      BY <1>3, <2>1 DEF Rise
    <3> QED  BY <1>r, <3>1, <3>2
  <2>2. CASE ~ (i < height[mine[t]])
    <3>1. NoTower \in [Levels -> Nodes \cup {Null}]
      BY DEF NoTower
    <3>2. Finished(t)
      BY <1>3, <2>2 DEF Rise
    <3> QED  BY <1>r, <3>1, <3>2 DEF Finished
  <2> QED  BY <2>1, <2>2
<1>4. ASSUME NEW t \in Writers, pc[t] # "idle"
      PROVE  /\ mine[t] \in 2 .. used /\ mine[t] \in Nodes
             /\ height[mine[t]] \in 1 .. MaxHeight
  BY <1>4 DEF OwnNodes, OwnNode, NodesSound, TypeOK, Nodes
<1>5. ASSUME NEW t \in Writers, pc[t] # "idle" PROVE Tower(t) \in [Levels -> Nodes \cup {Null}]
  BY DEF TypeOK, Tower
<1>6. ASSUME NEW t \in Writers, LinkBottom(t) PROVE TypeOK'
  <2>1. pc[t] # "idle" /\ Rise(t, 1)
    BY <1>6 DEF LinkBottom
  <2>2. next' \in [Nodes -> [Levels -> Nodes \cup {Null}]]
    <3> DEFINE nx == [next EXCEPT ![mine[t]] = Tower(t)]
    <3>1. nx \in [Nodes -> [Levels -> Nodes \cup {Null}]]
      BY <1>4, <1>5, <2>1 DEF TypeOK
    <3>2. next' = [nx EXCEPT ![preds[t][0]][0] = mine[t]]
      BY <1>6 DEF LinkBottom
    <3> HIDE DEF nx
    <3> QED  BY <1>4, <2>1, <3>1, <3>2
  <2>3. order' \in Seq(Nodes)
    BY <1>4, <1>6, <2>1, LinkedGrows DEF LinkBottom, TypeOK
  <2>4. ThreadsTyped'
    BY <1>3, <1>4, <2>1
  <2> QED  BY <1>6, <2>2, <2>3, <2>4 DEF LinkBottom, TypeOK
<1>7. ASSUME NEW t \in Writers, RetryBottom(t) PROVE TypeOK'
  <2>1. next' \in [Nodes -> [Levels -> Nodes \cup {Null}]]
    BY <1>4, <1>5, <1>7 DEF RetryBottom, TypeOK
  <2> QED  BY <1>7, <2>1 DEF RetryBottom, TypeOK, FromTheTop, Threads
<1>8. ASSUME NEW t \in Writers, LinkUpper(t) PROVE TypeOK'
  <2>1. pc[t] # "idle" /\ Rise(t, rising[t] + 1) /\ rising[t] \in Levels
    BY <1>8 DEF LinkUpper, TypeOK
  <2>2. next' \in [Nodes -> [Levels -> Nodes \cup {Null}]]
    BY <1>4, <1>8, <2>1 DEF LinkUpper, TypeOK
  <2>3. rising[t] + 1 \in Nat
    <3>1. rising[t] \in Nat
      BY <2>1
    <3> QED  BY <3>1
  <2>4. ThreadsTyped'
    BY <1>3, <1>4, <2>1, <2>3
  <2> QED  BY <1>8, <2>2, <2>4 DEF LinkUpper, TypeOK
<1>9. ASSUME NEW t \in Writers, RetryUpper(t) PROVE TypeOK'
  <2>1. /\ pc' = [pc EXCEPT ![t] = "refind"]
        /\ current' = [current EXCEPT ![t] = HeadNode]
        /\ level' = [level EXCEPT ![t] = MaxHeight - 1]
        /\ UNCHANGED <<nodeVars, next, order, goal, mine, preds, succs, rising, answer, walkVars>>
    BY <1>9 DEF RetryUpper, FromTheTop
  <2> QED  BY <1>t, <2>1 DEF TypeOK
<1>10. ASSUME NEW t \in Writers, NEW k \in Keys, NEW h \in 1 .. MaxHeight, Put(t, k, h)
       PROVE  TypeOK'
  <2>1. used + 1 \in Nodes /\ used' = used + 1
    BY <1>10 DEF Put, TypeOK, Nodes
  <2>2. h \in 0 .. MaxHeight
    OBVIOUS
  <2>3. key' \in [Nodes -> Keys \cup {NoKey}] /\ height' \in [Nodes -> 0 .. MaxHeight]
    BY <1>10, <2>1, <2>2 DEF Put, TypeOK
  <2> QED  BY <1>10, <2>1, <2>3 DEF Put, TypeOK, FromTheTop, Threads
<1>11. ASSUME NEW t \in Readers, Descend(t) PROVE TypeOK'
  <2>1. /\ level[t] > 0 /\ t \in Threads
        /\ level' = [level EXCEPT ![t] = level[t] - 1]
        /\ UNCHANGED <<nodeVars, next, order, pc, goal, current, mine, preds, succs, rising, answer, walkVars>>
    BY <1>11 DEF Descend, Threads
  <2>2. level' \in [Threads -> Levels]
    BY <1>l, <1>p, <1>t, <2>1 DEF TypeOK
  <2> QED  BY <1>t, <2>1, <2>2 DEF TypeOK
<1>12. ASSUME NEW t \in Readers, Return(t) PROVE TypeOK'
  <2>1. Ahead(t) \in Nodes \cup {Null}
    BY <1>a DEF Threads
  <2> QED  BY <1>12, <2>1 DEF Return, TypeOK, Threads
<1>13. ASSUME NEW t \in Readers, NEW k \in Keys, Get(t, k) PROVE TypeOK'
  BY <1>13 DEF Get, TypeOK, FromTheTop, Threads
<1>14. CASE BeginWalk
  BY <1>14 DEF BeginWalk, TypeOK, Linked, threadVars
<1>15. CASE Visit
  BY <1>15, AppendProperties, SMTT(20) DEF Visit, TypeOK, threadVars
<1>16. CASE UNCHANGED vars
  BY <1>16 DEF vars, threadVars, TypeOK
<1> QED
  BY <1>1, <1>2, <1>6, <1>7, <1>8, <1>9, <1>10, <1>11, <1>12, <1>13, <1>14, <1>15, <1>16
     DEF Next, WriterStep, ReaderStep, Threads

\* What is written to a node stays, and so does its place on level 0.
Grown ==
    /\ used <= used'
    /\ \A n \in 1 .. used : key'[n] = key[n] /\ height'[n] = height[n]
    /\ Linked \subseteq Linked'

\* The nodes that a step links: those of LinkBottom.
LEMMA Growth ==
    ASSUME Structure, [Next]_vars
    PROVE  /\ Grown
           /\ \/ UNCHANGED <<order, Linked>>
              \/ \E t \in Writers :
                    /\ LinkBottom(t)
                    /\ mine[t] \in Nodes
                    /\ Linked' = Linked \cup {mine[t]}
<1> USE DEF Grown
<1>t. used \in Nat /\ key \in [Nodes -> Keys \cup {NoKey}] /\ height \in [Nodes -> 0 .. MaxHeight]
  BY Bounds DEF Structure, TypeOK
<1>1. ASSUME UNCHANGED <<nodeVars, order>>
      PROVE  Grown /\ UNCHANGED <<order, Linked>>
  BY <1>t, <1>1 DEF nodeVars, Linked
<1>2. ASSUME NEW t \in Writers, LinkBottom(t)
      PROVE  Grown /\ mine[t] \in Nodes /\ Linked' = Linked \cup {mine[t]}
  <2>1. pc[t] = "link" /\ order' = Append(order, mine[t]) /\ UNCHANGED nodeVars
    BY <1>2 DEF LinkBottom
  <2>2. mine[t] \in Nodes
    BY <2>1, Bounds DEF Structure, TypeOK, OwnNodes, OwnNode, Null
  <2>3. Linked' = Linked \cup {mine[t]}
    BY <2>1, <2>2, LinkedGrows DEF Structure, TypeOK
  <2> QED  BY <1>t, <2>1, <2>2, <2>3 DEF nodeVars
<1>3. ASSUME NEW t \in Writers, NEW k \in Keys, NEW h \in 1 .. MaxHeight, Put(t, k, h)
      PROVE  Grown /\ UNCHANGED <<order, Linked>>
  <2>1. UNCHANGED <<order, Linked>> /\ used' = used + 1
    BY <1>3 DEF Put, Linked
  <2>2. \A n \in 1 .. used : n # used + 1 /\ key'[n] = key[n] /\ height'[n] = height[n]
    BY <1>t, <1>3 DEF Put
  <2> QED  BY <1>t, <2>1, <2>2
<1>4. ASSUME NEW t \in Writers, WriterStep(t), ~ LinkBottom(t)
      PROVE  UNCHANGED <<nodeVars, order>>
  BY <1>4 DEF WriterStep, Forward, FindLevel, RetryBottom, LinkUpper, RetryUpper
<1>5. ASSUME NEW t \in Readers, ReaderStep(t) \/ \E k \in Keys : Get(t, k)
      PROVE  UNCHANGED <<nodeVars, order>>
  BY <1>5 DEF ReaderStep, Forward, Descend, Return, Get
<1>6. BeginWalk \/ Visit \/ UNCHANGED vars => UNCHANGED <<nodeVars, order>>
  BY DEF BeginWalk, Visit, vars
<1> QED  BY <1>1, <1>2, <1>3, <1>4, <1>5, <1>6 DEF Next

LEMMA NodesStep == Structure /\ [Next]_vars => NodesSound'
<1> SUFFICES ASSUME Structure, [Next]_vars PROVE NodesSound'
  OBVIOUS
<1>t. /\ used \in Nat /\ used \in Nodes /\ HeadNode \in 1 .. used
      /\ key \in [Nodes -> Keys \cup {NoKey}] /\ height \in [Nodes -> 0 .. MaxHeight]
      /\ order \in Seq(Nodes)
  BY Bounds DEF Structure, TypeOK, HeadNode, Nodes
<1>g. Grown
  BY Growth
<1>1. (\A n \in 2 .. used' : key'[n] \in Keys /\ height'[n] \in 1 .. MaxHeight) /\ used' \in Nat
  <2>1. ASSUME NEW t \in Writers, NEW k \in Keys, NEW h \in 1 .. MaxHeight, Put(t, k, h),
               NEW n \in 2 .. used'
        PROVE  key'[n] \in Keys /\ height'[n] \in 1 .. MaxHeight
    <3>1. used' = used + 1 /\ used + 1 \in Nodes
      BY <1>t, <2>1, Bounds DEF Put, Nodes
    <3>2. CASE n = used + 1
      BY <1>t, <2>1, <3>1, <3>2 DEF Put
    <3>3. CASE n \in 2 .. used
      BY <1>t, <1>g, <3>3 DEF Grown, Structure, NodesSound
    <3> QED  BY <1>t, <3>1, <3>2, <3>3
  <2>2. (\E t \in Writers, k \in Keys, h \in 1 .. MaxHeight : Put(t, k, h)) \/ used' = used
    BY DEF Next, WriterStep, ReaderStep, Forward, FindLevel, LinkBottom, RetryBottom, LinkUpper,
           RetryUpper, Descend, Return, Get, BeginWalk, Visit, nodeVars, vars
  <2>3. CASE used' = used
    BY <1>t, <1>g, <2>3 DEF Grown, Structure, NodesSound
  <2>4. CASE \E t \in Writers, k \in Keys, h \in 1 .. MaxHeight : Put(t, k, h)
    <3>1. used' \in Nat
      BY <1>t, <2>4 DEF Put
    <3> QED  BY <2>1, <2>4, <3>1
  <2> QED  BY <2>2, <2>3, <2>4
<1>2. height'[HeadNode] = MaxHeight
  BY <1>t, <1>g DEF Grown, Structure, NodesSound
<1>w. 2 .. used \subseteq 2 .. used' /\ Linked \subseteq 2 .. used
  BY <1>t, <1>1, <1>g DEF Grown, Structure, NodesSound
<1>3. CASE UNCHANGED <<order, Linked>>
  <2>1. Linked' \subseteq 2 .. used'
    BY <1>t, <1>1, <1>3, <1>g DEF Grown, Structure, NodesSound
  <2> QED  BY <1>1, <1>2, <1>3, <2>1 DEF Structure, NodesSound
<1>4. ASSUME NEW t \in Writers, LinkBottom(t), mine[t] \in Nodes, Linked' = Linked \cup {mine[t]}
      PROVE  NodesSound'
  <2>1. /\ mine[t] \in 2 .. used /\ mine[t] \notin Linked
        /\ order' = Append(order, mine[t])
    BY <1>4 DEF LinkBottom, Structure, OwnNodes, OwnNode, Rising
  <2>2. Linked' \subseteq 2 .. used'
    BY <1>4, <1>w, <2>1
  <2>3. \A i, j \in 1 .. Len(order') : order'[i] = order'[j] => i = j
    <3>1. /\ Len(order') = Len(order) + 1 /\ Len(order) \in Nat
          /\ \A i \in 1 .. Len(order) : order'[i] = order[i] /\ order[i] # mine[t]
          /\ order'[Len(order) + 1] = mine[t]
      BY <1>t, <1>4, <2>1, LinkedGrows DEF Linked
    <3> QED  BY <3>1 DEF Structure, NodesSound
  <2> QED  BY <1>1, <1>2, <2>2, <2>3 DEF NodesSound
<1> QED  BY <1>3, <1>4, Growth

\* A put whose thread does nothing keeps its node.
LEMMA OthersOwn ==
    ASSUME Structure, [Next]_vars, NEW u \in Writers, Grown,
           UNCHANGED <<pc[u], goal[u], mine[u], rising[u]>>,
           mine[u] \in Linked' => mine[u] \in Linked
    PROVE  OwnNode(u)'
<1>1. OwnNode(u) /\ used \in Nat /\ used' \in Nat
  BY TypeStep, Bounds DEF Structure, OwnNodes, TypeOK
<1>2. CASE pc[u] = "idle"
  BY <1>1, <1>2 DEF OwnNode
<1>3. CASE pc[u] # "idle"
  <2>1. mine[u] \in 2 .. used
    BY <1>1, <1>3 DEF OwnNode
  <2>2. mine[u] \in 2 .. used' /\ mine[u] \in 1 .. used
    BY <1>1, <2>1 DEF Grown
  <2>3. key'[mine[u]] = key[mine[u]] /\ height'[mine[u]] = height[mine[u]]
    BY <2>2 DEF Grown
  <2>4. (mine[u] \in Linked') <=> (mine[u] \in Linked)
    BY DEF Grown
  <2> QED  BY <1>1, <1>3, <2>2, <2>3, <2>4 DEF OwnNode, Rising
<1> QED  BY <1>2, <1>3

LEMMA OwnStep == Structure /\ [Next]_vars => OwnNodes'
<1> SUFFICES ASSUME Structure, [Next]_vars PROVE OwnNodes'
  OBVIOUS
<1>t. /\ used \in Nat /\ used' \in Nat
      /\ pc \in [Threads -> {"idle", "find", "link", "rise", "refind", "get"}]
      /\ goal \in [Threads -> Keys \cup {NoKey}]
      /\ mine \in [Writers -> Nodes \cup {Null}]
      /\ rising \in [Writers -> Levels]
  BY TypeStep, Bounds DEF Structure, TypeOK
<1>g. Grown
  BY Growth
<1>w. \A t \in Writers : t \in Threads /\ t \notin Readers
  BY SkipListAssumption DEF Threads
<1>o. /\ \A t \in Writers : OwnNode(t)
      /\ \A t, u \in Writers : t # u /\ mine[t] # Null => mine[t] # mine[u]
  BY DEF Structure, OwnNodes
\* The writers that do nothing, and the node of the one that does.
<1>s. ASSUME NEW t \in Writers, OwnNode(t)',
             mine'[t] = Null \/ mine'[t] = mine[t] \/ mine'[t] = used + 1,
             \A u \in Writers \ {t} : UNCHANGED <<pc[u], goal[u], mine[u], rising[u]>>,
             Linked' \subseteq Linked \cup {mine[t]}, mine[t] \in Linked' => mine[t] # Null
      PROVE  OwnNodes'
  <2>1. ASSUME NEW u \in Writers \ {t} PROVE OwnNode(u)'
    <3>1. mine[u] \in Linked' => mine[u] \in Linked
      BY <1>o, <1>s
    <3> QED  BY <1>g, <1>s, <2>1, <3>1, OthersOwn
  <2>2. \A u \in Writers : mine[u] = Null \/ mine[u] # used + 1
    BY <1>t, <1>o DEF OwnNode
  <2>3. used + 1 # Null
    BY <1>t DEF Null
  <2>4. \A u, v \in Writers : u # v /\ mine'[u] # Null => mine'[u] # mine'[v]
    BY <1>o, <1>s, <2>2, <2>3
  <2> QED  BY <1>s, <2>1, <2>4 DEF OwnNodes
<1>n. \A t \in Writers : mine[t] \in Linked => mine[t] # Null
  BY <1>o, Bounds DEF OwnNode, Structure, NodesSound, Null
<1>1. ASSUME NEW t \in Writers, Forward(t) \/ FindLevel(t) \/ RetryBottom(t) \/ RetryUpper(t)
      PROVE  OwnNodes'
  <2>1. /\ UNCHANGED <<used, key, height, order, Linked, goal, mine, rising>>
        /\ \A u \in Writers \ {t} : UNCHANGED pc[u]
    <3>1. /\ UNCHANGED <<used, key, height, order, goal, mine, rising>>
          /\ \E loc \in {"find", "link", "rise", "refind"} : pc' = pc \/ pc' = [pc EXCEPT ![t] = loc]
      BY <1>1 DEF Forward, FindLevel, RetryBottom, RetryUpper, nodeVars
    <3>2. UNCHANGED Linked
      BY <3>1 DEF Linked
    <3>3. \A u \in Writers \ {t} : UNCHANGED pc[u]
      BY <1>t, <1>w, <3>1
    <3> QED  BY <3>1, <3>2, <3>3
  <2>2. /\ pc[t] # "idle" /\ pc'[t] # "idle" /\ pc'[t] # "get"
        /\ pc'[t] \in {"rise", "refind"} <=> pc[t] \in {"rise", "refind"}
    BY <1>t, <1>w, <1>o, <1>1 DEF Forward, FindLevel, RetryBottom, RetryUpper, OwnNode
  <2>3. OwnNode(t)'
    BY <1>o, <2>1, <2>2 DEF OwnNode, Rising
  <2> QED  BY <1>n, <1>s, <2>1, <2>3
<1>2. ASSUME NEW t \in Writers, NEW i \in Nat, i > 0, Rise(t, i), UNCHANGED nodeVars,
             pc[t] # "idle", pc[t] # "get",
             mine[t] \in Linked', Linked' \subseteq Linked \cup {mine[t]}
      PROVE  OwnNodes'
  <2>1. mine[t] \in 2 .. used /\ key[mine[t]] = goal[t]
    BY <1>o, <1>2 DEF OwnNode
  <2>2. OwnNode(t)'
    <3>1. CASE i < height[mine[t]]
      <4>1. /\ pc'[t] = "rise" /\ rising'[t] = i
            /\ UNCHANGED <<goal, mine, used, key, height>>
        BY <1>t, <1>w, <1>2, <3>1 DEF Rise, nodeVars
      <4> QED  BY <1>2, <2>1, <3>1, <4>1 DEF OwnNode, Rising
    <3>2. CASE ~ (i < height[mine[t]])
      BY <1>t, <1>w, <1>2, <3>2 DEF Rise, Finished, OwnNode
    <3> QED  BY <3>1, <3>2
  <2>3. /\ \A u \in Writers \ {t} : UNCHANGED <<pc[u], goal[u], mine[u], rising[u]>>
        /\ mine'[t] = Null \/ mine'[t] = mine[t]
    BY <1>t, <1>w, <1>2 DEF Rise, Finished
  <2>4. mine[t] # Null
    BY <2>1 DEF Null
  <2> QED  BY <1>2, <1>s, <2>2, <2>3, <2>4
<1>3. ASSUME NEW t \in Writers, LinkBottom(t) PROVE OwnNodes'
  <2>1. /\ Rise(t, 1) /\ UNCHANGED nodeVars /\ pc[t] = "link"
        /\ order' = Append(order, mine[t])
    BY <1>3 DEF LinkBottom
  <2>2. Linked' = Linked \cup {mine[t]}
    <3>1. mine[t] \in Nodes /\ order \in Seq(Nodes)
      <4>1. mine[t] \in 2 .. used
        BY <1>o, <2>1 DEF OwnNode
      <4> QED  BY <1>t, <4>1 DEF Null, Structure, TypeOK
    <3> QED  BY <2>1, <3>1, LinkedGrows
  <2> QED  BY <1>2, <2>1, <2>2
<1>4. ASSUME NEW t \in Writers, LinkUpper(t) PROVE OwnNodes'
  <2>1. /\ Rise(t, rising[t] + 1) /\ UNCHANGED <<nodeVars, Linked>> /\ pc[t] = "rise"
    BY <1>4 DEF LinkUpper, Linked
  <2>2. mine[t] \in Linked' /\ rising[t] \in Nat
    BY <1>t, <1>o, <2>1, Bounds DEF OwnNode, Rising
  <2>3. rising[t] + 1 \in Nat /\ rising[t] + 1 > 0
    BY <2>2
  <2> QED  BY <1>2, <2>1, <2>2, <2>3
<1>5. ASSUME NEW t \in Writers, NEW k \in Keys, NEW h \in 1 .. MaxHeight, Put(t, k, h)
      PROVE  OwnNodes'
  <2>1. /\ used' = used + 1 /\ key'[used + 1] = k /\ UNCHANGED Linked
        /\ pc'[t] = "find" /\ goal'[t] = k /\ mine'[t] = used + 1
        /\ \A u \in Writers \ {t} : UNCHANGED <<pc[u], goal[u], mine[u], rising[u]>>
    <3>1. used + 1 \in Nodes
      BY <1>t, <1>5, Bounds DEF Put, Nodes
    <3> QED  BY <1>t, <1>w, <1>5, <3>1 DEF Put, Linked, Structure, TypeOK
  <2>2. used + 1 \notin Linked /\ used + 1 \in 2 .. used'
    BY <1>t, <2>1, Bounds DEF Structure, NodesSound, TypeOK, Nodes
  <2>3. OwnNode(t)'
    BY <2>1, <2>2 DEF OwnNode, Rising
  <2> QED  BY <1>n, <1>s, <2>1, <2>3
<1>6. ASSUME NEW t \in Readers, ReaderStep(t) \/ \E k \in Keys : Get(t, k)
      PROVE  OwnNodes'
  <2>1. /\ \A u \in Writers : UNCHANGED <<pc[u], goal[u], mine[u], rising[u]>>
        /\ UNCHANGED <<mine, Linked>>
    BY <1>t, <1>w, <1>6 DEF ReaderStep, Forward, Descend, Return, Get, Linked
  <2> QED  BY <1>g, <1>o, <2>1, OthersOwn DEF OwnNodes
<1>7. CASE BeginWalk \/ Visit \/ UNCHANGED vars
  <2>1. UNCHANGED <<pc, goal, mine, rising, Linked>>
    BY <1>7 DEF BeginWalk, Visit, vars, threadVars, Linked
  <2> QED  BY <1>g, <1>o, <2>1, OthersOwn DEF OwnNodes
<1> QED  BY <1>1, <1>3, <1>4, <1>5, <1>6, <1>7 DEF Next, WriterStep

\* No node enters the list twice, its key and height are written before it does,
\* and no two puts have the same node in hand (offheap_skiplist.hpp:33-60).
THEOREM InductiveStructure == Spec => []Structure
BY InitStructure, TypeStep, NodesStep, OwnStep, PTL DEF Spec, Structure

\* Whatever the threads do, all variables keep their types: no load yields a place
\* outside of the arena.
THEOREM TypeCorrect == Spec => []TypeOK
BY InductiveStructure, PTL DEF Structure

-----------------------------------------------------------------------------
(* Searches.  What findPredecessors has stored of a level stays good enough *)
(* for as long as put uses it: the predecessor is a linked node with a     *)
(* smaller key and a high enough tower, the successor one with no smaller  *)
(* key.  That both are still neighbours is what compare-and-swap tests.    *)

Reached == Linked \cup {HeadNode}
GoodPred(n, i, k) == n \in Reached /\ i < height[n] /\ (n = HeadNode \/ key[n] < k)
GoodSucc(n, i, k) == n \in Linked /\ i < height[n] /\ k <= key[n]

WalkerSound(t) ==
    pc[t] \in {"find", "refind", "get"} => GoodPred(current[t], level[t], goal[t])

Found(t, i) == pc[t] \in {"link", "rise", "refind"} \/ (pc[t] = "find" /\ level[t] < i)
LevelSound(t, i) ==
    /\ Found(t, i) => preds[t][i] # Null
    /\ preds[t][i] # Null => GoodPred(preds[t][i], i, goal[t])
    /\ succs[t][i] # Null => GoodSucc(succs[t][i], i, goal[t])
    /\ pc[t] = "idle" => preds[t][i] = Null /\ succs[t][i] = Null

Searching ==
    /\ \A t \in Threads : WalkerSound(t)
    /\ \A t \in Writers, i \in Levels : LevelSound(t, i)

\* Level 0, stated without the set of later nodes: the next node comes after m, and
\* every other node that does comes after it.
After(m, n) == m = HeadNode \/ Before(m, n)
NextIs(m, s) ==
    /\ s # Null => s \in Linked /\ After(m, s)
    /\ \A n \in Linked : After(m, n) => s # Null /\ (n = s \/ Before(s, n))
BottomLinks == \A m \in Reached : \A s \in {next[m][0]} : NextIs(m, s)

\* The linked nodes have keys that can be compared and towers of a height.
LEMMA LinkedNodes ==
    ASSUME Structure
    PROVE  /\ Linked \subseteq 2 .. used /\ Reached \subseteq 1 .. used /\ used \in Nat
           /\ Reached \subseteq Nodes /\ Null \notin Reached /\ HeadNode \notin Linked
           /\ \A n \in Linked : key[n] \in Nat /\ key[n] \in Keys /\ height[n] \in 1 .. MaxHeight
           /\ \A n \in Reached : height[n] \in Nat /\ 0 < height[n]
<1>1. used \in Nat /\ used \in 1 .. MaxNodes
  BY Bounds DEF Structure, TypeOK, Nodes
<1>2. Linked \subseteq 2 .. used
  BY DEF Structure, NodesSound
<1>3. Reached \subseteq 1 .. used /\ HeadNode \notin Linked
  BY <1>1, <1>2 DEF Reached, HeadNode
<1>4. Reached \subseteq Nodes /\ Null \notin Reached
  BY <1>1, <1>3, Bounds DEF Nodes, Null
<1>5. \A n \in Linked : key[n] \in Nat /\ key[n] \in Keys /\ height[n] \in 1 .. MaxHeight
  BY <1>2, SkipListAssumption DEF Structure, NodesSound
<1>6. \A n \in Reached : height[n] \in Nat /\ 0 < height[n]
  BY <1>5, Bounds DEF Reached, Structure, NodesSound
<1> QED  BY <1>1, <1>2, <1>3, <1>4, <1>5, <1>6

\* What a search has found stays good while other threads put.
LEMMA GoodStays ==
    ASSUME Structure, Grown
    PROVE  /\ Reached \subseteq Reached'
           /\ \A n \in Reached : key'[n] = key[n] /\ height'[n] = height[n]
           /\ \A n, i, k : GoodPred(n, i, k) => GoodPred(n, i, k)'
           /\ \A n, i, k : GoodSucc(n, i, k) => GoodSucc(n, i, k)'
<1>1. Reached \subseteq Reached' /\ Linked \subseteq Linked' /\ Linked \subseteq Reached
  BY DEF Grown, Reached
<1>2. \A n \in Reached : key'[n] = key[n] /\ height'[n] = height[n]
  BY LinkedNodes DEF Grown
<1> QED  BY <1>1, <1>2 DEF GoodPred, GoodSucc

\* The node that a load of a next pointer yields (offheap_skiplist.hpp:135-150).
LEMMA AheadSound ==
    ASSUME Structure, BottomLinks, UpperSound,
           NEW m \in Reached, NEW i \in Levels, next[m][i] # Null
    PROVE  next[m][i] \in Linked /\ i < height[next[m][i]]
<1>1. CASE i = 0
  <2>1. next[m][0] \in Linked
    BY <1>1 DEF BottomLinks, NextIs
  <2> QED  BY <1>1, <2>1, LinkedNodes DEF Reached
<1>2. CASE i # 0
  BY <1>2 DEF UpperSound, Reached
<1> QED  BY <1>1, <1>2

LEMMA OthersSearch ==
    ASSUME Structure, Grown, Searching,
           NEW u \in Threads, UNCHANGED <<pc[u], goal[u], current[u], level[u]>>
    PROVE  /\ WalkerSound(u)'
           /\ \A i \in Levels :
                 u \in Writers /\ UNCHANGED <<preds[u], succs[u]>> => LevelSound(u, i)'
<1>1. WalkerSound(u)'
  BY GoodStays DEF Searching, WalkerSound
<1>2. ASSUME NEW i \in Levels, u \in Writers, UNCHANGED <<preds[u], succs[u]>>
      PROVE  LevelSound(u, i)'
  <2>1. LevelSound(u, i)
    BY <1>2 DEF Searching
  <2> QED  BY <1>2, <2>1, GoodStays DEF LevelSound, Found
<1> QED  BY <1>1, <1>2

LEMMA SearchingStep ==
    Structure /\ Searching /\ BottomLinks /\ UpperSound /\ [Next]_vars => Searching'
<1> SUFFICES ASSUME Structure, Searching, BottomLinks, UpperSound, [Next]_vars
             PROVE  Searching'
  OBVIOUS
<1>t. /\ pc \in [Threads -> {"idle", "find", "link", "rise", "refind", "get"}]
      /\ goal \in [Threads -> Keys \cup {NoKey}]
      /\ current \in [Threads -> Nodes]
      /\ level \in [Threads -> Levels]
      /\ preds \in [Writers -> [Levels -> Nodes \cup {Null}]]
      /\ succs \in [Writers -> [Levels -> Nodes \cup {Null}]]
  BY DEF Structure, TypeOK
<1>w. /\ \A t \in Writers : t \in Threads /\ t \notin Readers /\ pc[t] # "get"
      /\ \A t \in Readers : t \in Threads /\ t \notin Writers
  BY SkipListAssumption DEF Threads, Structure, OwnNodes, OwnNode
<1>g. Grown
  BY Growth
<1>h. \A k : GoodPred(HeadNode, MaxHeight - 1, k)'
  BY GoodStays, <1>g, Bounds DEF GoodPred, Reached, Structure, NodesSound
\* One thread moves.
<1>s. ASSUME NEW t \in Threads, WalkerSound(t)', t \in Writers => \A i \in Levels : LevelSound(t, i)',
             \A u \in Threads \ {t} : UNCHANGED <<pc[u], goal[u], current[u], level[u]>>,
             \A u \in Writers \ {t} : UNCHANGED <<preds[u], succs[u]>>
      PROVE  Searching'
  <2>1. \A u \in Threads \ {t} : WalkerSound(u)'
    BY <1>g, <1>s, OthersSearch
  <2>2. \A u \in Writers \ {t}, i \in Levels : LevelSound(u, i)'
    BY <1>g, <1>s, <1>w, OthersSearch
  <2> QED  BY <1>s, <2>1, <2>2 DEF Searching
<1>1. ASSUME NEW t \in Threads, Forward(t) PROVE Searching'
  <2> DEFINE n == Ahead(t)
  <2>1. /\ pc[t] \in {"find", "refind", "get"} /\ n # Null /\ key[n] < goal[t]
        /\ current' = [current EXCEPT ![t] = n]
        /\ UNCHANGED <<nodeVars, order, pc, goal, level, preds, succs>>
    BY <1>1 DEF Forward, Short
  <2>2. current[t] \in Reached /\ level[t] \in Levels
    BY <1>t, <2>1 DEF Searching, WalkerSound, GoodPred
  <2>3. n \in Linked /\ level[t] < height[n]
    BY <2>1, <2>2, AheadSound DEF Ahead
  <2>4. GoodPred(n, level[t], goal[t])
    BY <2>1, <2>3 DEF GoodPred, Reached
  <2> HIDE DEF n
  <2>5. current'[t] = n /\ \A u \in Threads \ {t} : UNCHANGED current[u]
    BY <1>t, <2>1
  <2>6. WalkerSound(t)'
    BY <1>g, <2>1, <2>4, <2>5, GoodStays DEF WalkerSound
  <2>7. t \in Writers => \A i \in Levels : LevelSound(t, i)'
    <3> SUFFICES ASSUME t \in Writers, NEW i \in Levels PROVE LevelSound(t, i)'
      OBVIOUS
    <3>1. LevelSound(t, i)
      BY DEF Searching
    <3> QED  BY <1>g, <2>1, <3>1, GoodStays DEF LevelSound, Found
  <2> QED  BY <1>s, <2>1, <2>5, <2>6, <2>7
<1>2. ASSUME NEW t \in Writers, FindLevel(t) PROVE Searching'
  <2> DEFINE n == Ahead(t)
  <2> DEFINE l == level[t]
  <2>1. /\ pc[t] \in {"find", "refind"} /\ ~ (n # Null /\ key[n] < goal[t])
        /\ preds' = [preds EXCEPT ![t][l] = current[t]]
        /\ succs' = [succs EXCEPT ![t][l] = n]
        /\ UNCHANGED <<goal, current>>
    BY <1>2 DEF FindLevel, Short
  <2>2. GoodPred(current[t], l, goal[t]) /\ current[t] \in Reached /\ l \in Levels /\ goal[t] \in Int
    <3>1. GoodPred(current[t], level[t], goal[t])
      BY <1>w, <2>1 DEF Searching, WalkerSound
    <3>2. level[t] \in Levels /\ goal[t] \in Keys \cup {NoKey}
      BY <1>t, <1>w
    <3>3. goal[t] \in Int
      BY <3>2, SkipListAssumption DEF NoKey
    <3> QED  BY <3>1, <3>2, <3>3 DEF GoodPred
  <2>3. n # Null => GoodSucc(n, l, goal[t])
    <3>1. n # Null => n \in Linked /\ l < height[n]
      BY <2>2, AheadSound DEF Ahead
    <3> QED  BY <2>1, <2>2, <3>1, LinkedNodes DEF GoodSucc
  <2> HIDE DEF n, l
  <2>4. /\ \/ l > 0 /\ level'[t] = l - 1 /\ pc'[t] = pc[t]
           \/ l = 0 /\ level'[t] = l /\ pc'[t] = IF pc[t] = "find" THEN "link" ELSE "rise"
        /\ \A u \in Threads \ {t} : UNCHANGED <<pc[u], level[u]>>
    <3>1. CASE l > 0
      <4>1. level' = [level EXCEPT ![t] = level[t] - 1] /\ UNCHANGED pc
        BY <1>2, <3>1 DEF FindLevel, l
      <4> QED  BY <1>t, <1>w, <3>1, <4>1 DEF l
    <3>2. CASE ~ (l > 0)
      <4>1. UNCHANGED level /\ pc' = [pc EXCEPT ![t] = IF pc[t] = "find" THEN "link" ELSE "rise"]
        BY <1>2, <3>2 DEF FindLevel, l
      <4>2. l = 0
        BY <2>2, <3>2, Bounds
      <4> QED  BY <1>t, <1>w, <4>1, <4>2 DEF l
    <3> QED  BY <3>1, <3>2
  <2>5. /\ preds'[t][l] = current[t] /\ \A i \in Levels \ {l} : preds'[t][i] = preds[t][i]
        /\ succs'[t][l] = n /\ \A i \in Levels \ {l} : succs'[t][i] = succs[t][i]
        /\ \A u \in Writers \ {t} : UNCHANGED <<preds[u], succs[u]>>
    BY <1>t, <2>1, <2>2
  <2>6. WalkerSound(t)'
    <3>1. pc'[t] \in {"find", "refind", "get"} => level'[t] = l - 1
      BY <2>1, <2>4
    <3>2. GoodPred(current[t], l - 1, goal[t])
      BY <2>2, LinkedNodes, Bounds DEF GoodPred
    <3> QED  BY <1>g, <2>1, <3>1, <3>2, GoodStays DEF WalkerSound
  <2>7. \A i \in Levels : LevelSound(t, i)'
    <3> SUFFICES ASSUME NEW i \in Levels PROVE LevelSound(t, i)'
      OBVIOUS
    <3>1. LevelSound(t, i)
      BY DEF Searching
    <3>2. CASE i = l
      <4>1. preds'[t][i] # Null
        BY <2>2, <2>5, <3>2, LinkedNodes
      <4>2. /\ preds'[t][i] \in Reached' /\ i < height'[preds'[t][i]]
            /\ preds'[t][i] = HeadNode \/ key'[preds'[t][i]] < goal'[t]
        BY <1>g, <2>1, <2>2, <2>5, <3>2, GoodStays DEF GoodPred
      <4>3. succs'[t][i] # Null =>
               /\ succs'[t][i] \in Linked' /\ i < height'[succs'[t][i]]
               /\ goal'[t] <= key'[succs'[t][i]]
        BY <1>g, <2>1, <2>3, <2>5, <3>2, GoodStays DEF GoodSucc
      <4>4. pc'[t] # "idle"
        BY <2>1, <2>4
      <4> QED  BY <4>1, <4>2, <4>3, <4>4 DEF LevelSound, GoodPred, GoodSucc
    <3>3. CASE i # l
      <4>1. preds'[t][i] = preds[t][i] /\ succs'[t][i] = succs[t][i] /\ goal'[t] = goal[t]
        BY <2>1, <2>5, <3>3
      <4>2. Found(t, i)' => Found(t, i)
        <5>1. l \in Nat /\ i \in Nat
          BY <2>2, Bounds
        <5> QED  BY <2>1, <2>4, <3>3, <5>1 DEF Found, l
      <4>3. pc'[t] # "idle"
        BY <2>1, <2>4
      <4> QED  BY <1>g, <3>1, <4>1, <4>2, <4>3, GoodStays DEF LevelSound
    <3> QED  BY <3>2, <3>3
  <2> QED  BY <1>s, <1>w, <2>1, <2>4, <2>5, <2>6, <2>7
<1>3. ASSUME NEW t \in Writers, NEW i \in Nat, Rise(t, i), pc[t] \in {"link", "rise"}
      PROVE  Searching'
  <2>1. CASE i < height[mine[t]]
    <3>1. /\ pc'[t] = "rise" /\ \A u \in Threads \ {t} : UNCHANGED pc[u]
          /\ UNCHANGED <<goal, current, level, preds, succs>>
      BY <1>3, <1>t, <1>w, <2>1 DEF Rise
    <3>2. WalkerSound(t)'
      BY <3>1 DEF WalkerSound
    <3>3. \A j \in Levels : LevelSound(t, j)'
      BY <1>3, <1>g, <3>1, GoodStays DEF Searching, LevelSound, Found
    <3> QED  BY <1>s, <1>w, <3>1, <3>2, <3>3
  <2>2. CASE ~ (i < height[mine[t]])
    <3>1. Finished(t)
      BY <1>3, <2>2 DEF Rise
    <3>2. /\ pc'[t] = "idle" /\ preds'[t] = NoTower /\ succs'[t] = NoTower
          /\ \A u \in Threads \ {t} : UNCHANGED <<pc[u], goal[u], current[u], level[u]>>
          /\ \A u \in Writers \ {t} : UNCHANGED <<preds[u], succs[u]>>
      BY <1>t, <1>w, <3>1 DEF Finished
    <3>3. WalkerSound(t)' /\ \A j \in Levels : LevelSound(t, j)'
      BY <3>2 DEF WalkerSound, LevelSound, Found, NoTower
    <3> QED  BY <1>s, <1>w, <3>2, <3>3
  <2> QED  BY <2>1, <2>2
<1>4. ASSUME NEW t \in Writers, LinkBottom(t) PROVE Searching'
  BY <1>3, <1>4 DEF LinkBottom
<1>5. ASSUME NEW t \in Writers, LinkUpper(t) PROVE Searching'
  <2>1. rising[t] + 1 \in Nat
    <3>1. rising[t] \in Nat
      BY Bounds DEF Structure, TypeOK
    <3> QED  BY <3>1
  <2> QED  BY <1>3, <1>5, <2>1 DEF LinkUpper
\* A search begins at the head, on the highest level.
<1>6. ASSUME NEW t \in Threads, FromTheTop(t),
             NEW loc \in {"find", "refind", "get"}, pc' = [pc EXCEPT ![t] = loc],
             \A u \in Threads \ {t} : UNCHANGED goal[u], UNCHANGED <<preds, succs>>,
             \/ pc[t] = "idle" /\ loc # "refind"
             \/ pc[t] \in {"link", "rise"} /\ loc # "get" /\ UNCHANGED goal
      PROVE  Searching'
  <2>1. /\ pc'[t] = loc /\ current'[t] = HeadNode /\ level'[t] = MaxHeight - 1
        /\ \A u \in Threads \ {t} : UNCHANGED <<pc[u], goal[u], current[u], level[u]>>
    BY <1>6, <1>t DEF FromTheTop
  <2>2. WalkerSound(t)'
    BY <1>h, <2>1 DEF WalkerSound, GoodPred
  <2>3. t \in Writers => \A i \in Levels : LevelSound(t, i)'
    <3> SUFFICES ASSUME t \in Writers, NEW i \in Levels PROVE LevelSound(t, i)'
      OBVIOUS
    <3>1. LevelSound(t, i)
      BY DEF Searching
    <3>2. pc'[t] = "find" => ~ (level'[t] < i)
      BY <2>1, Bounds DEF Levels
    <3>3. CASE pc[t] = "idle" /\ loc # "refind"
      BY <2>1, <1>6, <3>1, <3>2, <3>3 DEF LevelSound, Found
    <3>4. CASE pc[t] \in {"link", "rise"} /\ UNCHANGED goal
      BY <1>6, <1>g, <2>1, <3>1, <3>4, GoodStays DEF LevelSound, Found
    <3> QED  BY <1>6, <3>3, <3>4
  <2> QED  BY <1>6, <1>s, <2>1, <2>2, <2>3
<1>7. ASSUME NEW t \in Writers, RetryBottom(t) \/ RetryUpper(t) PROVE Searching'
  BY <1>6, <1>7, <1>w DEF RetryBottom, RetryUpper
<1>8. ASSUME NEW t \in Writers, NEW k \in Keys, NEW h \in 1 .. MaxHeight, Put(t, k, h)
      PROVE  Searching'
  BY <1>6, <1>8, <1>t, <1>w DEF Put
<1>9. ASSUME NEW t \in Readers, NEW k \in Keys, Get(t, k) PROVE Searching'
  BY <1>6, <1>9, <1>t, <1>w DEF Get
<1>10. ASSUME NEW t \in Readers, Descend(t) PROVE Searching'
  <2>1. /\ pc[t] = "get" /\ level[t] > 0
        /\ level' = [level EXCEPT ![t] = level[t] - 1]
        /\ UNCHANGED <<pc, goal, current, preds, succs>>
    BY <1>10 DEF Descend
  <2>2. level'[t] = level[t] - 1 /\ \A u \in Threads \ {t} : UNCHANGED level[u]
    BY <1>t, <1>w, <2>1
  <2>3. GoodPred(current[t], level[t], goal[t]) /\ level[t] \in Levels
    BY <1>t, <1>w, <2>1 DEF Searching, WalkerSound
  <2>4. GoodPred(current[t], level[t] - 1, goal[t])
    <3>1. level[t] \in Nat /\ height[current[t]] \in Nat
      BY <2>3, LinkedNodes, Bounds DEF GoodPred
    <3> QED  BY <2>3, <3>1 DEF GoodPred
  <2>5. WalkerSound(t)'
    BY <1>g, <2>1, <2>2, <2>4, GoodStays DEF WalkerSound
  <2> QED  BY <1>s, <1>w, <2>1, <2>2, <2>5
<1>11. ASSUME NEW t \in Readers, Return(t) PROVE Searching'
  <2>1. /\ pc'[t] = "idle" /\ UNCHANGED <<level, preds, succs>>
        /\ \A u \in Threads \ {t} : UNCHANGED <<pc[u], goal[u], current[u]>>
    BY <1>11, <1>t, <1>w DEF Return
  <2>2. WalkerSound(t)'
    BY <2>1 DEF WalkerSound
  <2> QED  BY <1>s, <1>w, <2>1, <2>2
<1>12. CASE BeginWalk \/ Visit \/ UNCHANGED vars
  <2>1. UNCHANGED <<pc, goal, current, level, preds, succs>>
    BY <1>12 DEF BeginWalk, Visit, vars, threadVars
  <2> QED  BY <1>g, <1>w, <2>1, OthersSearch DEF Searching
<1> QED
  BY <1>1, <1>2, <1>4, <1>5, <1>7, <1>8, <1>9, <1>10, <1>11, <1>12, <1>w
     DEF Next, WriterStep, ReaderStep

-----------------------------------------------------------------------------
(* The order of level 0.                                                   *)

LEMMA PlaceOf ==
    ASSUME NEW S, NEW s \in Seq(S), NEW n, n \in {s[i] : i \in 1 .. Len(s)},
           \A i, j \in 1 .. Len(s) : s[i] = s[j] => i = j
    PROVE  LET p == CHOOSE i \in 1 .. Len(s) : s[i] = n
           IN  p \in 1 .. Len(s) /\ s[p] = n /\ \A i \in 1 .. Len(s) : s[i] = n => i = p
<1>1. \E i \in 1 .. Len(s) : s[i] = n
  OBVIOUS
<1> DEFINE p == CHOOSE i \in 1 .. Len(s) : s[i] = n
<1>2. p \in 1 .. Len(s) /\ s[p] = n
  BY <1>1
<1> QED  BY <1>2

LEMMA VersionIsPlace ==
    ASSUME Structure
    PROVE  /\ \A n : n \notin Linked => Version(n) = 0
           /\ \A n \in Linked : Version(n) \in 1 .. Len(order) /\ order[Version(n)] = n
           /\ \A i \in 1 .. Len(order) : order[i] \in Linked /\ Version(order[i]) = i
           /\ Len(order) \in Nat
<1>1. order \in Seq(Nodes) /\ Len(order) \in Nat
  BY LenProperties DEF Structure, TypeOK
<1>2. \A i, j \in 1 .. Len(order) : order[i] = order[j] => i = j
  BY DEF Structure, NodesSound
<1>3. \A n \in Linked : /\ Version(n) \in 1 .. Len(order) /\ order[Version(n)] = n
                        /\ \A i \in 1 .. Len(order) : order[i] = n => i = Version(n)
  BY <1>1, <1>2, PlaceOf DEF Version, Linked
<1>4. \A i \in 1 .. Len(order) : order[i] \in Linked
  BY DEF Linked
<1> QED  BY <1>1, <1>3, <1>4 DEF Version

\* Before is a strict total order of the linked nodes.
LEMMA BeforeOrders ==
    ASSUME Structure
    PROVE  /\ \A m, n \in Linked : m = n \/ Before(m, n) \/ Before(n, m)
           /\ \A m, n \in Linked : ~ (Before(m, n) /\ Before(n, m))
           /\ \A l, m, n \in Linked : Before(l, m) /\ Before(m, n) => Before(l, n)
           /\ \A m, n \in Linked : Before(m, n) => key[m] <= key[n]
<1>1. \A n \in Linked : key[n] \in Nat /\ Version(n) \in Nat
  BY LinkedNodes, VersionIsPlace
<1>2. \A m, n \in Linked : Version(m) = Version(n) => m = n
  BY VersionIsPlace
<1> QED  BY <1>1, <1>2 DEF Before

LEMMA BeforeStays ==
    ASSUME Structure, Structure', [Next]_vars
    PROVE  /\ \A n \in Linked : Version(n)' = Version(n)
           /\ \A m, n \in Linked : Before(m, n)' <=> Before(m, n)
<1>1. Grown /\ Linked \subseteq Linked' /\ \A n \in Linked : key'[n] = key[n]
  BY Growth, GoodStays DEF Grown, Reached
<1>2. ASSUME NEW n \in Linked PROVE Version(n)' = Version(n)
  <2>1. n \in Linked'
    BY <1>1
  <2>2. CASE UNCHANGED <<order, Linked>>
    BY <2>2 DEF Version
  <2>3. ASSUME NEW t \in Writers, LinkBottom(t), mine[t] \in Nodes
        PROVE  Version(n)' = Version(n)
    <3>1. /\ order' = Append(order, mine[t]) /\ order \in Seq(Nodes)
          /\ \A i, j \in 1 .. Len(order') : order'[i] = order'[j] => i = j
      BY <2>3 DEF LinkBottom, Structure, TypeOK, NodesSound
    <3>2. /\ Len(order) \in Nat /\ order' \in Seq(Nodes)
          /\ Len(order') = Len(order) + 1
          /\ \A i \in 1 .. Len(order) : order'[i] = order[i]
      BY <2>3, <3>1, LinkedGrows
    <3>3. Version(n) \in 1 .. Len(order) /\ order[Version(n)] = n
      BY VersionIsPlace
    <3>4. Version(n) \in 1 .. Len(order') /\ order'[Version(n)] = n
      BY <3>2, <3>3
    <3>5. n \in {order'[i] : i \in 1 .. Len(order')}
      BY <3>4
    <3>6. \A i \in 1 .. Len(order') : order'[i] = n => i = CHOOSE j \in 1 .. Len(order') : order'[j] = n
      BY <3>1, <3>2, <3>5, PlaceOf
    <3> QED  BY <2>1, <3>4, <3>6 DEF Version
  <2> QED  BY <2>2, <2>3, Growth
<1> QED  BY <1>1, <1>2 DEF Before

\* A new node is the newest version of its key: it goes in front of its equals.
LEMMA Newcomer ==
    ASSUME Structure, Structure', [Next]_vars,
           NEW t \in Writers, NEW x, x = mine[t], LinkBottom(t)
    PROVE  /\ x \notin Reached /\ x \in Nodes /\ Linked' = Linked \cup {x}
           /\ key[x] \in Nat /\ height[x] \in 1 .. MaxHeight
           /\ UNCHANGED <<key, height>>
           /\ \A n \in Linked : Before(x, n)' <=> key[x] <= key[n]
           /\ \A n \in Linked : Before(n, x)' <=> key[n] < key[x]
           /\ ~ Before(x, x)'
<1>1. /\ pc[t] = "link" /\ order' = Append(order, x) /\ UNCHANGED <<key, height>>
  BY DEF LinkBottom, nodeVars
<1>2. x \in 2 .. used /\ x \notin Linked
  BY <1>1 DEF Structure, OwnNodes, OwnNode, Rising
<1>3. x \notin Reached /\ x \in Nodes
  <2>1. used \in Nat /\ used \in 1 .. MaxNodes /\ MaxNodes \in Nat
    BY Bounds, LinkedNodes DEF Structure, TypeOK, Nodes
  <2>2. x \in 1 .. MaxNodes /\ x # HeadNode
    BY <1>2, <2>1 DEF HeadNode
  <2> QED  BY <1>2, <2>2 DEF Reached, Nodes
<1>4. key[x] \in Nat /\ height[x] \in 1 .. MaxHeight
  BY <1>2, SkipListAssumption DEF Structure, NodesSound
<1>5. /\ Len(order) \in Nat /\ order' \in Seq(Nodes) /\ Linked' = Linked \cup {x}
      /\ Len(order') = Len(order) + 1 /\ order'[Len(order) + 1] = x
  BY <1>1, <1>3, LinkedGrows DEF Structure, TypeOK
<1>6. Version(x)' = Len(order) + 1
  <2>1. \A i, j \in 1 .. Len(order') : order'[i] = order'[j] => i = j
    BY DEF Structure, NodesSound
  <2>2. x \in {order'[i] : i \in 1 .. Len(order')}
    BY <1>5
  <2>3. Len(order) + 1 = CHOOSE j \in 1 .. Len(order') : order'[j] = x
    BY <1>5, <2>1, <2>2, PlaceOf
  <2>4. x \in Linked'
    BY <1>5
  <2> QED  BY <2>3, <2>4 DEF Version
<1>7. \A n \in Linked : Version(n)' \in 1 .. Len(order) /\ key[n] \in Nat
  BY BeforeStays, VersionIsPlace, LinkedNodes
<1>8. \A n \in Linked : Before(x, n)' <=> key[x] <= key[n]
  BY <1>1, <1>4, <1>5, <1>6, <1>7 DEF Before
<1>9. \A n \in Linked : Before(n, x)' <=> key[n] < key[x]
  BY <1>1, <1>4, <1>5, <1>6, <1>7 DEF Before
<1>10. ~ Before(x, x)'
  BY <1>1, <1>4, <1>5, <1>6 DEF Before
<1> QED  BY <1>1, <1>3, <1>4, <1>5, <1>8, <1>9, <1>10

\* The pointers after a compare-and-swap on level 0 that found succs[t][0].
LEMMA LinkedIn ==
    ASSUME Structure, Searching, NEW t \in Writers, LinkBottom(t),
           NEW x, x = mine[t], x \notin Reached, x \in Nodes,
           NEW p, p = preds[t][0], NEW s, s = succs[t][0]
    PROVE  /\ p \in Reached /\ next[p][0] = s
           /\ p = HeadNode \/ key[p] < key[x]
           /\ s # Null => s \in Linked /\ key[x] <= key[s]
           /\ next'[p][0] = x /\ next'[x][0] = s
           /\ \A m \in Reached \ {p} : next'[m] = next[m]
           /\ \A i \in Levels \ {0} : next'[p][i] = next[p][i]
           /\ next'[x] = Tower(t)
<1>1. /\ pc[t] = "link" /\ next[p][0] = s
      /\ next' = [next EXCEPT ![x] = Tower(t), ![p][0] = x]
  BY DEF LinkBottom, Unchanged
<1>2. /\ next \in [Nodes -> [Levels -> Nodes \cup {Null}]] /\ 0 \in Levels /\ p # Null
      /\ LevelSound(t, 0) /\ key[x] = goal[t]
  <2>1. 0 \in Levels /\ Found(t, 0)
    BY <1>1, Bounds DEF Found
  <2>2. LevelSound(t, 0)
    BY <2>1 DEF Searching
  <2>3. key[x] = goal[t]
    BY <1>1 DEF Structure, OwnNodes, OwnNode
  <2> QED  BY <2>1, <2>2, <2>3 DEF LevelSound, Structure, TypeOK
<1>3. /\ p \in Reached /\ (p = HeadNode \/ key[p] < key[x])
      /\ s # Null => s \in Linked /\ key[x] <= key[s]
  BY <1>2 DEF LevelSound, GoodPred, GoodSucc
<1>4. p \in Nodes /\ p # x /\ Reached \subseteq Nodes
  BY <1>3, LinkedNodes
<1>5. Tower(t)[0] = s
  <2>1. 0 < height[x]
    BY <1>1, LinkedNodes, Bounds DEF Structure, OwnNodes, OwnNode, NodesSound
  <2> QED  BY <1>2, <2>1 DEF Tower
<1>6. /\ next'[x] = Tower(t) /\ next'[p] = [next[p] EXCEPT ![0] = x]
      /\ \A m \in Nodes \ {x, p} : next'[m] = next[m]
  <2> DEFINE tower == Tower(t)
  <2> HIDE DEF tower
  <2>1. next' = [next EXCEPT ![x] = tower, ![p][0] = x]
    BY <1>1 DEF tower
  <2>2. next'[x] = tower /\ next'[p] = [next[p] EXCEPT ![0] = x]
    BY <1>2, <1>4, <2>1
  <2> QED  BY <1>2, <1>4, <2>1, <2>2 DEF tower
<1>7. next[p] \in [Levels -> Nodes \cup {Null}]
  BY <1>2, <1>4
<1> QED  BY <1>1, <1>2, <1>3, <1>4, <1>5, <1>6, <1>7


\* Putting a node between two neighbours keeps level 0 complete and in order.
LEMMA BottomLinked ==
    ASSUME Structure, Structure', Searching, BottomLinks, [Next]_vars,
           NEW t \in Writers, LinkBottom(t),
           NEW m \in Reached', NEW s, s = next'[m][0]
    PROVE  NextIs(m, s)'
<1> SUFFICES ASSUME NEW x, x = mine[t], NEW p, p = preds[t][0], NEW q, q = succs[t][0]
             PROVE  NextIs(m, s)'
  OBVIOUS
<1>1. /\ x \notin Reached /\ x \in Nodes /\ Linked' = Linked \cup {x} /\ key[x] \in Nat
      /\ \A n \in Linked : Before(x, n)' <=> key[x] <= key[n]
      /\ \A n \in Linked : Before(n, x)' <=> key[n] < key[x]
      /\ ~ Before(x, x)'
  BY Newcomer
<1>2. /\ p \in Reached /\ next[p][0] = q
      /\ p = HeadNode \/ key[p] < key[x]
      /\ q # Null => q \in Linked /\ key[x] <= key[q]
      /\ next'[p][0] = x /\ next'[x][0] = q
      /\ \A n \in Reached \ {p} : next'[n] = next[n]
  BY <1>1, LinkedIn
<1>3. /\ \A n, l \in Linked : Before(n, l)' <=> Before(n, l)
      /\ \A n \in Linked : key[n] \in Nat
      /\ Linked \subseteq Reached /\ HeadNode \in Reached /\ HeadNode \notin Linked
      /\ Null \notin Reached
      /\ \A n \in Reached : n = HeadNode \/ n \in Linked
  BY BeforeStays, LinkedNodes DEF Reached
<1>4. /\ \A n, l \in Linked : n = l \/ Before(n, l) \/ Before(l, n)
      /\ \A n, l \in Linked : Before(n, l) => key[n] <= key[l]
  BY BeforeOrders
<1>5. /\ q # Null => q \in Linked /\ After(p, q)
      /\ \A n \in Linked : After(p, n) => q # Null /\ (n = q \/ Before(q, n))
  BY <1>2 DEF BottomLinks, NextIs
\* Who comes after the predecessor, and is not smaller than the new node.
<1>6. \A n \in Linked : key[x] <= key[n] => After(p, n)
  BY <1>1, <1>2, <1>3 DEF After, Before
<1>7. \A n \in Linked : After(p, n) => key[x] <= key[n]
  BY <1>1, <1>2, <1>3, <1>4, <1>5
<1>8. CASE m = p
  <2>1. s = x
    BY <1>2, <1>8
  <2>2. After(p, x)'
    BY <1>1, <1>2, <1>3 DEF After
  <2>3. \A n \in Linked : After(p, n)' => Before(x, n)'
    <3>1. \A n \in Linked : After(p, n)' => After(p, n)
      BY <1>2, <1>3 DEF After
    <3> QED  BY <1>1, <1>7, <3>1
  <2>4. x # Null
    BY <1>1, Bounds
  <2> QED  BY <1>1, <1>8, <2>1, <2>2, <2>3, <2>4 DEF NextIs
<1>9. CASE m = x
  <2>1. s = q /\ x # HeadNode
    BY <1>1, <1>2, <1>3, <1>9
  <2>2. q # Null => q \in Linked /\ After(x, q)'
    BY <1>1, <1>2 DEF After
  <2>4. \A n \in Linked : After(x, n)' => q # Null /\ (n = q \/ Before(q, n)')
    BY <1>1, <1>3, <1>5, <1>6, <2>1 DEF After
  <2> QED  BY <1>1, <1>9, <2>1, <2>2, <2>4 DEF NextIs, After
<1>10. CASE m # p /\ m # x
  <2>1. m \in Reached /\ s = next[m][0]
    <3>1. m \in Reached
      BY <1>1, <1>10 DEF Reached
    <3> QED  BY <1>2, <1>10, <3>1
  <2>2. /\ s # Null => s \in Linked /\ After(m, s)
        /\ \A n \in Linked : After(m, n) => s # Null /\ (n = s \/ Before(s, n))
    BY <2>1 DEF BottomLinks, NextIs
  <2>3. \A n \in Linked : After(m, n)' <=> After(m, n)
    BY <1>3, <2>1 DEF After
  \* The new node comes after m: then so does p, unless it is the head.
  <2>4. After(m, x)' => s # Null /\ Before(s, x)'
    <3> SUFFICES ASSUME After(m, x)' PROVE s # Null /\ Before(s, x)'
      OBVIOUS
    <3>1. m = HeadNode \/ key[m] < key[x]
      BY <1>1, <1>3, <2>1 DEF After
    <3>2. p # HeadNode
      BY <1>1, <1>3, <1>7, <1>10, <2>1, <3>1 DEF After
    <3>3. p \in Linked /\ key[p] < key[x]
      BY <1>2, <1>3, <3>2
    <3>4. After(m, p)
      BY <1>1, <1>3, <1>4, <1>7, <1>10, <2>1, <3>1, <3>2, <3>3 DEF After
    <3>5. s # Null /\ s \in Linked /\ (p = s \/ Before(s, p))
      BY <2>2, <3>3, <3>4
    <3>6. key[s] <= key[p]
      BY <1>3, <1>4, <3>3, <3>5
    <3> QED  BY <1>1, <1>3, <3>3, <3>5, <3>6
  <2>5. /\ s # Null => s \in Linked' /\ After(m, s)'
        /\ \A n \in Linked : After(m, n)' => s # Null /\ (n = s \/ Before(s, n)')
    BY <1>1, <1>3, <2>2, <2>3
  <2> QED  BY <1>1, <2>4, <2>5 DEF NextIs
<1> QED  BY <1>8, <1>9, <1>10

\* Which pointers of reachable nodes a step may change.
LEMMA PointersStay ==
    ASSUME Structure, Searching, [Next]_vars, NEW m \in Reached, NEW i \in Levels
    PROVE  \/ next'[m][i] = next[m][i]
           \/ i = 0 /\ \E t \in Writers : LinkBottom(t)
           \/ \E t \in Writers :
                 /\ LinkUpper(t) /\ i = rising[t] /\ i > 0
                 /\ m = preds[t][i] /\ next'[m][i] = mine[t]
<1>t. /\ next \in [Nodes -> [Levels -> Nodes \cup {Null}]] /\ m \in Nodes /\ 0 \in Levels
      /\ next[m] \in [Levels -> Nodes \cup {Null}]
  BY LinkedNodes, Bounds DEF Structure, TypeOK
<1>o. \A t \in Writers : OwnNode(t)
  BY DEF Structure, OwnNodes
<1>1. ASSUME NEW t \in Writers, LinkBottom(t), i # 0 PROVE next'[m][i] = next[m][i]
  <2>1. mine[t] \notin Reached /\ mine[t] \in Nodes
    <3>1. pc[t] = "link"
      BY <1>1 DEF LinkBottom
    <3>2. mine[t] \in 2 .. used /\ mine[t] \notin Linked
      BY <1>o, <3>1 DEF OwnNode, Rising
    <3>3. used \in Nat /\ used \in 1 .. MaxNodes /\ MaxNodes \in Nat
      BY Bounds, LinkedNodes DEF Structure, TypeOK, Nodes
    <3>4. mine[t] \in 1 .. MaxNodes /\ mine[t] # HeadNode
      BY <3>2, <3>3 DEF HeadNode
    <3> QED  BY <3>2, <3>4 DEF Reached, Nodes
  <2>2. m # preds[t][0] => next'[m] = next[m]
    BY <1>1, <2>1, LinkedIn
  <2>3. m = preds[t][0] => next'[m][i] = next[m][i]
    BY <1>1, <2>1, LinkedIn
  <2> QED  BY <2>2, <2>3
<1>2. ASSUME NEW t \in Writers, RetryBottom(t) PROVE next'[m][i] = next[m][i]
  <2>1. pc[t] = "link" /\ next' = [next EXCEPT ![mine[t]] = Tower(t)]
    BY <1>2 DEF RetryBottom
  <2>2. mine[t] # m
    <3>1. mine[t] \in 2 .. used /\ mine[t] \notin Linked
      BY <1>o, <2>1 DEF OwnNode, Rising
    <3>2. mine[t] # HeadNode
      BY <3>1, LinkedNodes DEF HeadNode
    <3> QED  BY <3>1, <3>2 DEF Reached
  <2> QED  BY <1>t, <2>1, <2>2
<1>3. ASSUME NEW t \in Writers, LinkUpper(t)
      PROVE  \/ next'[m][i] = next[m][i]
             \/ i = rising[t] /\ i > 0 /\ m = preds[t][i] /\ next'[m][i] = mine[t]
  <2>1. /\ pc[t] = "rise"
        /\ next' = [next EXCEPT ![preds[t][rising[t]]][rising[t]] = mine[t]]
    BY <1>3 DEF LinkUpper
  <2>2. rising[t] > 0
    BY <1>o, <2>1 DEF OwnNode, Rising
  <2>3. CASE m = preds[t][rising[t]] /\ i = rising[t]
    BY <1>t, <2>1, <2>2, <2>3
  <2>4. CASE m = preds[t][rising[t]] /\ i # rising[t]
    BY <1>t, <2>1, <2>4
  <2>5. CASE m # preds[t][rising[t]]
    BY <1>t, <2>1, <2>5
  <2> QED  BY <2>3, <2>4, <2>5
<1>4. ASSUME NEW t \in Writers,
             \/ Forward(t) \/ FindLevel(t) \/ RetryUpper(t)
             \/ \E k \in Keys, h \in 1 .. MaxHeight : Put(t, k, h)
      PROVE  next'[m][i] = next[m][i]
  BY <1>4 DEF Forward, FindLevel, RetryUpper, Put
<1>5. ASSUME NEW t \in Readers, ReaderStep(t) \/ \E k \in Keys : Get(t, k)
      PROVE  next'[m][i] = next[m][i]
  BY <1>5 DEF ReaderStep, Forward, Descend, Return, Get
<1>6. BeginWalk \/ Visit \/ UNCHANGED vars => next'[m][i] = next[m][i]
  BY DEF BeginWalk, Visit, vars
<1> QED  BY <1>1, <1>2, <1>3, <1>4, <1>5, <1>6 DEF Next, WriterStep

LEMMA BottomStep ==
    Structure /\ Structure' /\ Searching /\ BottomLinks /\ [Next]_vars => BottomLinks'
<1> SUFFICES ASSUME Structure, Structure', Searching, BottomLinks, [Next]_vars,
                    NEW m \in Reached', NEW s, s = next'[m][0]
             PROVE  NextIs(m, s)'
  BY DEF BottomLinks
<1>1. ASSUME NEW t \in Writers, LinkBottom(t) PROVE NextIs(m, s)'
  BY <1>1, BottomLinked
<1>2. CASE ~ \E t \in Writers : LinkBottom(t)
  <2>1. UNCHANGED Linked /\ m \in Reached
    BY <1>2, Growth DEF Reached
  <2>2. s = next[m][0]
    BY <1>2, <2>1, PointersStay, Bounds
  <2>3. NextIs(m, s)
    BY <2>1, <2>2 DEF BottomLinks
  <2>4. \A n, l \in Linked : Before(n, l)' <=> Before(n, l)
    BY BeforeStays
  <2>5. m # HeadNode => m \in Linked
    BY <2>1 DEF Reached
  <2>6. \A n \in Linked : After(m, n)' <=> After(m, n)
    BY <2>4, <2>5 DEF After
  <2>7. s # Null => s \in Linked /\ After(m, s)
    BY <2>3 DEF NextIs
  <2>8. \A n \in Linked : After(m, n) => s # Null /\ (n = s \/ Before(s, n))
    BY <2>3 DEF NextIs
  <2> QED  BY <2>1, <2>4, <2>6, <2>7, <2>8 DEF NextIs
<1> QED  BY <1>1, <1>2

LEMMA UpperStep ==
    Structure /\ Structure' /\ Searching /\ UpperSound /\ [Next]_vars => UpperSound'
<1> SUFFICES ASSUME Structure, Structure', Searching, UpperSound, [Next]_vars,
                    NEW m \in Reached', NEW i \in Levels \ {0}, NEW n, n = next'[m][i], n # Null
             PROVE  /\ n \in Linked' /\ i < height'[m] /\ i < height'[n]
                    /\ m = HeadNode \/ key'[m] <= key'[n]
  BY DEF UpperSound, Reached
<1>g. /\ Grown
      /\ \A l \in Reached : l \in Reached' /\ key'[l] = key[l] /\ height'[l] = height[l]
      /\ Linked \subseteq Linked' /\ Linked \subseteq Reached
  BY Growth, GoodStays DEF Grown, Reached
<1>k. \A l \in Linked : key[l] \in Nat
  BY LinkedNodes
<1>1. CASE m \in Reached /\ n = next[m][i]
  <2>1. n \in Linked /\ i < height[m] /\ i < height[n] /\ (m = HeadNode \/ key[m] <= key[n])
    BY <1>1 DEF UpperSound, Reached
  <2> QED  BY <1>1, <1>g, <2>1
<1>2. ASSUME NEW t \in Writers, LinkUpper(t), i = rising[t], i > 0,
             m \in Reached, m = preds[t][i], n = mine[t]
      PROVE  /\ n \in Linked' /\ i < height'[m] /\ i < height'[n]
             /\ m = HeadNode \/ key'[m] <= key'[n]
  <2>1. pc[t] = "rise" /\ LevelSound(t, i) /\ OwnNode(t)
    BY <1>2 DEF LinkUpper, Searching, Structure, OwnNodes
  <2>2. n \in Linked /\ key[n] = goal[t] /\ i < height[n]
    BY <1>2, <2>1 DEF OwnNode, Rising
  <2>3. GoodPred(m, i, goal[t])
    BY <1>2, <2>1, LinkedNodes DEF LevelSound
  <2>4. i < height[m] /\ (m = HeadNode \/ (key[m] < key[n] /\ m \in Linked))
    BY <2>2, <2>3 DEF GoodPred, Reached
  <2> QED  BY <1>2, <1>g, <1>k, <2>2, <2>4
\* The tower of a new node leads to the successors of its search.
<1>3. ASSUME NEW t \in Writers, LinkBottom(t), m \notin Reached
      PROVE  /\ n \in Linked' /\ i < height'[m] /\ i < height'[n]
             /\ m = HeadNode \/ key'[m] <= key'[n]
  <2> SUFFICES ASSUME NEW x, x = mine[t]
               PROVE  /\ n \in Linked' /\ i < height'[m] /\ i < height'[n]
                      /\ m = HeadNode \/ key'[m] <= key'[n]
    OBVIOUS
  <2>1. x \notin Reached /\ x \in Nodes /\ Linked' = Linked \cup {x} /\ UNCHANGED <<key, height>>
    BY <1>3, Newcomer
  <2>2. m = x
    BY <1>3, <2>1 DEF Reached
  <2>3. next'[x] = Tower(t)
    BY <1>3, <2>1, LinkedIn
  <2>4. i < height[x] /\ n = succs[t][i]
    BY <2>2, <2>3 DEF Tower
  <2>5. LevelSound(t, i) /\ key[x] = goal[t]
    BY <1>3 DEF LinkBottom, Searching, Structure, OwnNodes, OwnNode
  <2>6. n \in Linked /\ i < height[n] /\ key[x] <= key[n]
    BY <2>4, <2>5 DEF LevelSound, GoodSucc
  <2> QED  BY <2>1, <2>2, <2>4, <2>6
<1>4. m \in Reached \/ \E t \in Writers : LinkBottom(t)
  BY Growth DEF Reached
<1>5. CASE m \in Reached
  <2>1. \/ next'[m][i] = next[m][i]
        \/ \E t \in Writers :
              LinkUpper(t) /\ i = rising[t] /\ i > 0 /\ m = preds[t][i] /\ next'[m][i] = mine[t]
    BY <1>5, PointersStay
  <2> QED  BY <1>1, <1>2, <1>5, <2>1
<1> QED  BY <1>3, <1>4, <1>5

-----------------------------------------------------------------------------
(* The inductive invariant, and what follows from it.                      *)

Lists == Structure /\ Searching /\ BottomLinks /\ UpperSound

LEMMA InitLists == Init => Lists
<1> SUFFICES ASSUME Init PROVE Searching /\ BottomLinks /\ UpperSound
  BY InitStructure DEF Lists
<1> USE Bounds DEF Init
<1>1. Linked = {} /\ Reached = {HeadNode}
  <2>1. Len(order) = 0
    BY EmptySeq
  <2> QED  BY <2>1 DEF Linked, Reached
<1>2. \A m \in Reached, i \in Levels : next[m][i] = Null
  BY <1>1 DEF NoTower
<1>3. Searching
  <2>1. \A t \in Threads : pc[t] = "idle"
    OBVIOUS
  <2>2. \A t \in Writers, i \in Levels :
           t \in Threads /\ preds[t][i] = Null /\ succs[t][i] = Null
    BY DEF NoTower, Threads
  <2> QED  BY <2>1, <2>2 DEF Searching, WalkerSound, LevelSound, Found
<1>4. BottomLinks
  BY <1>1, <1>2 DEF BottomLinks, NextIs
<1>5. UpperSound
  BY <1>2 DEF UpperSound, Reached
<1> QED  BY <1>3, <1>4, <1>5

\* The searches and the lists keep each other sound: this is the invariant that no
\* step of any writer or reader breaks.
THEOREM InductiveLists == Spec => []Lists
<1>1. Lists /\ [Next]_vars => Lists'
  <2> SUFFICES ASSUME Lists, [Next]_vars PROVE Lists'
    OBVIOUS
  <2>1. Structure'
    BY TypeStep, NodesStep, OwnStep DEF Structure, Lists
  <2> QED  BY <2>1, SearchingStep, BottomStep, UpperStep DEF Lists
<1> QED  BY <1>1, InitLists, PTL DEF Spec

LEMMA CompleteLinks == Lists => BottomComplete
<1> SUFFICES ASSUME Lists, NEW m \in Reached, NEW s, s = next[m][0],
                    NEW later, later = {n \in Linked : m = HeadNode \/ Before(m, n)}
             PROVE  IF later = {} THEN s = Null
                    ELSE s \in later /\ \A n \in later : n = s \/ Before(s, n)
  BY DEF BottomComplete, Reached
<1>1. /\ s # Null => s \in Linked /\ After(m, s)
      /\ \A n \in Linked : After(m, n) => s # Null /\ (n = s \/ Before(s, n))
  BY DEF Lists, BottomLinks, NextIs
<1>2. \A n : n \in later <=> n \in Linked /\ After(m, n)
  BY DEF After
<1> QED  BY <1>1, <1>2

\* Whatever the interleaving of the compare-and-swaps of any number of puts, level 0
\* loses no node and stays sorted, the newest version of a key first
\* (offheap_skiplist.hpp:33-48).
THEOREM LevelZeroComplete == Spec => []BottomComplete
BY InductiveLists, CompleteLinks, PTL

\* The upper levels never lead astray, although a retry leaves in the tower the
\* successors of an earlier search (offheap_skiplist.hpp:50-60).
THEOREM UpperLevelsSound == Spec => []UpperSound
<1>1. Lists => UpperSound
  BY DEF Lists
<1> QED  BY <1>1, InductiveLists, PTL

-----------------------------------------------------------------------------
(* The walk of the flush.  What it has still to visit is what comes after  *)
(* the cursor: newcomers may be among it or not, but no node that is due   *)
(* can end up behind the cursor unvisited.                                 *)

Visited == {visited[i] : i \in 1 .. Len(visited)}
WalkSound ==
    /\ cursor = Idle => visited = <<>>
    /\ cursor # Idle =>
          /\ cursor # Null => cursor \in Linked
          /\ due \subseteq Linked
          /\ \A n \in due : n \in Visited \/ (cursor # Null /\ (n = cursor \/ Before(cursor, n)))
    /\ Visited \subseteq Linked
    /\ cursor # Null => \A m \in Visited : Before(m, cursor)
    /\ \A i, j \in 1 .. Len(visited) : i < j => Before(visited[i], visited[j])

LEMMA VisitedGrows ==
    ASSUME visited \in Seq(Nodes), NEW x \in Nodes, visited' = Append(visited, x)
    PROVE  /\ Len(visited) \in Nat
           /\ Len(visited') = Len(visited) + 1
           /\ \A i \in 1 .. Len(visited) : visited'[i] = visited[i]
           /\ visited'[Len(visited) + 1] = x
           /\ Visited' = Visited \cup {x}
<1>1. /\ Len(visited) \in Nat
      /\ Len(visited') = Len(visited) + 1
      /\ \A i \in 1 .. Len(visited) : visited'[i] = visited[i]
      /\ visited'[Len(visited) + 1] = x
  BY AppendProperties, LenProperties
<1>2. Visited' = Visited \cup {x}
  BY <1>1 DEF Visited
<1> QED  BY <1>1, <1>2

LEMMA WalkStep == Lists /\ Lists' /\ WalkSound /\ [Next]_vars => WalkSound'
<1> SUFFICES ASSUME Lists, Lists', WalkSound, [Next]_vars PROVE WalkSound'
  OBVIOUS
<1>l. /\ Structure /\ Structure' /\ BottomLinks /\ visited \in Seq(Nodes)
      /\ Linked \subseteq Nodes /\ Linked \subseteq Reached /\ HeadNode \in Reached
      /\ Reached \subseteq Nodes /\ Null \notin Linked /\ Null # Idle
  BY LinkedNodes, Bounds DEF Lists, Structure, TypeOK, Reached
<1>b. \A l, m, n \in Linked : Before(l, m) /\ Before(m, n) => Before(l, n)
  BY <1>l, BeforeOrders
<1>1. CASE UNCHANGED walkVars
  <2>1. UNCHANGED <<cursor, visited, due, Visited>>
    BY <1>1 DEF walkVars, Visited
  <2>2. /\ Linked \subseteq Linked'
        /\ \A m, n \in Linked : Before(m, n) => Before(m, n)'
    BY <1>l, Growth, BeforeStays DEF Grown
  <2>3. \A i \in 1 .. Len(visited) : visited[i] \in Linked
    BY DEF WalkSound, Visited
  <2>4. cursor = Idle => Visited = {}
    BY EmptySeq DEF WalkSound, Visited
  <2>5. cursor # Null => \A m \in Visited : Before(m, cursor)'
    BY <2>1, <2>2, <2>4 DEF WalkSound
  <2>6. \A i, j \in 1 .. Len(visited) : i < j => Before(visited[i], visited[j])'
    BY <2>1, <2>2, <2>3 DEF WalkSound
  <2> QED  BY <2>1, <2>2, <2>5, <2>6 DEF WalkSound
<1>2. ASSUME UNCHANGED <<order, key>>
      PROVE  UNCHANGED Linked /\ \A m, n : Before(m, n)' <=> Before(m, n)
  BY <1>2 DEF Linked, Before, Version
<1>3. CASE BeginWalk
  <2> SUFFICES ASSUME NEW s, s = next[HeadNode][0] PROVE WalkSound'
    OBVIOUS
  <2>1. /\ cursor = Idle /\ cursor' = s /\ due' = Linked /\ UNCHANGED <<order, key, visited>>
    BY <1>3 DEF BeginWalk, nodeVars
  <2>2. Len(visited) = 0 /\ UNCHANGED Visited /\ Visited = {}
    BY <2>1, EmptySeq DEF WalkSound, Visited
  <2>3. /\ s # Null => s \in Linked
        /\ \A n \in Linked : s # Null /\ (n = s \/ Before(s, n))
    BY <1>l DEF BottomLinks, NextIs, After
  <2>4. s # Idle
    BY <1>l, Bounds, <2>3
  <2>5. UNCHANGED Linked /\ \A m, n : Before(m, n)' <=> Before(m, n)
    BY <1>2, <2>1
  <2> QED  BY <2>1, <2>2, <2>3, <2>4, <2>5 DEF WalkSound
<1>4. CASE Visit
  <2> SUFFICES ASSUME NEW c, c = cursor, NEW s, s = next[c][0] PROVE WalkSound'
    OBVIOUS
  <2>1. /\ c \in Nodes /\ cursor' = s /\ visited' = Append(visited, c)
        /\ UNCHANGED <<order, key, due>>
    BY <1>4 DEF Visit, nodeVars
  <2>2. c # Idle /\ c # Null
    BY <2>1, Bounds
  <2>3. c \in Linked /\ \A m \in Visited : Before(m, c)
    BY <2>2 DEF WalkSound
  <2>4. c # HeadNode
    BY <1>l, <2>3, LinkedNodes
  <2>5. /\ s # Null => s \in Linked /\ Before(c, s)
        /\ \A n \in Linked : Before(c, n) => s # Null /\ (n = s \/ Before(s, n))
    BY <1>l, <2>3, <2>4 DEF BottomLinks, NextIs, After
  <2>6. s # Idle
    BY <1>l, Bounds, <2>5
  <2>7. UNCHANGED Linked /\ \A m, n : Before(m, n)' <=> Before(m, n)
    BY <1>2, <2>1
  <2>8. /\ Len(visited) \in Nat
        /\ Len(visited') = Len(visited) + 1
        /\ \A i \in 1 .. Len(visited) : visited'[i] = visited[i]
        /\ visited'[Len(visited) + 1] = c
        /\ Visited' = Visited \cup {c}
    BY <1>l, <2>1, VisitedGrows
  <2>9. Visited \subseteq Linked /\ due \subseteq Linked
    BY <2>2 DEF WalkSound
  <2>10. s # Null => \A m \in Visited' : Before(m, s)
    BY <1>b, <2>3, <2>5, <2>8, <2>9
  <2>11. \A n \in due : n \in Visited' \/ (s # Null /\ (n = s \/ Before(s, n)))
    <3>1. \A n \in due : n \in Visited \/ n = c \/ Before(c, n)
      BY <2>2 DEF WalkSound
    <3> QED  BY <2>5, <2>8, <2>9, <3>1
  <2>12. \A i, j \in 1 .. Len(visited') : i < j => Before(visited'[i], visited'[j])
    <3> SUFFICES ASSUME NEW i \in 1 .. Len(visited'), NEW j \in 1 .. Len(visited'), i < j
                 PROVE  Before(visited'[i], visited'[j])
      OBVIOUS
    <3>1. i \in 1 .. Len(visited) /\ visited'[i] = visited[i] /\ visited[i] \in Visited
      BY <2>8 DEF Visited
    <3>2. CASE j = Len(visited) + 1
      BY <2>3, <2>8, <3>1, <3>2
    <3>3. CASE j \in 1 .. Len(visited)
      BY <2>8, <3>1, <3>3 DEF WalkSound
    <3> QED  BY <2>8, <3>2, <3>3
  <2>13. \A i, j \in 1 .. Len(visited') : i < j => Before(visited[i], visited[j])'
    BY <2>7, <2>12
  <2> QED
    BY <2>1, <2>3, <2>5, <2>6, <2>7, <2>8, <2>9, <2>10, <2>11, <2>13 DEF WalkSound
<1>5. BeginWalk \/ Visit \/ UNCHANGED walkVars
  <2>1. UNCHANGED vars => UNCHANGED walkVars
    BY DEF vars
  <2>2. \A t \in Threads : Forward(t) => UNCHANGED walkVars
    BY DEF Forward
  <2>3. \A t \in Writers : WriterStep(t) => UNCHANGED walkVars
    BY <2>2 DEF WriterStep, Threads, FindLevel, LinkBottom, RetryBottom, LinkUpper, RetryUpper
  <2>4. \A t \in Writers, k \in Keys, h \in 1 .. MaxHeight : Put(t, k, h) => UNCHANGED walkVars
    BY DEF Put
  <2>5. \A t \in Readers : ReaderStep(t) => UNCHANGED walkVars
    BY <2>2 DEF ReaderStep, Threads, Descend, Return
  <2>6. \A t \in Readers, k \in Keys : Get(t, k) => UNCHANGED walkVars
    BY DEF Get
  <2> QED  BY <2>1, <2>3, <2>4, <2>5, <2>6 DEF Next
<1> QED  BY <1>1, <1>3, <1>4, <1>5

\* The flush gets the nodes sorted, the newest version of a key first, and every one
\* that was in the list when it began, while puts go on (offheap_skiplist.hpp:110-131).
THEOREM FlushWalk == Spec => []WalkDelivers
<1>1. Init => WalkSound
  BY EmptySeq, Bounds DEF Init, WalkSound, Visited
<1>2. Lists /\ Lists' /\ WalkSound /\ [Next]_vars => WalkSound'
  BY WalkStep
<1>3. WalkSound => WalkDelivers
  BY Bounds DEF WalkSound, WalkDelivers, Visited
<1> QED  BY <1>1, <1>2, <1>3, InductiveLists, PTL DEF Spec

-----------------------------------------------------------------------------
(* The list implements a map of versions.  A put takes effect with its     *)
(* compare-and-swap on level 0, a lookup with its last load of level 0.    *)

Asking ==
    \A r \in Readers :
        /\ pc[r] \in {"idle", "get"}
        /\ pc[r] = "get" => goal[r] \in Keys /\ answer[r] = Null
        /\ pc[r] = "idle" => goal[r] = NoKey
        /\ answer[r] # Null => answer[r] \in Linked

\* What the refinement mapping makes of the state.
MapLog == [i \in 1 .. Len(order) |-> key[order[i]]]
MapGoal == [r \in Readers |-> goal[r]]
MapAnswer == [r \in Readers |-> Version(answer[r])]

LEMMA LogIsSeq == Structure => MapLog \in Seq(Keys) /\ Len(MapLog) = Len(order)
<1> SUFFICES ASSUME Structure PROVE MapLog \in Seq(Keys) /\ Len(MapLog) = Len(order)
  OBVIOUS
<1>1. Len(order) \in Nat /\ \A i \in 1 .. Len(order) : key[order[i]] \in Keys
  BY VersionIsPlace, LinkedNodes
<1> QED  BY <1>1 DEF MapLog

\* Put takes effect when its node enters level 0, and at no other step.
LEMMA LogStep ==
    ASSUME Structure, Structure', [Next]_vars
    PROVE  \/ UNCHANGED MapLog
           \/ \E t \in Writers : LinkBottom(t) /\ \E k \in Keys : MapLog' = Append(MapLog, k)
<1>1. CASE UNCHANGED <<order, Linked>>
  <2>1. \A i \in 1 .. Len(order) : order[i] \in Linked
    BY DEF Linked
  <2>2. \A n \in Linked : key'[n] = key[n]
    BY Growth, GoodStays DEF Reached
  <2> QED  BY <1>1, <2>1, <2>2 DEF MapLog
<1>2. ASSUME NEW t \in Writers, LinkBottom(t)
      PROVE  \E k \in Keys : MapLog' = Append(MapLog, k)
  <2> SUFFICES ASSUME NEW x, x = mine[t] PROVE \E k \in Keys : MapLog' = Append(MapLog, k)
    OBVIOUS
  <2>1. x \in Nodes /\ Linked' = Linked \cup {x} /\ UNCHANGED key
    BY <1>2, Newcomer
  <2>2. /\ Len(order) \in Nat /\ Len(order') = Len(order) + 1
        /\ \A i \in 1 .. Len(order) : order'[i] = order[i]
        /\ order'[Len(order) + 1] = x
    BY <1>2, <2>1, LinkedGrows DEF LinkBottom, Structure, TypeOK
  <2>3. key[x] \in Keys
    <3>1. x \in 2 .. used
      BY <1>2 DEF LinkBottom, Structure, OwnNodes, OwnNode
    <3> QED  BY <3>1 DEF Structure, NodesSound
  <2> DEFINE new == Append(MapLog, key[x])
  <2>4. MapLog \in Seq(Keys) /\ Len(MapLog) = Len(order)
    BY LogIsSeq
  <2>5. MapLog' \in Seq(Keys) /\ Len(MapLog') = Len(order')
    <3>1. \A i \in 1 .. Len(order) : key[order[i]] \in Keys
      BY VersionIsPlace, LinkedNodes
    <3>2. \A i \in 1 .. Len(order') : key'[order'[i]] \in Keys
      BY <2>1, <2>2, <2>3, <3>1
    <3>3. Len(order') \in Nat
      BY <2>2
    <3> QED  BY <3>2, <3>3 DEF MapLog
  <2>6. /\ new \in Seq(Keys) /\ Len(new) = Len(order) + 1
        /\ \A i \in 1 .. Len(order) : new[i] = MapLog[i]
        /\ new[Len(order) + 1] = key[x]
    BY <2>3, <2>4, AppendProperties
  <2>7. \A i \in 1 .. Len(order) + 1 : MapLog'[i] = new[i]
    <3>1. \A i \in 1 .. Len(order) + 1 : MapLog'[i] = key[order'[i]]
      BY <2>1, <2>2 DEF MapLog
    <3>2. \A i \in 1 .. Len(order) : MapLog[i] = key[order[i]]
      BY DEF MapLog
    <3> HIDE DEF new
    <3> QED  BY <2>2, <2>6, <3>1, <3>2
  <2>8. MapLog' = new
    <3> HIDE DEF new
    <3> QED  BY <2>2, <2>5, <2>6, <2>7, SeqEqual
  <2> QED  BY <2>3, <2>8
<1>3. UNCHANGED <<order, Linked>> \/ \E t \in Writers : LinkBottom(t)
  BY Growth
<1> QED  BY <1>1, <1>2, <1>3

LEMMA AskingStep == Structure /\ Structure' /\ Asking /\ Lists /\ [Next]_vars => Asking'
<1> SUFFICES ASSUME Structure, Structure', Asking, Lists, [Next]_vars PROVE Asking'
  OBVIOUS
<1>t. /\ pc \in [Threads -> {"idle", "find", "link", "rise", "refind", "get"}]
      /\ goal \in [Threads -> Keys \cup {NoKey}]
      /\ current \in [Threads -> Nodes] /\ level \in [Threads -> Levels]
      /\ answer \in [Readers -> Nodes \cup {Null}]
  BY DEF Structure, TypeOK
<1>w. \A t \in Readers : t \in Threads /\ t \notin Writers
  BY SkipListAssumption DEF Threads
<1>g. Linked \subseteq Linked'
  BY Growth DEF Grown
<1>1. CASE \A t \in Readers : UNCHANGED <<pc[t], goal[t], answer[t]>>
  BY <1>1, <1>g DEF Asking
<1>2. ASSUME NEW t \in Readers, NEW k \in Keys, Get(t, k) PROVE Asking'
  BY <1>2, <1>g, <1>t, <1>w DEF Asking, Get
<1>3. ASSUME NEW t \in Readers, Return(t) PROVE Asking'
  <2>1. pc[t] = "get" /\ level[t] = 0 /\ WalkerSound(t)
    BY <1>3, <1>w DEF Return, Lists, Searching
  <2>2. current[t] \in Reached
    BY <2>1 DEF WalkerSound, GoodPred
  <2>3. Ahead(t) # Null => Ahead(t) \in Linked
    BY <2>1, <2>2, AheadSound, Bounds DEF Ahead, Lists
  <2> DEFINE a == IF Hit(t) THEN Ahead(t) ELSE Null
  <2>4. a # Null => a \in Linked
    BY <2>3
  <2>5. /\ pc' = [pc EXCEPT ![t] = "idle"] /\ goal' = [goal EXCEPT ![t] = NoKey]
        /\ answer' = [answer EXCEPT ![t] = a]
    BY <1>3 DEF Return
  <2> HIDE DEF a
  <2> QED  BY <1>g, <1>t, <1>w, <2>4, <2>5 DEF Asking
<1>4. ASSUME NEW t \in Writers, Rise(t, rising[t] + 1) \/ Rise(t, 1)
      PROVE  \A u \in Readers : UNCHANGED <<pc[u], goal[u], answer[u]>>
  BY <1>4, <1>t, <1>w DEF Rise, Finished
<1>5. ASSUME NEW t \in Writers,
             WriterStep(t) \/ \E k \in Keys, h \in 1 .. MaxHeight : Put(t, k, h)
      PROVE  \A u \in Readers : UNCHANGED <<pc[u], goal[u], answer[u]>>
  <2>1. Forward(t) \/ RetryBottom(t) \/ RetryUpper(t)
           => \A u \in Readers : UNCHANGED <<pc[u], goal[u], answer[u]>>
    BY <1>t, <1>w DEF Forward, RetryBottom, RetryUpper
  <2>2. FindLevel(t) => \A u \in Readers : UNCHANGED <<pc[u], goal[u], answer[u]>>
    BY <1>t, <1>w DEF FindLevel
  <2>3. LinkBottom(t) \/ LinkUpper(t)
           => \A u \in Readers : UNCHANGED <<pc[u], goal[u], answer[u]>>
    BY <1>4 DEF LinkBottom, LinkUpper
  <2>4. (\E k \in Keys, h \in 1 .. MaxHeight : Put(t, k, h))
           => \A u \in Readers : UNCHANGED <<pc[u], goal[u], answer[u]>>
    BY <1>t, <1>w DEF Put
  <2> QED  BY <1>5, <2>1, <2>2, <2>3, <2>4 DEF WriterStep
<1>6. ASSUME NEW t \in Readers, Forward(t) \/ Descend(t)
      PROVE  \A u \in Readers : UNCHANGED <<pc[u], goal[u], answer[u]>>
  BY <1>6 DEF Forward, Descend
<1>7. BeginWalk \/ Visit \/ UNCHANGED vars
         => \A u \in Readers : UNCHANGED <<pc[u], goal[u], answer[u]>>
  BY DEF BeginWalk, Visit, vars, threadVars
<1> QED  BY <1>1, <1>2, <1>3, <1>5, <1>6, <1>7 DEF Next, ReaderStep

\* What getRecord finds at the end of level 0: the newest version of the key, if any.
LEMMA NewestFound ==
    ASSUME Structure, BottomLinks, NEW m \in Reached, NEW k \in Keys,
           m = HeadNode \/ key[m] < k,
           NEW s, s = next[m][0], ~ (s # Null /\ key[s] < k)
    PROVE  /\ s # Null /\ key[s] = k => Version(s) \in 1 .. Len(order) /\ MapLog[Version(s)] = k
           /\ \A w \in 1 .. Len(order) :
                 MapLog[w] = k => s # Null /\ key[s] = k /\ w <= Version(s)
<1>1. /\ s # Null => s \in Linked /\ After(m, s)
      /\ \A n \in Linked : After(m, n) => s # Null /\ (n = s \/ Before(s, n))
  BY DEF BottomLinks, NextIs
<1>2. s # Null => Version(s) \in 1 .. Len(order) /\ order[Version(s)] = s
  BY <1>1, VersionIsPlace
<1>3. ASSUME NEW w \in 1 .. Len(order), MapLog[w] = k
      PROVE  s # Null /\ key[s] = k /\ w <= Version(s)
  <2> DEFINE n == order[w]
  <2>1. n \in Linked /\ Version(n) = w /\ key[n] = k
    BY <1>3, VersionIsPlace DEF MapLog
  <2> HIDE DEF n
  <2>2. After(m, n)
    BY <2>1 DEF After, Before
  <2>3. s # Null /\ s \in Linked /\ (n = s \/ Before(s, n))
    BY <1>1, <2>1, <2>2
  <2>4. key[s] \in Nat /\ k \in Nat /\ Version(s) \in Nat /\ w \in Nat
    BY <1>2, <2>1, <2>3, LinkedNodes
  <2> QED  BY <2>1, <2>3, <2>4 DEF Before
<1> QED  BY <1>2, <1>3 DEF MapLog

LEMMA MapSteps ==
    /\ \A k : MapLog' = Append(MapLog, k) /\ UNCHANGED <<MapGoal, MapAnswer>> => Map!Insert(k)
    /\ UNCHANGED <<MapLog, MapGoal, MapAnswer>> => UNCHANGED Map!vars
BY DEF Map!Insert, Map!vars, MapLog, MapGoal, MapAnswer

LEMMA MapStep ==
    ASSUME Lists, Lists', Asking, [Next]_vars
    PROVE  Map!Next \/ UNCHANGED Map!vars
<1>l. Structure /\ Structure' /\ BottomLinks /\ Searching
  BY DEF Lists
<1>t. /\ pc \in [Threads -> {"idle", "find", "link", "rise", "refind", "get"}]
      /\ goal \in [Threads -> Keys \cup {NoKey}]
      /\ current \in [Threads -> Nodes] /\ level \in [Threads -> Levels]
      /\ answer \in [Readers -> Nodes \cup {Null}]
  BY <1>l DEF Structure, TypeOK
<1>w. \A t \in Readers : t \in Threads /\ t \notin Writers
  BY SkipListAssumption DEF Threads
\* The version that a reader holds is the same one after the step.
<1>v. \A r \in Readers : answer'[r] = answer[r] => Version(answer[r])' = Version(answer[r])
  <2> SUFFICES ASSUME NEW r \in Readers, NEW a, a = answer[r] PROVE Version(a)' = Version(a)
    OBVIOUS
  <2>1. CASE a # Null
    BY <1>l, <2>1, BeforeStays DEF Asking
  <2>2. CASE a = Null
    <3>1. a \notin Linked
      BY <1>l, <2>2, LinkedNodes DEF Reached
    <3>2. a \notin Linked'
      <4>1. Linked' \subseteq Linked \cup Nodes
        BY <1>l, Growth
      <4> QED  BY <2>2, <3>1, <4>1, Bounds
    <3> QED  BY <3>1, <3>2 DEF Version
  <2> QED  BY <2>1, <2>2
\* Steps that no reader notices.
<1>q. ASSUME \A r \in Readers : UNCHANGED <<goal[r], answer[r]>>
      PROVE  Map!Next \/ UNCHANGED Map!vars
  <2>1. UNCHANGED <<MapGoal, MapAnswer>>
    BY <1>q, <1>v DEF MapGoal, MapAnswer
  <2>2. CASE UNCHANGED MapLog
    BY <2>1, <2>2, MapSteps
  <2>3. ASSUME NEW k \in Keys, MapLog' = Append(MapLog, k) PROVE Map!Next
    <3>1. Map!Insert(k)
      BY <2>1, <2>3, MapSteps
    <3> QED  BY <3>1 DEF Map!Next
  <2> QED  BY <1>l, <2>2, <2>3, LogStep
<1>1. ASSUME NEW r \in Readers, NEW k \in Keys, Get(r, k) PROVE Map!Next
  <2>1. /\ pc[r] = "idle" /\ goal[r] = NoKey /\ UNCHANGED <<order, key>>
        /\ goal' = [goal EXCEPT ![r] = k] /\ answer' = [answer EXCEPT ![r] = Null]
    BY <1>1 DEF Get, nodeVars, Asking
  <2>2. UNCHANGED MapLog
    BY <2>1 DEF MapLog
  <2>3. MapGoal' = [MapGoal EXCEPT ![r] = k]
    BY <1>t, <1>w, <2>1 DEF MapGoal
  <2>4. MapAnswer' = [MapAnswer EXCEPT ![r] = 0]
    <3>1. Version(answer[r])' = 0
      <4>1. Null \notin Linked' /\ answer'[r] = Null
        <5>1. UNCHANGED Linked
          BY <2>1 DEF Linked
        <5> QED  BY <1>l, <1>t, <2>1, <5>1, LinkedNodes DEF Reached
      <4> QED  BY <4>1 DEF Version
    <3>2. \A u \in Readers \ {r} : Version(answer[u])' = Version(answer[u])
      BY <1>t, <1>v, <2>1
    <3> QED  BY <3>1, <3>2 DEF MapAnswer
  <2>5. MapGoal[r] = NoKey
    BY <2>1 DEF MapGoal
  <2>6. Map!Ask(r, k)
    BY <2>2, <2>3, <2>4, <2>5 DEF Map!Ask, Map!NoKey, NoKey, MapLog, MapGoal, MapAnswer
  <2> QED  BY <2>6 DEF Map!Next
<1>2. ASSUME NEW r \in Readers, Return(r) PROVE Map!Next
  <2> SUFFICES ASSUME NEW m, m = current[r], NEW k, k = goal[r], NEW s, s = next[m][0]
               PROVE  Map!Next
    OBVIOUS
  <2> DEFINE hit == s # Null /\ key[s] = k
  <2>1. /\ pc[r] = "get" /\ level[r] = 0 /\ ~ (s # Null /\ key[s] < k)
        /\ answer' = [answer EXCEPT ![r] = IF hit THEN s ELSE Null]
        /\ goal' = [goal EXCEPT ![r] = NoKey] /\ UNCHANGED <<order, key>>
    BY <1>2 DEF Return, Short, Hit, Ahead, nodeVars
  <2>2. m \in Reached /\ (m = HeadNode \/ key[m] < k)
    BY <1>l, <1>w, <2>1 DEF Searching, WalkerSound, GoodPred
  <2>3. k \in Keys /\ answer[r] = Null
    BY <2>1 DEF Asking
  <2>4. /\ hit => Version(s) \in 1 .. Len(order) /\ MapLog[Version(s)] = k
        /\ \A w \in 1 .. Len(order) : MapLog[w] = k => hit /\ w <= Version(s)
    BY <1>l, <2>1, <2>2, <2>3, NewestFound
  <2> HIDE DEF hit
  <2>5. UNCHANGED <<MapLog, Linked>> /\ \A n : Version(n)' = Version(n)
    BY <2>1 DEF MapLog, Version, Linked
  <2>6. MapGoal' = [MapGoal EXCEPT ![r] = NoKey] /\ MapGoal[r] = k
    BY <1>t, <1>w, <2>1 DEF MapGoal
  <2>7. \A u \in Readers \ {r} : Version(answer[u])' = Version(answer[u])
    BY <1>t, <1>v, <2>1
  <2>8. Len(MapLog) = Len(order)
    BY <1>l, LogIsSeq
  <2>9. k # NoKey
    BY <2>3, Bounds
  <2> DEFINE versions == {v \in 1 .. Len(MapLog) : MapLog[v] = k}
  <2>10. CASE hit
    <3>1. Version(answer[r])' = Version(s)
      <4>1. answer'[r] = s
        BY <1>t, <2>1, <2>10
      <4> QED  BY <2>5, <4>1
    <3>2. MapAnswer' = [MapAnswer EXCEPT ![r] = Version(s)]
      BY <2>7, <3>1 DEF MapAnswer
    <3>3. Version(s) \in versions /\ \A w \in versions : w <= Version(s)
      BY <2>4, <2>8, <2>10
    <3>4. Map!Answer(r)
      BY <2>5, <2>6, <2>9, <3>2, <3>3
         DEF Map!Answer, Map!Versions, Map!NoKey, NoKey, MapLog, MapGoal, MapAnswer
    <3> QED  BY <3>4 DEF Map!Next
  <2>11. CASE ~ hit
    <3>1. UNCHANGED MapAnswer
      <4>1. answer'[r] = answer[r]
        BY <1>t, <2>1, <2>3, <2>11
      <4> QED  BY <1>v, <2>7, <4>1 DEF MapAnswer
    <3>2. versions = {}
      BY <2>4, <2>8, <2>11
    <3>3. Map!Answer(r)
      BY <2>5, <2>6, <2>9, <3>1, <3>2, ZenonT(30)
         DEF Map!Answer, Map!Versions, Map!NoKey, NoKey, MapLog, MapGoal, MapAnswer
    <3> QED  BY <3>3 DEF Map!Next
  <2> QED  BY <2>10, <2>11
\* A writer is not a reader, and a reader on its way has no answer yet.
<1>3. ASSUME NEW t \in Writers,
             WriterStep(t) \/ \E k \in Keys, h \in 1 .. MaxHeight : Put(t, k, h)
      PROVE  \A r \in Readers : UNCHANGED <<goal[r], answer[r]>>
  <2>1. Forward(t) \/ FindLevel(t) \/ RetryBottom(t) \/ RetryUpper(t)
           => UNCHANGED <<goal, answer>>
    BY DEF Forward, FindLevel, RetryBottom, RetryUpper
  <2>2. LinkBottom(t) \/ LinkUpper(t)
           => UNCHANGED answer /\ \A r \in Readers : UNCHANGED goal[r]
    BY <1>t, <1>w DEF LinkBottom, LinkUpper, Rise, Finished
  <2>3. (\E k \in Keys, h \in 1 .. MaxHeight : Put(t, k, h))
           => UNCHANGED answer /\ \A r \in Readers : UNCHANGED goal[r]
    BY <1>t, <1>w DEF Put
  <2> QED  BY <1>3, <2>1, <2>2, <2>3 DEF WriterStep
<1>4. ASSUME NEW t \in Readers, Forward(t) \/ Descend(t)
      PROVE  \A r \in Readers : UNCHANGED <<goal[r], answer[r]>>
  BY <1>4 DEF Forward, Descend
<1>5. BeginWalk \/ Visit \/ UNCHANGED vars => \A r \in Readers : UNCHANGED <<goal[r], answer[r]>>
  BY DEF BeginWalk, Visit, vars, threadVars
<1> QED  BY <1>q, <1>1, <1>2, <1>3, <1>4, <1>5 DEF Next, ReaderStep

\* For any number of writers and readers, the list is a map of versions: every put
\* takes effect at one moment, and getRecord answers with the newest version of its
\* key at its last load of level 0 (offheap_skiplist.hpp:33-108).
THEOREM ListImplementsMap == Spec => ImplementsMap
<1>1. Init => Map!Init
  <2> SUFFICES ASSUME Init PROVE Map!Init
    OBVIOUS
  <2>1. Len(order) = 0 /\ MapLog = <<>>
    <3>1. Len(order) = 0
      BY EmptySeq DEF Init
    <3> QED  BY <3>1 DEF MapLog
  <2>2. \A r \in Readers : goal[r] = NoKey /\ Version(answer[r]) = 0
    <3>1. Linked = {}
      BY <2>1 DEF Linked
    <3> QED  BY <3>1 DEF Init, Threads, Version
  <2> QED  BY <2>1, <2>2 DEF Map!Init, Map!NoKey, NoKey, MapLog
<1>2. Init => Asking
  BY DEF Init, Asking, Threads
<1>3. Asking /\ Lists /\ Lists' /\ [Next]_vars => Asking'
  BY AskingStep DEF Lists
<1>4. Asking /\ Lists /\ Lists' /\ [Next]_vars => [Map!Next]_(Map!vars)
  BY MapStep
<1> QED  BY <1>1, <1>2, <1>3, <1>4, InductiveLists, PTL DEF Spec, ImplementsMap, Map!Spec
=============================================================================
