------------------------------ MODULE SkipList ------------------------------
(***************************************************************************)
(* OffHeapSkipList: writers insert without locks, by compare-and-swap on   *)
(* the next pointers, level 0 first; readers and the flush walk the lists  *)
(* meanwhile.  Nodes are never changed in their key or removed, and a new  *)
(* version of a key goes in front of the older ones.                       *)
(*                                                                         *)
(* A step is one load or one compare-and-swap of a shared pointer.  The    *)
(* loads are plain copies of four aligned bytes: they are taken to yield   *)
(* a value that was stored there, in program order.                        *)
(***************************************************************************)
EXTENDS Integers, Sequences

CONSTANTS
    Writers, Readers,
    Keys,
    MaxHeight,   \* MAX_HEIGHT
    \* Bound.
    MaxNodes     \* the nodes the arena holds, the head included

ASSUME SkipListAssumption ==
    /\ Writers \cap Readers = {}
    /\ Keys \subseteq Nat
    /\ MaxHeight \in Nat \ {0}
    /\ MaxNodes \in Nat \ {0}

VARIABLES
    used,       \* the nodes allocated (allocateOffset_)
    key,        \* the key and the tower of a node: what is written before
    height,     \*   it can be reached
    next,       \* the next pointers, per node and level
    order,      \* the nodes in the order they entered level 0 (history)
    pc, goal,
    current,    \* currentOffset of a walk down the levels
    level,      \* and its level
    mine,       \* newNodeOffset
    preds, succs,
    rising,     \* the level of put's second loop
    answer,     \* what getRecord returned last
    cursor,     \* currentOffset of forEach
    visited,    \* the nodes it has handed to the visitor
    due         \* the nodes level 0 had when it began (history)

nodeVars == <<used, key, height>>
threadVars == <<pc, goal, current, level, mine, preds, succs, rising, answer>>
walkVars == <<cursor, visited, due>>
vars == <<nodeVars, next, order, threadVars, walkVars>>

Threads == Writers \cup Readers
Levels == 0 .. MaxHeight - 1
Null == 0
HeadNode == 1
Nodes == 1 .. MaxNodes
NoKey == -1
Idle == -1      \* forEach has not begun
NoTower == [i \in Levels |-> Null]
Linked == {order[i] : i \in 1 .. Len(order)}

Init ==
    /\ used = HeadNode
    /\ key = [n \in Nodes |-> NoKey]
    /\ height = [n \in Nodes |-> IF n = HeadNode THEN MaxHeight ELSE 0]
    /\ next = [n \in Nodes |-> NoTower]
    /\ order = <<>>
    /\ pc = [t \in Threads |-> "idle"]
    /\ goal = [t \in Threads |-> NoKey]
    /\ current = [t \in Threads |-> HeadNode]
    /\ level = [t \in Threads |-> 0]
    /\ mine = [t \in Writers |-> Null]
    /\ preds = [t \in Writers |-> NoTower]
    /\ succs = [t \in Writers |-> NoTower]
    /\ rising = [t \in Writers |-> 0]
    /\ answer = [t \in Readers |-> Null]
    /\ cursor = Idle
    /\ visited = <<>>
    /\ due = {}

-----------------------------------------------------------------------------
(* The walk down the levels, of findPredecessors and of getRecord alike.   *)

FromTheTop(t) ==
    /\ current' = [current EXCEPT ![t] = HeadNode]
    /\ level' = [level EXCEPT ![t] = MaxHeight - 1]

Ahead(t) == next[current[t]][level[t]]

\* A mutant of the next one: equal keys are passed as well.
ShortOrEqual(t) == Ahead(t) # Null /\ key[Ahead(t)] <= goal[t]

\* The node ahead comes before the goal: compareKeys is negative.
Short(t) == Ahead(t) # Null /\ key[Ahead(t)] < goal[t]

Forward(t) ==
    /\ pc[t] \in {"find", "refind", "get"}
    /\ Short(t)
    /\ current' = [current EXCEPT ![t] = Ahead(t)]
    /\ UNCHANGED <<nodeVars, next, order, pc, goal, level, mine, preds, succs, rising,
                   answer, walkVars>>

-----------------------------------------------------------------------------
(* put                                                                     *)

\* A mutant of the next one: the arena is full and does not say so.
PutOverfull(t, k, h) ==
    /\ pc[t] = "idle"
    /\ used <= MaxNodes
    /\ used' = used + 1
    /\ key' = [key EXCEPT ![used + 1] = k]
    /\ height' = [height EXCEPT ![used + 1] = h]
    /\ mine' = [mine EXCEPT ![t] = used + 1]
    /\ goal' = [goal EXCEPT ![t] = k]
    /\ pc' = [pc EXCEPT ![t] = "find"]
    /\ FromTheTop(t)
    /\ UNCHANGED <<next, order, preds, succs, rising, answer, walkVars>>

\* The record is written to a node of its own.
Put(t, k, h) ==
    /\ pc[t] = "idle"
    /\ used < MaxNodes
    /\ used' = used + 1
    /\ key' = [key EXCEPT ![used + 1] = k]
    /\ height' = [height EXCEPT ![used + 1] = h]
    /\ mine' = [mine EXCEPT ![t] = used + 1]
    /\ goal' = [goal EXCEPT ![t] = k]
    /\ pc' = [pc EXCEPT ![t] = "find"]
    /\ FromTheTop(t)
    /\ UNCHANGED <<next, order, preds, succs, rising, answer, walkVars>>

\* The end of one level of findPredecessors.
FindLevel(t) ==
    /\ pc[t] \in {"find", "refind"}
    /\ ~ Short(t)
    /\ preds' = [preds EXCEPT ![t][level[t]] = current[t]]
    /\ succs' = [succs EXCEPT ![t][level[t]] = Ahead(t)]
    /\ IF level[t] > 0
       THEN /\ level' = [level EXCEPT ![t] = @ - 1]
            /\ UNCHANGED pc
       ELSE /\ pc' = [pc EXCEPT ![t] = IF @ = "find" THEN "link" ELSE "rise"]
            /\ UNCHANGED level
    /\ UNCHANGED <<nodeVars, next, order, goal, current, mine, rising, answer, walkVars>>

Finished(t) ==
    /\ pc' = [pc EXCEPT ![t] = "idle"]
    /\ goal' = [goal EXCEPT ![t] = NoKey]
    /\ current' = [current EXCEPT ![t] = HeadNode]
    /\ level' = [level EXCEPT ![t] = 0]
    /\ mine' = [mine EXCEPT ![t] = Null]
    /\ preds' = [preds EXCEPT ![t] = NoTower]
    /\ succs' = [succs EXCEPT ![t] = NoTower]
    /\ rising' = [rising EXCEPT ![t] = 0]
    /\ UNCHANGED answer

\* A mutant of the next one: the loop runs one level too far.
RiseTooHigh(t, i) ==
    IF i <= height[mine[t]]
    THEN /\ pc' = [pc EXCEPT ![t] = "rise"]
         /\ rising' = [rising EXCEPT ![t] = i]
         /\ UNCHANGED <<goal, current, level, mine, preds, succs, answer>>
    ELSE Finished(t)

\* put goes on with level i, or returns.
Rise(t, i) ==
    IF i < height[mine[t]]
    THEN /\ pc' = [pc EXCEPT ![t] = "rise"]
         /\ rising' = [rising EXCEPT ![t] = i]
         /\ UNCHANGED <<goal, current, level, mine, preds, succs, answer>>
    ELSE Finished(t)

\* A mutant of the next one: the pointer is stored without a comparison.
NotCompared(t, i) == TRUE

\* compare_exchange_strong of the pointer of preds[i] finds succs[i] there.
Unchanged(t, i) == next[preds[t][i]][i] = succs[t][i]

\* The tower of the new node points to the successors.  Nobody else sees it yet.
Tower(t) == [i \in Levels |-> IF i < height[mine[t]] THEN succs[t][i] ELSE Null]

LinkBottom(t) ==
    /\ pc[t] = "link"
    /\ Unchanged(t, 0)
    /\ next' = [next EXCEPT ![mine[t]] = Tower(t), ![preds[t][0]][0] = mine[t]]
    /\ order' = Append(order, mine[t])
    /\ Rise(t, 1)
    /\ UNCHANGED <<nodeVars, walkVars>>

RetryBottom(t) ==
    /\ pc[t] = "link"
    /\ ~ Unchanged(t, 0)
    /\ next' = [next EXCEPT ![mine[t]] = Tower(t)]
    /\ pc' = [pc EXCEPT ![t] = "find"]
    /\ FromTheTop(t)
    /\ UNCHANGED <<nodeVars, order, goal, mine, preds, succs, rising, answer, walkVars>>

LinkUpper(t) ==
    /\ pc[t] = "rise"
    /\ Unchanged(t, rising[t])
    /\ next' = [next EXCEPT ![preds[t][rising[t]]][rising[t]] = mine[t]]
    /\ Rise(t, rising[t] + 1)
    /\ UNCHANGED <<nodeVars, order, walkVars>>

\* A mutant of the next one: the comparison is tried again without a new search.
RetryUpperBlindly(t) ==
    /\ pc[t] = "rise"
    /\ ~ Unchanged(t, rising[t])
    /\ UNCHANGED vars

\* The tower keeps the successor of the first search.
RetryUpper(t) ==
    /\ pc[t] = "rise"
    /\ ~ Unchanged(t, rising[t])
    /\ pc' = [pc EXCEPT ![t] = "refind"]
    /\ FromTheTop(t)
    /\ UNCHANGED <<nodeVars, next, order, goal, mine, preds, succs, rising, answer, walkVars>>

-----------------------------------------------------------------------------
(* getRecord                                                               *)

Get(t, k) ==
    /\ pc[t] = "idle"
    /\ pc' = [pc EXCEPT ![t] = "get"]
    /\ goal' = [goal EXCEPT ![t] = k]
    /\ answer' = [answer EXCEPT ![t] = Null]
    /\ FromTheTop(t)
    /\ UNCHANGED <<nodeVars, next, order, mine, preds, succs, rising, walkVars>>

\* A node with the key on an upper level need not be the newest version.
Descend(t) ==
    /\ pc[t] = "get"
    /\ ~ Short(t)
    /\ level[t] > 0
    /\ level' = [level EXCEPT ![t] = @ - 1]
    /\ UNCHANGED <<nodeVars, next, order, pc, goal, current, mine, preds, succs, rising,
                   answer, walkVars>>

Hit(t) == Ahead(t) # Null /\ key[Ahead(t)] = goal[t]

\* A mutant of the next one: a node with the key is taken on any level, as in
\* the version that BENCHMARKS.md:240 tells of.
ReturnEarly(t) ==
    /\ pc[t] = "get"
    /\ ~ Short(t)
    /\ level[t] = 0 \/ Hit(t)
    /\ answer' = [answer EXCEPT ![t] = IF Hit(t) THEN Ahead(t) ELSE Null]
    /\ pc' = [pc EXCEPT ![t] = "idle"]
    /\ goal' = [goal EXCEPT ![t] = NoKey]
    /\ current' = [current EXCEPT ![t] = HeadNode]
    /\ UNCHANGED <<nodeVars, next, order, level, mine, preds, succs, rising, walkVars>>

Return(t) ==
    /\ pc[t] = "get"
    /\ ~ Short(t)
    /\ level[t] = 0
    /\ answer' = [answer EXCEPT ![t] = IF Hit(t) THEN Ahead(t) ELSE Null]
    /\ pc' = [pc EXCEPT ![t] = "idle"]
    /\ goal' = [goal EXCEPT ![t] = NoKey]
    /\ current' = [current EXCEPT ![t] = HeadNode]
    /\ UNCHANGED <<nodeVars, next, order, level, mine, preds, succs, rising, walkVars>>

-----------------------------------------------------------------------------
(* forEach, as the flush uses it: once.  Puts that saw the table mutable   *)
(* may still be under way.                                                 *)

BeginWalk ==
    /\ cursor = Idle
    /\ cursor' = next[HeadNode][0]
    /\ due' = Linked
    /\ UNCHANGED <<nodeVars, next, order, threadVars, visited>>

Visit ==
    /\ cursor \in Nodes
    /\ visited' = Append(visited, cursor)
    /\ cursor' = next[cursor][0]
    /\ UNCHANGED <<nodeVars, next, order, threadVars, due>>

-----------------------------------------------------------------------------

WriterStep(t) ==
    Forward(t) \/ FindLevel(t) \/ LinkBottom(t) \/ RetryBottom(t) \/ LinkUpper(t) \/ RetryUpper(t)
ReaderStep(t) == Forward(t) \/ Descend(t) \/ Return(t)

Next ==
    \/ \E t \in Writers : WriterStep(t) \/ \E k \in Keys, h \in 1 .. MaxHeight : Put(t, k, h)
    \/ \E t \in Readers : ReaderStep(t) \/ \E k \in Keys : Get(t, k)
    \/ BeginWalk \/ Visit

Spec == Init /\ [][Next]_vars

\* A thread inside a call keeps running.
FairSpec ==
    /\ Spec
    /\ \A t \in Writers : WF_vars(WriterStep(t))
    /\ \A t \in Readers : WF_vars(ReaderStep(t))
    /\ WF_vars(Visit)

-----------------------------------------------------------------------------
(* Properties.                                                             *)

TypeOK ==
    /\ used \in Nodes
    /\ key \in [Nodes -> Keys \cup {NoKey}]
    /\ height \in [Nodes -> 0 .. MaxHeight]
    /\ next \in [Nodes -> [Levels -> Nodes \cup {Null}]]
    /\ order \in Seq(Nodes)
    /\ pc \in [Threads -> {"idle", "find", "link", "rise", "refind", "get"}]
    /\ goal \in [Threads -> Keys \cup {NoKey}]
    /\ current \in [Threads -> Nodes]
    /\ level \in [Threads -> Levels]
    /\ mine \in [Writers -> Nodes \cup {Null}]
    /\ preds \in [Writers -> [Levels -> Nodes \cup {Null}]]
    /\ succs \in [Writers -> [Levels -> Nodes \cup {Null}]]
    /\ rising \in [Writers -> Levels]
    /\ answer \in [Readers -> Nodes \cup {Null}]
    /\ cursor \in Nodes \cup {Null, Idle}
    /\ visited \in Seq(Nodes)
    /\ due \subseteq Nodes

\* The place of a node in order, 0 for none: a version of VersionMap.
Version(n) ==
    IF n \in Linked THEN CHOOSE i \in 1 .. Len(order) : order[i] = n ELSE 0

\* What level 0 should be sorted by: the key, then the newest version first.
Before(m, n) == key[m] < key[n] \/ (key[m] = key[n] /\ Version(m) > Version(n))

\* Level 0 holds every node that was linked, each followed by the next one in
\* that order: concurrent puts lose none (offheap_skiplist.hpp:33-48).
BottomComplete ==
    \A m \in Linked \cup {HeadNode} :
        LET later == {n \in Linked : m = HeadNode \/ Before(m, n)} IN
        IF later = {} THEN next[m][0] = Null
        ELSE /\ next[m][0] \in later
             /\ \A n \in later : n = next[m][0] \/ Before(next[m][0], n)

\* The upper levels lead from towers that are high enough to nodes of level 0 that
\* are too, and never to a smaller key, in spite of the successors that a retry
\* leaves in the tower: no pointer is written behind the end of a node
\* (offheap_skiplist.hpp:50-60).
UpperSound ==
    \A m \in Linked \cup {HeadNode}, i \in Levels \ {0} :
        LET n == next[m][i] IN
        n # Null =>
            n \in Linked /\ i < height[m] /\ i < height[n] /\ (m = HeadNode \/ key[m] <= key[n])

\* The walk of the flush hands over the nodes sorted by key, the newest version
\* first, as SSTableBuilder needs them, and leaves out none that was in the
\* list when it began (offheap_skiplist.hpp:110-131).
WalkDelivers ==
    /\ \A i, j \in 1 .. Len(visited) : i < j => Before(visited[i], visited[j])
    /\ cursor = Null => due \subseteq {visited[i] : i \in 1 .. Len(visited)}

\* Every call returns: the retries end and no walk goes round.
CallsReturn == \A t \in Threads : pc[t] # "idle" ~> pc[t] = "idle"

\* The list is a map of versions: put and getRecord take effect at one moment.
Map == INSTANCE VersionMap WITH
           log <- [i \in 1 .. Len(order) |-> key[order[i]]],
           goal <- [r \in Readers |-> goal[r]],
           answer <- [r \in Readers |-> Version(answer[r])]

ImplementsMap == Map!Spec
=============================================================================
