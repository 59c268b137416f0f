---------------------------- MODULE EngineProofs ----------------------------
(***************************************************************************)
(* Theorems about the running engine of module Engine, for any number of   *)
(* clients, keys, puts, flushes and compactions.                           *)
(***************************************************************************)
EXTENDS Engine, SequenceTheorems, FiniteSetTheorems, TLAPS

-----------------------------------------------------------------------------
(* Numbers, ranks and sequences.                                           *)

LEMMA LeastOf ==
    ASSUME NEW T, T \subseteq Nat, T # {}
    PROVE  \E p \in T : \A q \in T : p <= q
<1> DEFINE R == OpToRel(<, Nat)
<1>1. (\A p, q \in Nat : q < p => <<q, p>> \in R) /\ IsWellFoundedOn(R, Nat)
  BY NatLessThanWellFounded DEF OpToRel
<1> HIDE DEF R
<1>2. PICK p \in T : \A q \in T : ~ (<<q, p>> \in R)
  BY <1>1, WFMin
<1>3. \A q \in T : p <= q
  <2>1. \A q \in T : ~ (q < p)
    BY <1>1, <1>2
  <2> QED  BY <2>1
<1> QED  BY <1>3

LEMMA GreatestOf ==
    ASSUME NEW T, NEW b \in Nat, T \subseteq 0 .. b, T # {}
    PROVE  \E p \in T : \A q \in T : q <= p
<1> DEFINE U == {b - q : q \in T}
<1>1. U \subseteq Nat /\ U # {}
  <2>1. \A q \in T : b - q \in Nat
    OBVIOUS
  <2> QED  BY <2>1
<1>2. PICK p \in U : \A q \in U : p <= q
  BY <1>1, LeastOf
<1>3. PICK t \in T : p = b - t
  BY <1>2
<1>4. \A q \in T : q <= t
  <2> TAKE q \in T
  <2>1. b - t <= b - q
    BY <1>2, <1>3
  <2> QED  BY <2>1
<1> QED  BY <1>4

LEMMA BoundOf ==
    ASSUME NEW n \in Nat, NEW f, \A i \in 1 .. n : f[i] \in Nat
    PROVE  \E b \in Nat : \A i \in 1 .. n : f[i] <= b
<1> DEFINE Bounded(m) == \E b \in Nat : \A i \in 1 .. m : f[i] <= b
<1> DEFINE Bad == {m \in 0 .. n : ~ Bounded(m)}
<1>0. Bounded(0)
  <2>1. \A i \in 1 .. 0 : f[i] <= 0
    OBVIOUS
  <2> QED  BY <2>1
<1>1. ASSUME NEW m \in 0 .. n - 1, Bounded(m) PROVE Bounded(m + 1)
  <2>1. PICK b \in Nat : \A i \in 1 .. m : f[i] <= b
    BY <1>1
  <2>2. m + 1 \in 1 .. n /\ f[m + 1] \in Nat
    OBVIOUS
  <2>3. \E c \in Nat : b <= c /\ f[m + 1] <= c
    <3>1. CASE b <= f[m + 1]
      BY <2>2, <3>1
    <3>2. CASE ~ (b <= f[m + 1])
      <4>1. f[m + 1] <= b /\ b <= b
        BY <2>2, <3>2
      <4> QED  BY <4>1
    <3> QED  BY <3>1, <3>2
  <2>4. PICK c \in Nat : b <= c /\ f[m + 1] <= c
    BY <2>3
  <2>5. \A i \in 1 .. m + 1 : f[i] <= c
    <3> TAKE i \in 1 .. m + 1
    <3>1. CASE i = m + 1
      BY <2>4, <3>1
    <3>2. CASE i \in 1 .. m
      <4>1. f[i] <= b /\ f[i] \in Nat
        BY <2>1, <3>2
      <4> QED  BY <2>4, <4>1
    <3> QED  BY <3>1, <3>2
  <2> QED  BY <2>4, <2>5
<1> HIDE DEF Bounded
<1>2. ASSUME Bad # {} PROVE FALSE
  <2>1. Bad \subseteq Nat
    OBVIOUS
  <2>2. \E m \in Bad : \A q \in Bad : m <= q
    <3> HIDE DEF Bad
    <3> QED  BY <1>2, <2>1, LeastOf
  <2>3. PICK m \in Bad : \A q \in Bad : m <= q
    BY <2>2
  <2>4. m \in 0 .. n /\ ~ Bounded(m) /\ m # 0
    BY <1>0
  <2>5. m - 1 \in 0 .. n - 1 /\ m - 1 \in 0 .. n /\ ~ (m <= m - 1) /\ (m - 1) + 1 = m
    BY <2>4
  <2>6. Bounded(m - 1)
    BY <2>3, <2>5
  <2>7. Bounded((m - 1) + 1)
    BY <1>1, <2>5, <2>6
  <2> QED  BY <2>4, <2>5, <2>7
<1>3. Bounded(n)
  BY <1>2
<1> QED  BY <1>3 DEF Bounded

\* Every key that has versions in a set of ranks has a newest one there.
LEMMA NewestIs ==
    ASSUME NEW S, NEW n \in Nat, NEW c \in Nat, S \subseteq (1 .. n) \X (1 .. c), NEW k
    PROVE  /\ OfKey(S, k) = {} => Newest(S, k) = NoRank
           /\ OfKey(S, k) # {} => /\ Newest(S, k) \in OfKey(S, k)
                                  /\ \A q \in OfKey(S, k) : ~ Older(Newest(S, k), q)
<1> DEFINE O == OfKey(S, k)
<1>1. O \subseteq (1 .. n) \X (1 .. c)
  BY DEF OfKey
<1> HIDE DEF O
<1>2. ASSUME O # {} PROVE \E r \in O : \A q \in O : ~ Older(r, q)
  <2> DEFINE Ts == {r[1] : r \in O}
  <2>1. Ts # {} /\ Ts \subseteq 0 .. n
    BY <1>1, <1>2
  <2>2. PICK t \in Ts : \A u \in Ts : u <= t
    BY <2>1, GreatestOf
  <2> DEFINE Is == {r[2] : r \in {q \in O : q[1] = t}}
  <2>3. Is # {} /\ Is \subseteq 0 .. c
    BY <1>1, <2>2
  <2>4. PICK i \in Is : \A j \in Is : j <= i
    BY <2>3, GreatestOf
  <2>5. PICK r \in O : r[1] = t /\ r[2] = i
    BY <2>4
  <2>6. \A q \in O : ~ Older(r, q)
    <3> TAKE q \in O
    <3>1. q[1] <= t /\ (q[1] = t => q[2] <= i)
      BY <2>2, <2>4
    <3>2. q[1] \in Nat /\ q[2] \in Nat /\ t \in Nat /\ i \in Nat
      BY <1>1, <2>5
    <3> QED  BY <2>5, <3>1, <3>2 DEF Older
  <2> QED  BY <2>6
<1> QED  BY <1>2 DEF Newest, O

\* Elements and order of a sequence that loses an element it has once, if at all.
LEMMA WithoutOne ==
    ASSUME NEW S, NEW s \in Seq(S), NEW x, \A i, j \in 1 .. Len(s) : s[i] = s[j] => i = j
    PROVE  /\ Without(s, x) \in Seq(S)
           /\ \A i, j \in 1 .. Len(Without(s, x)) : Without(s, x)[i] = Without(s, x)[j] => i = j
           /\ \A i \in 1 .. Len(Without(s, x)) :
                 Without(s, x)[i] # x /\ \E j \in 1 .. Len(s) : s[j] = Without(s, x)[i]
           /\ \A j \in 1 .. Len(s) :
                 s[j] # x => \E i \in 1 .. Len(Without(s, x)) : Without(s, x)[i] = s[j]
<1> DEFINE at == {i \in 1 .. Len(s) : s[i] = x}
<1>0. Len(s) \in Nat
  OBVIOUS
<1>1. CASE at = {}
  BY <1>1 DEF Without
<1>2. CASE at # {}
  <2> DEFINE a == CHOOSE i \in at : TRUE
  <2>1. a \in 1 .. Len(s) /\ s[a] = x
    BY <1>2
  <2> DEFINE before == SubSeq(s, 1, a - 1)
  <2> DEFINE after == SubSeq(s, a + 1, Len(s))
  <2> DEFINE w == before \o after
  <2>2. Without(s, x) = w
    BY <1>2 DEF Without
  <2> HIDE DEF a
  <2>3. /\ before \in Seq(S) /\ Len(before) = a - 1
        /\ \A i \in 1 .. a - 1 : before[i] = s[i]
    <3>1. \A i \in 1 .. a - 1 : s[i] \in S
      BY <1>0, <2>1, ElementOfSeq
    <3> QED  BY <1>0, <2>1, <3>1, SubSeqProperties
  <2>4. /\ after \in Seq(S) /\ Len(after) = Len(s) - a
        /\ \A i \in 1 .. Len(s) - a : after[i] = s[a + i]
    <3>1. \A i \in a + 1 .. Len(s) : s[i] \in S
      BY <1>0, <2>1, ElementOfSeq
    <3> QED  BY <1>0, <2>1, <3>1, SubSeqProperties
  <2> HIDE DEF before, after
  <2>5. /\ w \in Seq(S) /\ Len(w) = Len(s) - 1
        /\ \A i \in 1 .. Len(s) - 1 : w[i] = IF i < a THEN s[i] ELSE s[i + 1]
    <3>1. /\ w \in Seq(S) /\ Len(w) = Len(before) + Len(after)
          /\ \A i \in 1 .. Len(before) + Len(after) :
                w[i] = IF i <= Len(before) THEN before[i] ELSE after[i - Len(before)]
      BY <2>3, <2>4, ConcatProperties, ZenonT(30)
    <3> HIDE DEF w
    <3>2. Len(before) + Len(after) = Len(s) - 1
      BY <1>0, <2>1, <2>3, <2>4
    <3>3. \A i \in 1 .. Len(s) - 1 : i < a => w[i] = s[i]
      BY <1>0, <2>1, <2>3, <3>1, <3>2
    <3>4. \A i \in 1 .. Len(s) - 1 : ~ (i < a) => w[i] = s[i + 1]
      <4> SUFFICES ASSUME NEW i \in 1 .. Len(s) - 1, ~ (i < a) PROVE w[i] = s[i + 1]
        OBVIOUS
      <4>1. w[i] = after[i - (a - 1)] /\ i - (a - 1) \in 1 .. Len(s) - a
        BY <1>0, <2>1, <2>3, <3>1, <3>2
      <4>2. a + (i - (a - 1)) = i + 1
        BY <2>1
      <4> QED  BY <2>4, <4>1, <4>2
    <3> QED  BY <3>1, <3>2, <3>3, <3>4
  <2> HIDE DEF w
  <2>6. \A i, j \in 1 .. Len(w) : w[i] = w[j] => i = j
    BY <1>0, <2>1, <2>5
  <2>7. ASSUME NEW i \in 1 .. Len(w) PROVE w[i] # x /\ \E j \in 1 .. Len(s) : s[j] = w[i]
    BY <1>0, <2>1, <2>5, <2>7
  <2>8. ASSUME NEW j \in 1 .. Len(s), s[j] # x PROVE \E i \in 1 .. Len(w) : w[i] = s[j]
    <3>1. CASE j < a
      BY <1>0, <2>1, <2>5, <3>1
    <3>2. CASE j > a
      <4>1. j - 1 \in 1 .. Len(w) /\ w[j - 1] = s[j]
        BY <1>0, <2>1, <2>5, <3>2
      <4> QED  BY <4>1
    <3> QED  BY <2>1, <2>8, <3>1, <3>2
  <2> QED  BY <2>2, <2>5, <2>6, <2>7, <2>8
<1> QED  BY <1>1, <1>2

-----------------------------------------------------------------------------
(* Which actions change which part of the state.                           *)

LEMMA Frame ==
    ASSUME [Next]_vars
    PROVE  /\ \/ UNCHANGED memVars
              \/ \E w \in Writers : InsertRecord(w) \/ CheckMemoryUsage(w) \/ Retire(w) \/ Renew(w)
              \/ \E T \in Tables : EraseImmutable(T) \/ DropWal(T)
           /\ UNCHANGED writerVars \/ \E w \in Writers : BeginPut(w) \/ WriterStep(w)
           /\ UNCHANGED flushVars \/ (\E w \in Writers : Renew(w)) \/ \E T \in Tables : FlushStep(T)
           /\ \/ UNCHANGED diskVars
              \/ \E T \in Tables : OpenFile(T) \/ ScanTable(T) \/ FinishFile(T) \/ PublishReader(T)
              \/ WriteL1 \/ RemoveL0 \/ PublishL1
           /\ UNCHANGED compactVars \/ ScanL0 \/ CompactStep
           /\ UNCHANGED readerVars \/ \E r \in Readers : BeginQuery(r) \/ QueryStep(r)
<1>1. CASE UNCHANGED vars
  BY <1>1 DEF vars
<1>2. ASSUME NEW w \in Writers, BeginPut(w) \/ WriterStep(w)
      PROVE  /\ \/ UNCHANGED memVars
                \/ InsertRecord(w) \/ CheckMemoryUsage(w) \/ Retire(w) \/ Renew(w)
             /\ UNCHANGED <<diskVars, compactVars, readerVars>>
             /\ UNCHANGED flushVars \/ Renew(w)
  BY <1>2 DEF BeginPut, WriterStep, Load, CheckImmutable, AppendWal, InsertRecord,
              CheckMemoryUsage, Lock, Retire, Renew, Unlock, Return
<1>3. ASSUME NEW T \in Tables, FlushStep(T)
      PROVE  /\ UNCHANGED memVars \/ EraseImmutable(T) \/ DropWal(T)
             /\ UNCHANGED <<writerVars, compactVars, readerVars>>
             /\ \/ UNCHANGED diskVars
                \/ OpenFile(T) \/ ScanTable(T) \/ FinishFile(T) \/ PublishReader(T)
  BY <1>3 DEF FlushStep, LoadFileId, OpenFile, ScanTable, FinishFile, FlushFails, OpenReader,
              PublishReader, EraseImmutable, DropWal, diskVars
<1>4. ASSUME ScanL0 \/ CompactStep
      PROVE  /\ UNCHANGED <<memVars, writerVars, flushVars, readerVars>>
             /\ UNCHANGED diskVars \/ WriteL1 \/ RemoveL0 \/ PublishL1
  BY <1>4 DEF ScanL0, CompactStep, LoadL1Id, WriteL1, RemoveL0, PublishL1
<1>5. ASSUME NEW r \in Readers, BeginQuery(r) \/ QueryStep(r)
      PROVE  UNCHANGED <<memVars, writerVars, flushVars, diskVars, compactVars>>
  BY <1>5 DEF BeginQuery, QueryStep, LookInActive, LookInImmutables, LookInFiles, EndQuery, Answer
<1> QED  BY <1>1, <1>2, <1>3, <1>4, <1>5 DEF Next

-----------------------------------------------------------------------------
(* Types.  A put switches tables once at most, and so the number of the    *)
(* active table stays below the number of puts.                            *)

FileRecords ==
    [level : {0, 1}, id : Nat, state : {"empty", "partial", "complete"},
     recs : SUBSET Ranks, linked : BOOLEAN]

MemTyped ==
    /\ active \in Tables
    /\ imms \in Seq(Tables)
    /\ mem \in [Tables -> Seq(Ops)]
    /\ \A T \in Tables : Len(mem[T]) <= Capacity
    /\ frozen \in [Tables -> BOOLEAN]
    /\ wal \in [Tables -> {"none", "open", "gone"}]
WritersTyped ==
    /\ puts \in 0 .. MaxPuts
    /\ engineLock \in Writers \cup {Nobody}
    /\ wpc \in [Writers -> WriterLocations]
    /\ wop \in [Writers -> Ops]
    /\ wtable \in [Writers -> Tables]
    /\ wtry \in [Writers -> 1 .. 3]
FlushTyped ==
    /\ fpc \in [Tables -> FlushLocations]
    /\ fid \in [Tables -> Nat]
    /\ ffile \in [Tables -> {NoFile} \cup Inodes]
    /\ scanned \in [Tables -> {NotScanned} \cup 0 .. Capacity]
DiskTyped ==
    /\ gen \in Nat
    /\ files \in Seq(FileRecords)
    /\ ssTables \in Seq(Inodes)
CompactTyped ==
    /\ cpc \in {"idle", "id", "store", "remove", "publish"}
    /\ cin \subseteq Inodes
    /\ cview \subseteq Ranks
    /\ cid \in Nat
    /\ cfile \in {NoFile} \cup Inodes
    /\ rounds \in 0 .. MaxCompactions
ReadersTyped ==
    /\ rpc \in [Readers -> {"idle", "active", "imms", "files", "done"}]
    /\ rkey \in [Readers -> Keys]
    /\ rfloor \in [Readers -> Ranks \cup {NoRank}]
    /\ rres \in [Readers -> Ranks \cup {NoRank}]

LEMMA TypeParts ==
    TypeOK <=> MemTyped /\ WritersTyped /\ FlushTyped /\ DiskTyped /\ CompactTyped /\ ReadersTyped
BY DEF TypeOK, MemTyped, WritersTyped, FlushTyped, DiskTyped, CompactTyped, ReadersTyped, FileRecords

\* The puts that can still switch tables.
Pending == {w \in Writers : wpc[w] # "idle" /\ wtry[w] < 3}
FewSwitches == IsFiniteSet(Pending) /\ active + Cardinality(Pending) <= puts + 1

\* Who is inside engineMutex_.
Holding(w) ==
    \/ wpc[w] \in {"retire", "renew", "unlock"}
    \/ wtry[w] > 1 /\ wpc[w] \in {"load", "check", "wal", "insert", "usage"}
WritersSound ==
    \A w \in Writers :
        /\ Holding(w) => engineLock = w
        /\ wpc[w] \in {"retire", "renew"} => wtry[w] = 2
        /\ wpc[w] = "lock" => wtry[w] = 1
        /\ wtable[w] <= active

\* Builders have created their files.
Created == {"scan", "finish", "reader", "publish", "erase", "drop", "done"}
FilesCreated ==
    /\ \A T \in Tables : fpc[T] \in Created => ffile[T] \in Inodes
    /\ cpc \in {"remove", "publish"} => cfile \in Inodes

Typed == TypeOK /\ FewSwitches /\ WritersSound /\ FilesCreated

LEMMA Bounds ==
    /\ MaxPuts \in Nat /\ Capacity \in Nat /\ MaxCompactions \in Nat
    /\ Tables = 1 .. MaxPuts + 1 /\ Tables \subseteq Nat /\ 1 \in Tables
    /\ Ranks = (1 .. MaxPuts + 1) \X (1 .. Capacity) /\ NoRank \notin Ranks
    /\ NoFile = 0 /\ NotScanned = -1
BY EngineAssumption DEF Tables, Ranks, NoRank, NoFile, NotScanned

\* The bodies of the actions that take a writer from one place to another.
LEMMA WriterMoves ==
    ASSUME WritersTyped, WritersSound, NEW w \in Writers, BeginPut(w) \/ WriterStep(w)
    PROVE  /\ \A v \in Writers \ {w} : UNCHANGED <<wpc[v], wop[v], wtable[v], wtry[v]>>
           /\ wop' \in [Writers -> Ops] /\ wtable' \in [Writers -> Tables \cup {active}]
           /\ wpc' \in [Writers -> WriterLocations] /\ wtry' \in [Writers -> 1 .. 3]
           /\ engineLock' \in {engineLock, Nobody, w}
           /\ engineLock' # engineLock => (engineLock = Nobody /\ engineLock' = w) \/ Holding(w)
           /\ Holding(w)' => engineLock' = w
           /\ wpc'[w] \in {"retire", "renew"} => wtry'[w] = 2
           /\ wpc'[w] = "lock" => wtry'[w] = 1
           /\ wtable'[w] \in {wtable[w], active}
           /\ \/ BeginPut(w) /\ wpc[w] = "idle" /\ puts < MaxPuts /\ puts' = puts + 1
              \/ UNCHANGED puts /\ wpc[w] # "idle" /\ (wtry[w] = 3 => wtry'[w] = 3)
           /\ Renew(w) => wtry[w] = 2 /\ wtry'[w] = 3
<1> USE DEF WritersTyped
<1>w. /\ wpc[w] \in WriterLocations /\ wtry[w] \in 1 .. 3
      /\ Holding(w) => engineLock = w
      /\ wpc[w] \in {"retire", "renew"} => wtry[w] = 2
      /\ wpc[w] = "lock" => wtry[w] = 1
      /\ wtable[w] \in Tables
  BY DEF WritersSound
<1>f. ASSUME AttemptFails(w), wpc[w] \in {"check", "wal", "insert"}
      PROVE  /\ \A v \in Writers \ {w} : UNCHANGED wpc[v]
             /\ wpc' \in [Writers -> WriterLocations]
             /\ \/ wtry[w] = 1 /\ wpc'[w] = "lock"
                \/ wtry[w] = 2 /\ wpc'[w] = "retire"
                \/ wtry[w] = 3 /\ wpc'[w] = "unlock"
  BY <1>f, <1>w DEF AttemptFails, WGoto, WriterLocations
<1>1. CASE BeginPut(w)
  <2>1. PICK o \in Ops : wop' = [wop EXCEPT ![w] = o]
    BY <1>1 DEF BeginPut
  <2>2. wop' \in [Writers -> Ops] /\ \A v \in Writers \ {w} : UNCHANGED wop[v]
    BY <2>1
  <2>3. /\ wpc[w] = "idle" /\ puts < MaxPuts /\ puts' = puts + 1
        /\ wtry' = [wtry EXCEPT ![w] = 1] /\ wpc' = [wpc EXCEPT ![w] = "load"]
        /\ UNCHANGED <<engineLock, wtable>>
    BY <1>1 DEF BeginPut, WGoto
  <2>4. ~ Renew(w)
    BY <2>3 DEF Renew
  <2>5. ~ Holding(w)'
    BY <2>3 DEF Holding
  <2> QED  BY <1>1, <1>w, <2>2, <2>3, <2>4, <2>5 DEF WriterLocations
<1>2. CASE Load(w)
  BY <1>2, <1>w DEF Load, WGoto, Holding, WriterLocations, Renew
<1>3. CASE CheckImmutable(w)
  <2>1. CASE AttemptFails(w)
    BY <1>3, <1>w, <1>f, <2>1 DEF CheckImmutable, Holding, Renew
  <2>2. CASE WGoto(w, "wal")
    BY <1>3, <1>w, <2>2 DEF CheckImmutable, WGoto, Holding, WriterLocations, Renew
  <2> QED  BY <1>3, <2>1, <2>2 DEF CheckImmutable
<1>4. CASE AppendWal(w)
  <2>1. CASE AttemptFails(w)
    BY <1>4, <1>w, <1>f, <2>1 DEF AppendWal, Holding, Renew
  <2>2. CASE WGoto(w, "insert")
    BY <1>4, <1>w, <2>2 DEF AppendWal, WGoto, Holding, WriterLocations, Renew
  <2> QED  BY <1>4, <2>1, <2>2 DEF AppendWal
<1>5. CASE InsertRecord(w)
  <2>1. CASE AttemptFails(w)
    BY <1>5, <1>w, <1>f, <2>1 DEF InsertRecord, Holding, Renew
  <2>2. CASE WGoto(w, "usage")
    BY <1>5, <1>w, <2>2 DEF InsertRecord, WGoto, Holding, WriterLocations, Renew
  <2> QED  BY <1>5, <2>1, <2>2 DEF InsertRecord
<1>6. CASE CheckMemoryUsage(w)
  BY <1>6, <1>w DEF CheckMemoryUsage, WGoto, Holding, WriterLocations, Renew
<1>7. CASE Lock(w)
  BY <1>7, <1>w DEF Lock, WGoto, Holding, WriterLocations, Renew
<1>8. CASE Retire(w)
  BY <1>8, <1>w DEF Retire, WGoto, Holding, WriterLocations, Renew
<1>9. CASE Renew(w)
  BY <1>9, <1>w DEF Renew, WGoto, Holding, WriterLocations
<1>10. CASE Unlock(w)
  BY <1>10, <1>w DEF Unlock, WGoto, Holding, WriterLocations, Renew
<1>11. CASE Return(w)
  BY <1>11, <1>w DEF Return, WGoto, Holding, WriterLocations, Renew
<1> QED
  BY <1>1, <1>2, <1>3, <1>4, <1>5, <1>6, <1>7, <1>8, <1>9, <1>10, <1>11 DEF WriterStep

\* The active table changes with Renew alone.
LEMMA ActiveStep ==
    ASSUME [Next]_vars, MemTyped
    PROVE  UNCHANGED active \/ \E w \in Writers : Renew(w) /\ active' = active + 1
BY Frame DEF memVars, InsertRecord, CheckMemoryUsage, Retire, Renew, EraseImmutable, DropWal

LEMMA WritersStep ==
    ASSUME Typed, [Next]_vars
    PROVE  WritersTyped' /\ FewSwitches' /\ WritersSound' /\ active' \in Tables /\ active <= active'
<1>t. MemTyped /\ WritersTyped /\ FewSwitches /\ WritersSound
  BY TypeParts DEF Typed
<1>a. /\ active \in Nat /\ active \in 1 .. MaxPuts + 1 /\ puts \in Nat /\ MaxPuts \in Nat
      /\ IsFiniteSet(Pending) /\ Cardinality(Pending) \in Nat
      /\ active + Cardinality(Pending) <= puts + 1
  BY <1>t, Bounds, FS_CardinalityType DEF MemTyped, WritersTyped, FewSwitches
<1>1. CASE UNCHANGED writerVars
  <2>1. UNCHANGED <<puts, engineLock, wpc, wop, wtable, wtry, Pending>>
    BY <1>1 DEF writerVars, Pending
  <2>2. \A w \in Writers : ~ Renew(w)
    <3> SUFFICES ASSUME NEW w \in Writers, Renew(w) PROVE FALSE
      OBVIOUS
    <3>1. wtry[w] = 2 /\ wtry'[w] = 3
      BY <1>t, WriterMoves DEF WriterStep
    <3> QED  BY <2>1, <3>1
  <2>3. UNCHANGED active
    BY <1>t, <2>2, ActiveStep
  <2> QED
    BY <1>t, <1>a, <2>1, <2>3, Bounds DEF WritersTyped, FewSwitches, WritersSound, Holding, MemTyped
<1>2. ASSUME NEW w \in Writers, BeginPut(w) \/ WriterStep(w)
      PROVE  WritersTyped' /\ FewSwitches' /\ WritersSound' /\ active' \in Tables /\ active <= active'
  <2>m. /\ \A v \in Writers \ {w} : UNCHANGED <<wpc[v], wop[v], wtable[v], wtry[v]>>
        /\ wop' \in [Writers -> Ops] /\ wtable' \in [Writers -> Tables \cup {active}]
        /\ wpc' \in [Writers -> WriterLocations] /\ wtry' \in [Writers -> 1 .. 3]
        /\ engineLock' \in {engineLock, Nobody, w}
        /\ engineLock' # engineLock => (engineLock = Nobody /\ engineLock' = w) \/ Holding(w)
        /\ Holding(w)' => engineLock' = w
        /\ wpc'[w] \in {"retire", "renew"} => wtry'[w] = 2
        /\ wpc'[w] = "lock" => wtry'[w] = 1
        /\ wtable'[w] \in {wtable[w], active}
        /\ \/ BeginPut(w) /\ wpc[w] = "idle" /\ puts < MaxPuts /\ puts' = puts + 1
           \/ UNCHANGED puts /\ wpc[w] # "idle" /\ (wtry[w] = 3 => wtry'[w] = 3)
        /\ Renew(w) => wtry[w] = 2 /\ wtry'[w] = 3
    BY <1>t, <1>2, WriterMoves
  <2>r. \A v \in Writers \ {w} : ~ Renew(v)
    <3> SUFFICES ASSUME NEW v \in Writers \ {w}, Renew(v) PROVE FALSE
      OBVIOUS
    <3>1. wtry[v] = 2 /\ wtry'[v] = 3
      BY <1>t, WriterMoves DEF WriterStep
    <3> QED  BY <2>m, <3>1
  <2>t. \A v \in Writers : wtry[v] \in 1 .. 3 /\ wtry'[v] \in 1 .. 3
    BY <1>t, <2>m DEF WritersTyped
  <2>a. UNCHANGED active \/ (Renew(w) /\ active' = active + 1)
    BY <1>t, <2>r, ActiveStep
  <2>1. FewSwitches' /\ puts' \in 0 .. MaxPuts /\ active' \in 1 .. MaxPuts + 1 /\ active <= active'
    <3>1. CASE BeginPut(w) /\ wpc[w] = "idle" /\ puts < MaxPuts /\ puts' = puts + 1
      <4>1. ~ Renew(w)
        BY <3>1 DEF Renew
      <4>2. Pending' \subseteq Pending \cup {w}
        BY <2>m DEF Pending
      <4>3. /\ IsFiniteSet(Pending \cup {w})
            /\ Cardinality(Pending \cup {w}) = Cardinality(Pending) + 1
        <5>1. w \notin Pending
          BY <3>1 DEF Pending
        <5> QED  BY <1>a, <5>1, FS_AddElement
      <4>4. IsFiniteSet(Pending') /\ Cardinality(Pending') <= Cardinality(Pending) + 1
            /\ Cardinality(Pending') \in Nat
        <5>1. IsFiniteSet(Pending') /\ Cardinality(Pending') <= Cardinality(Pending \cup {w})
          BY <4>2, <4>3, FS_Subset
        <5>2. Cardinality(Pending') \in Nat
          BY <5>1, FS_CardinalityType
        <5> QED  BY <1>a, <4>3, <5>1, <5>2
      <4> QED  BY <1>a, <2>a, <3>1, <4>1, <4>4 DEF FewSwitches
    <3>2. CASE UNCHANGED puts /\ wpc[w] # "idle" /\ (wtry[w] = 3 => wtry'[w] = 3) /\ ~ Renew(w)
      <4>1. Pending' \subseteq Pending
        BY <2>m, <2>t, <3>2 DEF Pending
      <4>2. IsFiniteSet(Pending') /\ Cardinality(Pending') <= Cardinality(Pending)
            /\ Cardinality(Pending') \in Nat
        BY <1>a, <4>1, FS_Subset, FS_CardinalityType
      <4> QED  BY <1>a, <1>t, <2>a, <3>2, <4>2 DEF FewSwitches, WritersTyped
    <3>3. CASE UNCHANGED puts /\ wpc[w] # "idle" /\ Renew(w)
      <4>1. w \in Pending /\ Pending' \subseteq Pending \ {w}
        BY <2>m, <3>3 DEF Pending
      <4>2. IsFiniteSet(Pending \ {w}) /\ Cardinality(Pending \ {w}) = Cardinality(Pending) - 1
        BY <1>a, <4>1, FS_RemoveElement
      <4>3. IsFiniteSet(Pending') /\ Cardinality(Pending') <= Cardinality(Pending \ {w})
        BY <4>1, <4>2, FS_Subset
      <4>4. Cardinality(Pending') \in Nat
        BY <4>3, FS_CardinalityType
      <4>5. active' \in Nat /\ active' <= active + 1 /\ active <= active' /\ puts' = puts
        BY <1>a, <2>a, <3>3
      <4>6. active' + Cardinality(Pending') <= puts' + 1 /\ puts \in 0 .. MaxPuts
        BY <1>a, <1>t, <4>2, <4>3, <4>4, <4>5 DEF WritersTyped
      <4> QED  BY <1>a, <4>3, <4>4, <4>5, <4>6 DEF FewSwitches
    <3> QED  BY <2>m, <3>1, <3>2, <3>3
  <2>2. WritersTyped'
    BY <1>t, <2>m, <2>1 DEF WritersTyped, MemTyped
  <2>3. WritersSound'
    <3> SUFFICES ASSUME NEW v \in Writers
                 PROVE  /\ Holding(v)' => engineLock' = v
                        /\ wpc'[v] \in {"retire", "renew"} => wtry'[v] = 2
                        /\ wpc'[v] = "lock" => wtry'[v] = 1
                        /\ wtable'[v] <= active'
      BY DEF WritersSound
    <3>1. wtable[v] <= active /\ wtable[v] \in Nat
      BY <1>t, Bounds DEF WritersSound, WritersTyped
    <3>2. CASE v = w
      BY <1>a, <2>m, <2>1, <3>1, <3>2
    <3>3. CASE v # w
      <4>1. UNCHANGED <<wpc[v], wtable[v], wtry[v]>>
        BY <2>m, <3>3
      <4>2. Holding(v)' => Holding(v)
        BY <4>1 DEF Holding
      <4>3. Holding(v) => engineLock' = v
        BY <1>t, <2>m, <3>3, EngineAssumption DEF WritersSound
      <4> QED  BY <1>a, <1>t, <2>1, <3>1, <4>1, <4>2, <4>3 DEF WritersSound
    <3> QED  BY <3>2, <3>3
  <2> QED  BY <2>1, <2>2, <2>3, Bounds
<1> QED  BY <1>1, <1>2, Frame

\* Memtables only grow, by the records of the puts.
LEMMA MemStep ==
    ASSUME Typed, [Next]_vars, \A i, j \in 1 .. Len(imms) : imms[i] = imms[j] => i = j
    PROVE  MemTyped'
<1>t. MemTyped /\ WritersTyped /\ active' \in Tables
  BY TypeParts, WritersStep DEF Typed
<1> USE DEF MemTyped
<1>1. CASE UNCHANGED memVars
  BY <1>t, <1>1 DEF memVars
<1>2. ASSUME NEW w \in Writers, InsertRecord(w) PROVE MemTyped'
  <2> DEFINE T == wtable[w]
  <2>1. T \in Tables /\ wop[w] \in Ops /\ mem[T] \in Seq(Ops) /\ UNCHANGED <<active, imms, frozen, wal>>
    BY <1>t, <1>2 DEF WritersTyped, InsertRecord
  <2> HIDE DEF T
  <2>2. CASE UNCHANGED mem
    BY <1>t, <2>1, <2>2
  <2>3. CASE Len(mem[T]) < Capacity /\ mem' = [mem EXCEPT ![T] = Append(mem[T], wop[w])]
    <3> DEFINE s == Append(mem[T], wop[w])
    <3>1. s \in Seq(Ops) /\ Len(s) = Len(mem[T]) + 1 /\ Len(mem[T]) \in Nat
      BY <2>1, AppendProperties, LenProperties
    <3> HIDE DEF s
    <3>2. mem' = [mem EXCEPT ![T] = s]
      BY <2>3 DEF s
    <3>3. mem' \in [Tables -> Seq(Ops)] /\ \A U \in Tables : Len(mem'[U]) <= Capacity
      BY <1>t, <2>1, <2>3, <3>1, <3>2, Bounds
    <3> QED  BY <1>t, <2>1, <3>3
  <2> QED  BY <1>2, <2>2, <2>3 DEF InsertRecord, ArenaHasRoom, T
<1>3. ASSUME NEW w \in Writers, CheckMemoryUsage(w) PROVE MemTyped'
  <2>1. UNCHANGED <<active, imms, mem, wal>> /\ frozen' \in [Tables -> BOOLEAN]
    <3>1. /\ UNCHANGED <<active, imms, mem, wal>>
          /\ \E b \in BOOLEAN : frozen' = [frozen EXCEPT ![wtable[w]] = b]
      BY <1>t, <1>3, Zenon DEF CheckMemoryUsage, WritersTyped
    <3> QED  BY <1>t, <3>1
  <2> QED  BY <1>t, <2>1
<1>4. ASSUME NEW w \in Writers, Retire(w) PROVE MemTyped'
  <2>1. /\ UNCHANGED <<active, mem, wal>> /\ frozen' = [frozen EXCEPT ![active] = TRUE]
        /\ imms' = Append(imms, active)
    BY <1>4 DEF Retire
  <2> QED  BY <1>t, <2>1, AppendProperties
<1>5. ASSUME NEW w \in Writers, Renew(w) PROVE MemTyped'
  <2>1. UNCHANGED <<imms, mem, frozen>> /\ wal' = [wal EXCEPT ![active + 1] = "open"]
    BY <1>5 DEF Renew
  <2> QED  BY <1>t, <2>1
<1>6. ASSUME NEW T \in Tables, EraseImmutable(T) PROVE MemTyped'
  <2>1. UNCHANGED <<active, mem, frozen, wal>> /\ imms' = Without(imms, T)
    BY <1>6 DEF EraseImmutable
  <2>2. Without(imms, T) \in Seq(Tables)
    BY <1>t, WithoutOne
  <2> QED  BY <1>t, <2>1, <2>2
<1>7. ASSUME NEW T \in Tables, DropWal(T) PROVE MemTyped'
  BY <1>t, <1>7 DEF DropWal
<1> QED  BY <1>1, <1>2, <1>3, <1>4, <1>5, <1>6, <1>7, Frame

LEMMA RanksTyped ==
    ASSUME MemTyped, NEW T \in Tables
    PROVE  RanksOf(T) \subseteq Ranks
<1>1. Len(mem[T]) \in Nat /\ Len(mem[T]) <= Capacity
  BY DEF MemTyped
<1> QED  BY <1>1, Bounds DEF RanksOf, Ranks

LEMMA FilesTyped ==
    ASSUME DiskTyped
    PROVE  /\ Len(files) \in Nat /\ Inodes = 1 .. Len(files)
           /\ \A f \in Inodes : files[f] \in FileRecords
           /\ ssTables \in [1 .. Len(ssTables) -> Inodes] /\ Len(ssTables) \in Nat
<1>1. Len(files) \in Nat /\ \A f \in Inodes : files[f] \in FileRecords
  BY DEF DiskTyped, Inodes
<1>2. ssTables \in [1 .. Len(ssTables) -> Inodes] /\ Len(ssTables) \in Nat
  BY LenProperties DEF DiskTyped
<1> QED  BY <1>1, <1>2 DEF Inodes

\* A file is created over the one of its name or behind all that exist.
LEMMA InodeTyped ==
    ASSUME DiskTyped, NEW l, NEW id
    PROVE  InodeOf(l, id) \in 1 .. Len(files) + 1
<1>1. Len(files) \in Nat
  BY FilesTyped
<1>2. \A f \in Linked(l) : f \in 1 .. Len(files)
  BY DEF Linked, Inodes
<1> DEFINE same == {f \in Linked(l) : files[f].id = id}
<1>3. CASE same = {}
  BY <1>1, <1>3 DEF InodeOf
<1>4. CASE same # {}
  <2>1. (CHOOSE f \in same : TRUE) \in same
    BY <1>4
  <2>2. InodeOf(l, id) \in same
    BY <1>4, <2>1 DEF InodeOf
  <2> QED  BY <1>1, <1>2, <2>2
<1> QED  BY <1>3, <1>4

LEMMA OverwriteTyped ==
    ASSUME files \in Seq(FileRecords), NEW f \in 1 .. Len(files) + 1, NEW new \in FileRecords,
           files' = Overwrite(f, new)
    PROVE  /\ files' \in Seq(FileRecords)
           /\ Len(files') = IF f = Len(files) + 1 THEN Len(files) + 1 ELSE Len(files)
           /\ files'[f] = new
           /\ \A g \in 1 .. Len(files) : g # f => files'[g] = files[g]
           /\ f \in 1 .. Len(files')
<1> DEFINE n == IF f = Len(files) + 1 THEN Len(files) + 1 ELSE Len(files)
<1>1. Len(files) \in Nat /\ n \in Nat /\ f \in 1 .. n
  OBVIOUS
<1>2. Inodes \cup {f} = 1 .. n
  BY <1>1 DEF Inodes
<1>3. files' = [g \in 1 .. n |-> IF g = f THEN new ELSE files[g]]
  BY <1>2 DEF Overwrite
<1>4. \A g \in 1 .. n : (IF g = f THEN new ELSE files[g]) \in FileRecords
  BY <1>1
<1> HIDE DEF n
<1>5. files' \in [1 .. n -> FileRecords]
  BY <1>3, <1>4
<1>6. files' \in Seq(FileRecords) /\ Len(files') = n
  BY <1>1, <1>5
<1>7. files'[f] = new /\ \A g \in 1 .. Len(files) : g # f => files'[g] = files[g]
  <2>1. \A g \in 1 .. Len(files) : g \in 1 .. n
    BY <1>1 DEF n
  <2> QED  BY <1>1, <1>3, <2>1
<1> QED  BY <1>1, <1>6, <1>7 DEF n

LEMMA DiskStep ==
    ASSUME Typed, [Next]_vars
    PROVE  DiskTyped' /\ Len(files) <= Len(files') /\ Len(files') \in Nat /\ Inodes \subseteq Inodes'
<1>t. /\ MemTyped /\ FlushTyped /\ DiskTyped /\ CompactTyped /\ FilesCreated
      /\ Len(files) \in Nat /\ Inodes = 1 .. Len(files)
      /\ ssTables \in Seq(Inodes) /\ gen \in Nat
      /\ \A f \in Inodes : files[f] \in FileRecords
  BY TypeParts, FilesTyped DEF Typed, DiskTyped
\* It is enough to look at what a step does to each variable.
<1>s. ASSUME gen' \in Nat, files' \in Seq(FileRecords), Len(files) <= Len(files'),
             \/ UNCHANGED ssTables
             \/ \E f \in Inodes : ssTables' = <<f>> \o ssTables
      PROVE  DiskTyped' /\ Len(files') \in Nat /\ Inodes \subseteq Inodes'
  <2>1. Len(files') \in Nat /\ Inodes \subseteq Inodes'
    BY <1>s, <1>t, LenProperties DEF Inodes
  <2>2. ssTables' \in Seq(Inodes)
    <3>1. ASSUME NEW f \in Inodes PROVE <<f>> \o ssTables \in Seq(Inodes)
      <4>1. <<f>> \in Seq(Inodes)
        OBVIOUS
      <4> QED  BY <1>t, <4>1, ConcatProperties
    <3> QED  BY <1>s, <1>t, <3>1
  <2>3. ssTables' \in Seq(Inodes')
    BY <2>1, <2>2, SeqMonotonic
  <2> QED  BY <1>s, <2>1, <2>3 DEF DiskTyped
\* A file is created, or a record of an existing one changed.
<1>o. ASSUME NEW f \in 1 .. Len(files) + 1, NEW new \in FileRecords, files' = Overwrite(f, new)
      PROVE  files' \in Seq(FileRecords) /\ Len(files) <= Len(files')
  <2>1. files \in Seq(FileRecords)
    BY <1>t DEF DiskTyped
  <2>2. files' \in Seq(FileRecords) /\ Len(files') = IF f = Len(files) + 1 THEN Len(files) + 1 ELSE Len(files)
    BY <1>o, <2>1, OverwriteTyped
  <2> QED  BY <1>t, <2>2
<1>x. ASSUME NEW f \in Inodes, NEW new \in FileRecords, files' = [files EXCEPT ![f] = new]
      PROVE  files' \in Seq(FileRecords) /\ Len(files) <= Len(files')
  <2>1. files \in Seq(FileRecords)
    BY <1>t DEF DiskTyped
  <2>2. files' \in Seq(FileRecords) /\ Len(files') = Len(files)
    BY <1>t, <1>x, <2>1, ExceptSeq
  <2> QED  BY <1>t, <2>2
<1>1. CASE UNCHANGED diskVars
  BY <1>s, <1>t, <1>1 DEF diskVars, DiskTyped
<1>2. ASSUME NEW T \in Tables, OpenFile(T)
      PROVE  DiskTyped' /\ Len(files) <= Len(files') /\ Len(files') \in Nat /\ Inodes \subseteq Inodes'
  <2> DEFINE f == InodeOf(0, fid[T])
  <2> DEFINE new == File(0, fid[T], "empty", {})
  <2>1. new \in FileRecords
    BY <1>t DEF File, FileRecords, FlushTyped
  <2>2. f \in 1 .. Len(files) + 1
    BY <1>t, InodeTyped
  <2>3. files' = Overwrite(f, new) /\ gen' \in Nat /\ UNCHANGED ssTables
    BY <1>2, <1>t DEF OpenFile, FlushTyped
  <2> HIDE DEF f, new
  <2> QED  BY <1>o, <1>s, <2>1, <2>2, <2>3
<1>3. ASSUME NEW T \in Tables, ScanTable(T)
      PROVE  DiskTyped' /\ Len(files) <= Len(files') /\ Len(files') \in Nat /\ Inodes \subseteq Inodes'
  <2> DEFINE f == ffile[T]
  <2>1. f \in Inodes
    BY <1>3, <1>t DEF ScanTable, FilesCreated, Created
  <2> DEFINE new == [[files[f] EXCEPT !.state = "partial"] EXCEPT !.recs = RanksOf(T)]
  <2>2. new \in FileRecords
    <3>1. [files[f] EXCEPT !.state = "partial"] \in FileRecords
      BY <1>t, <2>1 DEF FileRecords
    <3>2. RanksOf(T) \in SUBSET Ranks
      BY <1>t, RanksTyped
    <3> QED  BY <3>1, <3>2 DEF FileRecords
  <2>3. files' = [files EXCEPT ![f] = new] /\ UNCHANGED <<gen, ssTables>>
    <3>1. /\ files' = [files EXCEPT ![f].state = "partial", ![f].recs = RanksOf(T)]
          /\ UNCHANGED <<gen, ssTables>>
      BY <1>3 DEF ScanTable
    <3> DEFINE recs == RanksOf(T)
    <3> HIDE DEF recs, f
    <3>2. [files EXCEPT ![f].state = "partial", ![f].recs = recs]
             = [files EXCEPT ![f] = [[files[f] EXCEPT !.state = "partial"] EXCEPT !.recs = recs]]
      BY <1>t, <2>1
    <3> QED  BY <3>1, <3>2 DEF recs
  <2> HIDE DEF f, new
  <2> QED  BY <1>s, <1>t, <1>x, <2>1, <2>2, <2>3
<1>4. ASSUME NEW T \in Tables, FinishFile(T)
      PROVE  DiskTyped' /\ Len(files) <= Len(files') /\ Len(files') \in Nat /\ Inodes \subseteq Inodes'
  <2>1. ffile[T] \in Inodes
    BY <1>4, <1>t DEF FinishFile, FilesCreated, Created
  <2>2. [files[ffile[T]] EXCEPT !.state = "complete"] \in FileRecords
    BY <1>t, <2>1 DEF FileRecords
  <2>3. /\ files' = [files EXCEPT ![ffile[T]] = [files[ffile[T]] EXCEPT !.state = "complete"]]
        /\ UNCHANGED <<gen, ssTables>>
    BY <1>4 DEF FinishFile
  <2> QED  BY <1>s, <1>t, <1>x, <2>1, <2>2, <2>3
<1>5. ASSUME NEW T \in Tables, PublishReader(T)
      PROVE  DiskTyped' /\ Len(files) <= Len(files') /\ Len(files') \in Nat /\ Inodes \subseteq Inodes'
  <2>1. ffile[T] \in Inodes
    BY <1>5, <1>t DEF PublishReader, FilesCreated, Created
  <2>2. UNCHANGED <<gen, files>> /\ ssTables' = <<ffile[T]>> \o ssTables
    BY <1>5 DEF PublishReader
  <2>3. files' \in Seq(FileRecords) /\ Len(files) <= Len(files') /\ gen' \in Nat
    BY <1>t, <2>2 DEF DiskTyped
  <2> QED  BY <1>s, <2>1, <2>2, <2>3
<1>6. CASE WriteL1
  <2> DEFINE f == InodeOf(1, cid)
  <2> DEFINE new == File(1, cid, "complete", cview)
  <2>1. new \in FileRecords
    BY <1>t DEF File, FileRecords, CompactTyped
  <2>2. f \in 1 .. Len(files) + 1
    BY <1>t, InodeTyped
  <2>3. files' = Overwrite(f, new) /\ gen' \in Nat /\ UNCHANGED ssTables
    BY <1>6, <1>t DEF WriteL1, CompactTyped
  <2> HIDE DEF f, new
  <2> QED  BY <1>o, <1>s, <2>1, <2>2, <2>3
<1>7. CASE RemoveL0
  <2>1. PICK f \in cin : files' = [files EXCEPT ![f].linked = FALSE]
    BY <1>7 DEF RemoveL0
  <2>2. f \in Inodes /\ UNCHANGED <<gen, ssTables>>
    BY <1>7, <1>t DEF RemoveL0, CompactTyped
  <2>3. [files[f] EXCEPT !.linked = FALSE] \in FileRecords
    BY <1>t, <2>2 DEF FileRecords
  <2>4. files' = [files EXCEPT ![f] = [files[f] EXCEPT !.linked = FALSE]]
    BY <2>1
  <2> QED  BY <1>s, <1>t, <1>x, <2>2, <2>3, <2>4
<1>8. CASE PublishL1
  <2>1. cfile \in Inodes
    BY <1>8, <1>t DEF PublishL1, FilesCreated
  <2>2. UNCHANGED <<gen, files>> /\ ssTables' = <<cfile>> \o ssTables
    BY <1>8 DEF PublishL1
  <2>3. files' \in Seq(FileRecords) /\ Len(files) <= Len(files') /\ gen' \in Nat
    BY <1>t, <2>2 DEF DiskTyped
  <2> QED  BY <1>s, <2>1, <2>2, <2>3
<1> QED  BY <1>1, <1>2, <1>3, <1>4, <1>5, <1>6, <1>7, <1>8, Frame

\* The merge knows for each key the file with the largest number that has it.
LEMMA WinnerIs ==
    ASSUME DiskTyped, NEW S, S \subseteq Inodes, NEW k, \E f \in S : HasKey(f, k)
    PROVE  \E f \in S : /\ HasKey(f, k) /\ \A g \in S : HasKey(g, k) => files[g].id <= files[f].id
                        /\ Winner(S, k) = Newest(Readable(f), k)
<1> DEFINE id == [i \in Inodes |-> files[i].id]
<1>1. /\ Len(files) \in Nat /\ Inodes = 1 .. Len(files)
      /\ \A f \in Inodes : files[f].id \in Nat
  BY FilesTyped DEF FileRecords
<1>2. PICK b \in Nat : \A i \in 1 .. Len(files) : id[i] <= b
  <2>1. \A i \in 1 .. Len(files) : id[i] \in Nat
    BY <1>1
  <2> HIDE DEF id
  <2> QED  BY <1>1, <2>1, BoundOf
<1> DEFINE having == {f \in S : HasKey(f, k)}
<1> DEFINE ids == {files[f].id : f \in having}
<1>3. ids \subseteq 0 .. b /\ ids # {}
  <2>1. \A f \in Inodes : files[f].id \in 0 .. b
    <3> SUFFICES ASSUME NEW f \in Inodes PROVE files[f].id \in 0 .. b
      OBVIOUS
    <3>1. id[f] <= b /\ id[f] = files[f].id
      BY <1>1, <1>2
    <3> QED  BY <1>1, <3>1
  <2> QED  BY <2>1
<1>4. PICK m \in ids : \A j \in ids : j <= m
  BY <1>3, GreatestOf
<1>5. PICK f \in having : files[f].id = m
  BY <1>4
<1>6. \E g \in S : HasKey(g, k) /\ \A h \in S : HasKey(h, k) => files[h].id <= files[g].id
  BY <1>4, <1>5
<1> QED  BY <1>6 DEF Winner

LEMMA ReadableTyped ==
    ASSUME DiskTyped, NEW f \in Inodes
    PROVE  Readable(f) \subseteq Ranks /\ files[f].recs \subseteq Ranks
BY FilesTyped DEF Readable, FileRecords

LEMMA NewestTyped ==
    ASSUME NEW S, S \subseteq Ranks, NEW k
    PROVE  /\ OfKey(S, k) = {} => Newest(S, k) = NoRank
           /\ OfKey(S, k) # {} => /\ Newest(S, k) \in OfKey(S, k)
                                  /\ \A q \in OfKey(S, k) : ~ Older(Newest(S, k), q)
           /\ Newest(S, k) \in Ranks \cup {NoRank}
           /\ Newest(S, k) # NoRank <=> OfKey(S, k) # {}
<1>1. MaxPuts + 1 \in Nat /\ Capacity \in Nat /\ S \subseteq (1 .. MaxPuts + 1) \X (1 .. Capacity)
  BY Bounds
<1>2. OfKey(S, k) \subseteq Ranks
  BY DEF OfKey
<1> QED  BY <1>1, <1>2, NewestIs, Bounds

LEMMA MergedTyped ==
    ASSUME DiskTyped, NEW S, S \subseteq Inodes
    PROVE  Merged(S) \subseteq Ranks
<1>1. ASSUME NEW k \in Keys, \E f \in S : HasKey(f, k) PROVE Winner(S, k) \in Ranks
  <2>1. PICK f \in S : HasKey(f, k) /\ Winner(S, k) = Newest(Readable(f), k)
    BY <1>1, WinnerIs
  <2>2. Readable(f) \subseteq Ranks
    BY ReadableTyped
  <2>3. Newest(Readable(f), k) \in OfKey(Readable(f), k)
    BY <2>1, <2>2, NewestTyped DEF HasKey
  <2> QED  BY <2>1, <2>2, <2>3 DEF OfKey
<1> QED  BY <1>1 DEF Merged

LEMMA CompactionStep ==
    ASSUME Typed, [Next]_vars
    PROVE  CompactTyped' /\ (cpc' \in {"remove", "publish"} => cfile' \in Inodes')
<1>t. /\ CompactTyped /\ DiskTyped /\ FilesCreated /\ Inodes \subseteq Inodes'
  BY TypeParts, DiskStep DEF Typed
<1> USE DEF CompactTyped
<1>1. CASE UNCHANGED compactVars
  BY <1>t, <1>1 DEF compactVars, FilesCreated
<1>2. CASE ScanL0
  <2>1. Linked(0) \subseteq Inodes
    BY DEF Linked
  <2>2. Merged(Linked(0)) \subseteq Ranks
    BY <1>t, <2>1, MergedTyped
  <2>3. /\ rounds < MaxCompactions /\ rounds' = rounds + 1 /\ UNCHANGED <<cid, cfile>> /\ cpc = "idle"
        /\ \/ cin' = Linked(0) /\ cview' = Merged(Linked(0)) /\ cpc' = "id"
           \/ UNCHANGED <<cin, cview, cpc>>
    BY <1>2 DEF ScanL0
  <2>4. rounds' \in 0 .. MaxCompactions
    BY <1>t, <2>3, Bounds
  <2> QED  BY <1>t, <2>1, <2>2, <2>3, <2>4
<1>3. CASE LoadL1Id
  <2>1. gen \in Nat
    BY <1>t DEF DiskTyped
  <2> QED  BY <1>t, <1>3, <2>1 DEF LoadL1Id
<1>4. CASE WriteL1
  <2> DEFINE f == InodeOf(1, cid)
  <2> DEFINE new == File(1, cid, "complete", cview)
  <2>1. new \in FileRecords
    BY <1>t DEF File, FileRecords
  <2>2. f \in 1 .. Len(files) + 1
    BY <1>t, InodeTyped
  <2>3. files' = Overwrite(f, new) /\ cfile' = f /\ cpc' = "remove" /\ UNCHANGED <<cin, cview, cid, rounds>>
    BY <1>4 DEF WriteL1
  <2>4. f \in Inodes'
    <3> HIDE DEF f, new
    <3> QED  BY <1>t, <2>1, <2>2, <2>3, OverwriteTyped DEF DiskTyped, Inodes
  <2> QED  BY <1>t, <2>3, <2>4
<1>5. CASE RemoveL0
  <2>1. /\ cin' \subseteq cin /\ cpc' \in {"remove", "publish"} /\ cpc = "remove"
        /\ UNCHANGED <<cview, cid, cfile, rounds>>
    BY <1>5 DEF RemoveL0
  <2> QED  BY <1>t, <2>1 DEF FilesCreated
<1>6. CASE PublishL1
  BY <1>t, <1>6 DEF PublishL1
<1> QED  BY <1>1, <1>2, <1>3, <1>4, <1>5, <1>6, Frame DEF CompactStep

LEMMA FlushesStep ==
    ASSUME Typed, [Next]_vars
    PROVE  FlushTyped' /\ \A T \in Tables : fpc'[T] \in Created => ffile'[T] \in Inodes'
<1>t. /\ MemTyped /\ FlushTyped /\ DiskTyped /\ FilesCreated /\ Inodes \subseteq Inodes'
  BY TypeParts, DiskStep DEF Typed
<1> USE DEF FlushTyped
<1>1. CASE UNCHANGED flushVars
  BY <1>t, <1>1 DEF flushVars, FilesCreated
<1>2. ASSUME NEW w \in Writers, Renew(w)
      PROVE  FlushTyped' /\ \A T \in Tables : fpc'[T] \in Created => ffile'[T] \in Inodes'
  <2>1. fpc' = [fpc EXCEPT ![active] = "id"] /\ UNCHANGED <<fid, ffile, scanned>>
    BY <1>2 DEF Renew
  <2>2. fpc' \in [Tables -> FlushLocations] /\ \A T \in Tables : fpc'[T] \in Created => fpc[T] \in Created
    BY <1>t, <2>1 DEF FlushLocations, Created
  <2> QED  BY <1>t, <2>1, <2>2 DEF FilesCreated
<1>3. ASSUME NEW T \in Tables, FlushStep(T)
      PROVE  FlushTyped' /\ \A U \in Tables : fpc'[U] \in Created => ffile'[U] \in Inodes'
  <2>1. CASE LoadFileId(T)
    <3>1. gen \in Nat
      BY <1>t DEF DiskTyped
    <3> QED  BY <1>t, <2>1, <3>1 DEF LoadFileId, FGoto, FlushLocations, Created, FilesCreated
  <2>2. CASE OpenFile(T)
    <3> DEFINE f == InodeOf(0, fid[T])
    <3> DEFINE new == File(0, fid[T], "empty", {})
    <3>1. new \in FileRecords
      BY <1>t DEF File, FileRecords
    <3>2. f \in 1 .. Len(files) + 1
      BY <1>t, InodeTyped
    <3>3. /\ ffile' = [ffile EXCEPT ![T] = f] /\ ffile'[T] = f /\ UNCHANGED <<fid, scanned>>
          /\ fpc' = [fpc EXCEPT ![T] = "scan"]
      BY <1>t, <2>2 DEF OpenFile, FGoto
    <3>4. files' = Overwrite(f, new)
      BY <2>2, <3>3 DEF OpenFile
    <3>5. f \in Inodes'
      <4> HIDE DEF f, new
      <4> QED  BY <1>t, <3>1, <3>2, <3>4, OverwriteTyped DEF DiskTyped, Inodes
    <3> HIDE DEF f
    <3> QED  BY <1>t, <3>3, <3>5 DEF FlushLocations, Created, FilesCreated
  <2>3. CASE ScanTable(T)
    <3>1. Len(mem[T]) \in 0 .. Capacity
      BY <1>t, Bounds DEF MemTyped
    <3> QED  BY <1>t, <2>3, <3>1 DEF ScanTable, FGoto, FlushLocations, Created, FilesCreated
  <2>4. ASSUME NEW loc \in FlushLocations, FGoto(T, loc), UNCHANGED <<fid, ffile, scanned>>,
               fpc[T] \in Created \/ loc \notin Created
        PROVE  FlushTyped' /\ \A U \in Tables : fpc'[U] \in Created => ffile'[U] \in Inodes'
    BY <1>t, <2>4 DEF FGoto, FilesCreated
  <2>5. CASE FinishFile(T) \/ PublishReader(T) \/ EraseImmutable(T) \/ DropWal(T)
    BY <2>4, <2>5 DEF FinishFile, PublishReader, EraseImmutable, DropWal, FlushLocations, Created
  <2>6. CASE FlushFails(T) \/ OpenReader(T)
    <3>1. /\ FGoto(T, "failed") \/ FGoto(T, "publish")
          /\ fpc[T] \in {"scan", "finish", "reader"} /\ UNCHANGED <<fid, ffile, scanned>>
      BY <2>6 DEF FlushFails, OpenReader
    <3> QED  BY <2>4, <3>1 DEF FlushLocations, Created
  <2> QED  BY <1>3, <2>1, <2>2, <2>3, <2>5, <2>6 DEF FlushStep
<1> QED  BY <1>1, <1>2, <1>3, Frame

LEMMA SettledTyped ==
    ASSUME MemTyped
    PROVE  Settled \subseteq Ranks
BY RanksTyped DEF Settled

LEMMA FirstHitTyped ==
    ASSUME NEW n \in Nat, NEW S, \A i \in 1 .. n : S[i] \subseteq Ranks, Len(S) = n, NEW k
    PROVE  FirstHit(S, k) \in Ranks \cup {NoRank}
<1> DEFINE hits == {i \in 1 .. Len(S) : Newest(S[i], k) # NoRank}
<1>1. CASE hits = {}
  BY <1>1 DEF FirstHit
<1>2. CASE hits # {}
  <2>1. hits \subseteq 1 .. n /\ hits \subseteq Nat
    OBVIOUS
  <2> DEFINE first == CHOOSE i \in hits : \A j \in hits : i <= j
  <2>2. FirstHit(S, k) = Newest(S[first], k)
    BY <1>2 DEF FirstHit
  <2>3. first \in 1 .. n
    <3> HIDE DEF hits
    <3>1. \E i \in hits : \A j \in hits : i <= j
      BY <1>2, <2>1, LeastOf
    <3> QED  BY <2>1, <3>1
  <2> HIDE DEF first
  <2> QED  BY <2>2, <2>3, NewestTyped
<1> QED  BY <1>1, <1>2

LEMMA QueriesStep ==
    ASSUME Typed, [Next]_vars
    PROVE  ReadersTyped'
<1>t. MemTyped /\ DiskTyped /\ ReadersTyped
  BY TypeParts DEF Typed
<1> USE DEF ReadersTyped
<1>1. CASE UNCHANGED readerVars
  BY <1>t, <1>1 DEF readerVars
<1>2. ASSUME NEW r \in Readers, BeginQuery(r) PROVE ReadersTyped'
  <2>1. PICK k \in Keys : /\ rkey' = [rkey EXCEPT ![r] = k]
                         /\ rfloor' = [rfloor EXCEPT ![r] = Newest(Settled, k)]
    BY <1>2 DEF BeginQuery
  <2>2. Newest(Settled, k) \in Ranks \cup {NoRank}
    BY <1>t, SettledTyped, NewestTyped
  <2>3. rpc' = [rpc EXCEPT ![r] = "active"] /\ UNCHANGED rres
    BY <1>2 DEF BeginQuery
  <2> QED  BY <1>t, <2>1, <2>2, <2>3
<1>a. ASSUME NEW r \in Readers, NEW rank \in Ranks \cup {NoRank}, NEW next \in {"imms", "files", "done"},
             Answer(r, rank, next)
      PROVE  ReadersTyped'
  BY <1>t, <1>a DEF Answer
<1>3. ASSUME NEW r \in Readers, LookInActive(r) PROVE ReadersTyped'
  <2>1. Newest(RanksOf(active), rkey[r]) \in Ranks \cup {NoRank}
    BY <1>t, RanksTyped, NewestTyped DEF MemTyped
  <2> QED  BY <1>3, <1>a, <2>1 DEF LookInActive
<1>4. ASSUME NEW r \in Readers, LookInImmutables(r) PROVE ReadersTyped'
  <2> DEFINE n == Len(imms)
  <2> DEFINE S == [i \in 1 .. n |-> RanksOf(imms[n + 1 - i])]
  <2>1. n \in Nat /\ \A i \in 1 .. n : imms[n + 1 - i] \in Tables
    BY <1>t DEF MemTyped
  <2>2. Len(S) = n /\ \A i \in 1 .. n : S[i] \subseteq Ranks
    BY <1>t, <2>1, RanksTyped
  <2>3. FirstHit(S, rkey[r]) \in Ranks \cup {NoRank}
    <3> HIDE DEF S, n
    <3> QED  BY <2>1, <2>2, FirstHitTyped
  <2> QED  BY <1>4, <1>a, <2>3 DEF LookInImmutables
<1>5. ASSUME NEW r \in Readers, LookInFiles(r) PROVE ReadersTyped'
  <2> DEFINE n == Len(ssTables)
  <2> DEFINE S == [i \in 1 .. n |-> files[ssTables[i]].recs]
  <2>1. n \in Nat /\ \A i \in 1 .. n : ssTables[i] \in Inodes
    BY <1>t, FilesTyped
  <2>2. Len(S) = n /\ \A i \in 1 .. n : S[i] \subseteq Ranks
    BY <1>t, <2>1, ReadableTyped
  <2>3. FirstHit(S, rkey[r]) \in Ranks \cup {NoRank}
    <3> HIDE DEF S, n
    <3> QED  BY <2>1, <2>2, FirstHitTyped
  <2> QED  BY <1>5, <1>a, <2>3 DEF LookInFiles
<1>6. ASSUME NEW r \in Readers, EndQuery(r) PROVE ReadersTyped'
  BY <1>t, <1>6 DEF EndQuery
<1> QED  BY <1>1, <1>2, <1>3, <1>4, <1>5, <1>6, Frame DEF QueryStep

-----------------------------------------------------------------------------
(* Where the tables are.                                                   *)

\* The tables before the active one have been given to a flush; those that
\* were retired and not yet erased are in imms, once each; those after it are
\* empty.
Renewing == \E w \in Writers : wpc[w] = "renew"
InPlace(T) ==
    /\ T < active <=> fpc[T] # "none"
    /\ InImms(T) <=> \/ T < active /\ fpc[T] \notin {"drop", "done"}
                     \/ T = active /\ Renewing
    /\ T > active => mem[T] = <<>>
ImmsOnce == \A i, j \in 1 .. Len(imms) : imms[i] = imms[j] => i = j
TablesSound == ImmsOnce /\ \A T \in Tables : InPlace(T)

\* A writer that retires or renews is the only one.
LEMMA OneSwitches ==
    ASSUME WritersSound, NEW w \in Writers, wpc[w] \in {"retire", "renew"}
    PROVE  \A v \in Writers \ {w} : wpc[v] \notin {"retire", "renew"}
BY DEF WritersSound, Holding

LEMMA TablesStep ==
    ASSUME Typed, TablesSound, [Next]_vars
    PROVE  TablesSound'
<1>t. MemTyped /\ WritersTyped /\ FlushTyped /\ WritersSound
  BY TypeParts DEF Typed
<1>a. /\ active \in Nat /\ Tables \subseteq Nat /\ Len(imms) \in Nat
      /\ \A i \in 1 .. Len(imms) : imms[i] \in Tables
  BY <1>t, Bounds DEF MemTyped
\* Steps that move no table.
<1>1. ASSUME UNCHANGED <<active, imms>>, UNCHANGED Renewing,
             \A T \in Tables : T > active => UNCHANGED mem[T],
             \A T \in Tables : /\ (fpc'[T] = "none") <=> (fpc[T] = "none")
                               /\ (fpc'[T] \in {"drop", "done"}) <=> (fpc[T] \in {"drop", "done"})
      PROVE  TablesSound'
  <2>1. ImmsOnce'
    BY <1>1 DEF ImmsOnce, TablesSound
  <2>2. ASSUME NEW T \in Tables PROVE InPlace(T)'
    <3>1. InPlace(T)
      BY DEF TablesSound
    <3>2. InImms(T)' <=> InImms(T)
      BY <1>1 DEF InImms
    <3>3. /\ (fpc'[T] = "none") <=> (fpc[T] = "none")
          /\ (fpc'[T] \in {"drop", "done"}) <=> (fpc[T] \in {"drop", "done"})
      BY <1>1
    <3>4. T > active => mem'[T] = mem[T]
      BY <1>1
    <3> QED  BY <1>1, <3>1, <3>2, <3>3, <3>4 DEF InPlace
  <2> QED  BY <2>1, <2>2 DEF TablesSound
<1>2. CASE UNCHANGED vars
  BY <1>1, <1>2 DEF vars, memVars, writerVars, flushVars, Renewing
<1>3. ASSUME NEW w \in Writers, BeginPut(w) \/ WriterStep(w), ~ Retire(w), ~ Renew(w)
      PROVE  TablesSound'
  <2>1. UNCHANGED <<active, imms, fpc>>
    BY <1>3 DEF BeginPut, WriterStep, Load, CheckImmutable, AppendWal, InsertRecord, CheckMemoryUsage,
                Lock, Unlock, Return, memVars, flushVars
  <2>2. wpc[w] # "renew" /\ wpc'[w] # "renew" /\ \A v \in Writers \ {w} : UNCHANGED wpc[v]
    <3>1. wpc[w] # "renew" /\ wpc'[w] # "renew"
      BY <1>t, <1>3 DEF BeginPut, WriterStep, Load, CheckImmutable, AppendWal, InsertRecord,
          CheckMemoryUsage, Lock, Unlock, Return, WGoto, AttemptFails, WritersTyped
    <3> QED  BY <1>t, <1>3, <3>1, WriterMoves
  <2>3. UNCHANGED Renewing
    BY <2>2 DEF Renewing
  <2>4. \A T \in Tables : T > active => UNCHANGED mem[T]
    <3>1. UNCHANGED mem \/ \E new : mem' = [mem EXCEPT ![wtable[w]] = new]
      BY <1>3 DEF BeginPut, WriterStep, Load, CheckImmutable, AppendWal, InsertRecord, CheckMemoryUsage,
                  Lock, Unlock, Return, memVars
    <3>2. wtable[w] \in Nat /\ wtable[w] <= active
      BY <1>t, Bounds DEF WritersTyped, WritersSound
    <3> QED  BY <1>t, <1>a, <3>1, <3>2 DEF MemTyped
  <2> QED  BY <1>1, <2>1, <2>3, <2>4
<1>4. ASSUME NEW w \in Writers, Retire(w) PROVE TablesSound'
  <2>1. /\ UNCHANGED <<active, mem, fpc>> /\ imms' = Append(imms, active)
        /\ wpc[w] = "retire" /\ wpc' = [wpc EXCEPT ![w] = "renew"]
    BY <1>4 DEF Retire, WGoto, flushVars
  <2>2. ~ Renewing /\ Renewing'
    BY <1>t, <2>1, OneSwitches DEF Renewing, WritersTyped
  <2>3. ~ InImms(active) /\ active \in Tables
    BY <1>t, <1>a, <2>2 DEF TablesSound, InPlace, MemTyped
  <2>4. /\ Len(imms') = Len(imms) + 1 /\ imms'[Len(imms) + 1] = active
        /\ \A i \in 1 .. Len(imms) : imms'[i] = imms[i]
    BY <1>t, <2>1, AppendProperties DEF MemTyped
  <2>5. ImmsOnce'
    <3>1. \A i, j \in 1 .. Len(imms) : imms[i] = imms[j] => i = j
      BY DEF TablesSound, ImmsOnce
    <3>2. \A i \in 1 .. Len(imms) : imms[i] # active
      BY <2>3 DEF InImms
    <3>3. \A i \in 1 .. Len(imms') : i \in 1 .. Len(imms) \/ i = Len(imms) + 1
      BY <1>a, <2>4
    <3> QED  BY <2>4, <3>1, <3>2, <3>3 DEF ImmsOnce
  <2>6. ASSUME NEW T \in Tables PROVE (InImms(T)') <=> (InImms(T) \/ T = active)
    <3>1. ASSUME InImms(T)' PROVE InImms(T) \/ T = active
      BY <1>a, <2>4, <3>1 DEF InImms
    <3>2. ASSUME InImms(T) \/ T = active PROVE InImms(T)'
      BY <1>a, <2>4, <3>2 DEF InImms
    <3> QED  BY <3>1, <3>2
  <2>7. ASSUME NEW T \in Tables PROVE InPlace(T)'
    <3>1. InPlace(T) /\ T \in Nat
      BY <1>a DEF TablesSound
    <3>2. T = active => ~ (T < active)
      BY <1>a
    <3> QED  BY <2>1, <2>2, <2>6, <3>1, <3>2 DEF InPlace
  <2> QED  BY <2>5, <2>7 DEF TablesSound
<1>5. ASSUME NEW w \in Writers, Renew(w) PROVE TablesSound'
  <2>1. /\ UNCHANGED <<imms, mem>> /\ active' = active + 1 /\ fpc' = [fpc EXCEPT ![active] = "id"]
        /\ wpc[w] = "renew" /\ wpc' = [wpc EXCEPT ![w] = "load"]
    BY <1>5 DEF Renew, WGoto
  <2>2. Renewing /\ ~ Renewing'
    BY <1>t, <2>1, OneSwitches DEF Renewing, WritersTyped
  <2>3. active \in Tables
    BY <1>t DEF MemTyped
  <2>4. ImmsOnce'
    BY <2>1 DEF ImmsOnce, TablesSound
  <2>5. ASSUME NEW T \in Tables PROVE InPlace(T)'
    <3>1. InPlace(T) /\ T \in Nat
      BY <1>a DEF TablesSound
    <3>2. InImms(T)' <=> InImms(T)
      BY <2>1 DEF InImms
    <3>3. CASE T = active
      <4>1. /\ T < active' /\ ~ (T > active') /\ T # active' /\ fpc'[T] = "id"
        BY <1>a, <1>t, <2>1, <3>3 DEF FlushTyped
      <4> QED  BY <2>2, <3>1, <3>2, <3>3, <4>1 DEF InPlace
    <3>4. CASE T # active
      <4>1. /\ T < active' <=> T < active
            /\ T > active' => T > active
            /\ fpc'[T] = fpc[T]
        BY <1>a, <1>t, <2>1, <3>1, <3>4 DEF FlushTyped
      <4> QED  BY <2>1, <2>2, <3>1, <3>2, <3>4, <4>1 DEF InPlace
    <3> QED  BY <3>3, <3>4
  <2> QED  BY <2>4, <2>5 DEF TablesSound
<1>6. ASSUME NEW T \in Tables, FlushStep(T), ~ EraseImmutable(T) PROVE TablesSound'
  <2>1. UNCHANGED <<active, imms, mem, wpc>>
    BY <1>6 DEF FlushStep, LoadFileId, OpenFile, ScanTable, FinishFile, FlushFails, OpenReader,
                PublishReader, DropWal, memVars, writerVars
  <2>2. PICK loc \in FlushLocations :
           /\ fpc' = [fpc EXCEPT ![T] = loc] /\ fpc[T] # "none" /\ loc # "none"
           /\ loc \in {"drop", "done"} <=> fpc[T] \in {"drop", "done"}
    BY <1>6 DEF FlushStep, LoadFileId, OpenFile, ScanTable, FinishFile, FlushFails, OpenReader,
                PublishReader, DropWal, FGoto, FlushLocations
  <2>3. UNCHANGED Renewing
    BY <2>1 DEF Renewing
  <2> QED  BY <1>1, <1>t, <2>1, <2>2, <2>3 DEF FlushTyped
<1>7. ASSUME NEW T \in Tables, EraseImmutable(T) PROVE TablesSound'
  <2>1. /\ UNCHANGED <<active, mem, wpc>> /\ imms' = Without(imms, T)
        /\ fpc[T] = "erase" /\ fpc' = [fpc EXCEPT ![T] = "drop"]
    BY <1>7 DEF EraseImmutable, FGoto, writerVars
  <2>2. /\ ImmsOnce'
        /\ \A U : (\E i \in 1 .. Len(imms') : imms'[i] = U)
                     <=> (U # T /\ \E i \in 1 .. Len(imms) : imms[i] = U)
    <3>1. imms \in Seq(Tables) /\ \A i, j \in 1 .. Len(imms) : imms[i] = imms[j] => i = j
      BY <1>t DEF MemTyped, TablesSound, ImmsOnce
    <3> DEFINE rest == Without(imms, T)
    <3>2. /\ \A i, j \in 1 .. Len(rest) : rest[i] = rest[j] => i = j
          /\ \A U : (\E i \in 1 .. Len(rest) : rest[i] = U)
                        <=> (U # T /\ \E i \in 1 .. Len(imms) : imms[i] = U)
      <4>1. \A i, j \in 1 .. Len(rest) : rest[i] = rest[j] => i = j
        BY <3>1, WithoutOne
      <4>2. \A U : (\E i \in 1 .. Len(rest) : rest[i] = U)
                       <=> (U # T /\ \E i \in 1 .. Len(imms) : imms[i] = U)
        <5> TAKE U
        <5>1. ASSUME NEW i \in 1 .. Len(rest), rest[i] = U
              PROVE  U # T /\ \E j \in 1 .. Len(imms) : imms[j] = U
          BY <3>1, <5>1, WithoutOne
        <5>2. ASSUME NEW j \in 1 .. Len(imms), imms[j] = U, U # T
              PROVE  \E i \in 1 .. Len(rest) : rest[i] = U
          BY <3>1, <5>2, WithoutOne
        <5> QED  BY <5>1, <5>2
      <4> QED  BY <4>1, <4>2
    <3> HIDE DEF rest
    <3>3. imms' = rest
      BY <2>1 DEF rest
    <3> QED  BY <3>2, <3>3 DEF ImmsOnce
  <2>3. \A U \in Tables : InImms(U)' <=> (U # T /\ InImms(U))
    BY <2>2 DEF InImms
  <2>4. UNCHANGED Renewing
    BY <2>1 DEF Renewing
  <2>5. ASSUME NEW U \in Tables PROVE InPlace(U)'
    <3>1. InPlace(U)
      BY DEF TablesSound
    <3>2. CASE U = T
      <4>1. fpc'[U] = "drop" /\ U < active /\ U # active /\ ~ InImms(U)'
        BY <1>a, <1>t, <2>1, <2>3, <3>1, <3>2 DEF InPlace, FlushTyped
      <4> QED  BY <2>1, <3>1, <4>1 DEF InPlace
    <3>3. CASE U # T
      <4>1. fpc'[U] = fpc[U] /\ (InImms(U)' <=> InImms(U))
        BY <1>t, <2>1, <2>3, <3>3 DEF FlushTyped
      <4> QED  BY <2>1, <2>4, <3>1, <4>1 DEF InPlace
    <3> QED  BY <3>2, <3>3
  <2> QED  BY <2>2, <2>5 DEF TablesSound
<1>8. CASE ScanL0 \/ CompactStep
  BY <1>1, <1>8 DEF ScanL0, CompactStep, LoadL1Id, WriteL1, RemoveL0, PublishL1, memVars, writerVars,
                    flushVars, Renewing
<1>9. ASSUME NEW r \in Readers, BeginQuery(r) \/ QueryStep(r) PROVE TablesSound'
  BY <1>1, <1>9 DEF BeginQuery, QueryStep, LookInActive, LookInImmutables, LookInFiles, EndQuery, Answer,
                    memVars, writerVars, flushVars, Renewing
<1> QED  BY <1>2, <1>3, <1>4, <1>5, <1>6, <1>7, <1>8, <1>9 DEF Next

\* The engine starts with one table and no files.
LEMMA TypedInit ==
    ASSUME Init
    PROVE  Typed /\ TablesSound
<1>1. (CHOOSE o \in Ops : TRUE) \in Ops /\ (CHOOSE k \in Keys : TRUE) \in Keys
  <2>1. Ops # {} /\ Keys # {}
    <3>1. PICK k \in Keys, d \in Deletes : TRUE
      BY EngineAssumption
    <3>2. [key |-> k, del |-> d] \in Ops
      BY <3>1 DEF Ops
    <3> QED  BY <3>2, EngineAssumption
  <2> QED  BY <2>1
<1>2. /\ MemTyped
      /\ Inodes = {}
  BY Bounds DEF Init, MemTyped, Inodes
<1>3. WritersTyped /\ WritersSound
  BY <1>1, Bounds DEF Init, WritersTyped, WritersSound, Holding, WriterLocations
<1>4. FlushTyped /\ DiskTyped
  BY Bounds DEF Init, FlushTyped, FlushLocations, DiskTyped
<1>5. CompactTyped /\ ReadersTyped
  BY <1>1, Bounds DEF Init, CompactTyped, ReadersTyped
<1>6. FewSwitches
  <2>1. Pending = {}
    BY DEF Init, Pending
  <2> QED  BY <2>1, FS_EmptySet DEF Init, FewSwitches
<1>7. FilesCreated
  BY DEF Init, FilesCreated, Created
<1>8. TablesSound
  BY Bounds DEF Init, TablesSound, InPlace, ImmsOnce, InImms, Renewing
<1> QED  BY <1>2, <1>3, <1>4, <1>5, <1>6, <1>7, <1>8, TypeParts DEF Typed

LEMMA TypedStep ==
    ASSUME Typed, TablesSound, [Next]_vars
    PROVE  Typed' /\ TablesSound'
<1>1. TypeOK'
  <2>1. MemTyped' /\ WritersTyped' /\ FlushTyped'
    BY MemStep, WritersStep, FlushesStep DEF TablesSound, ImmsOnce
  <2>2. DiskTyped' /\ CompactTyped' /\ ReadersTyped'
    BY DiskStep, CompactionStep, QueriesStep
  <2> QED
    BY <2>1, <2>2 DEF TypeOK, MemTyped, WritersTyped, FlushTyped, DiskTyped, CompactTyped,
                      ReadersTyped, FileRecords
<1>2. FilesCreated'
  BY CompactionStep, FlushesStep DEF FilesCreated
<1> QED  BY <1>1, <1>2, WritersStep, TablesStep DEF Typed

\* Every table before the active one has been given to a flush, is in imms until
\* its flush erases it, and no thread switches tables twice in one put
\* (carina_engine.hpp:94-106, 207-242, 263-268).
THEOREM InductiveTables == Spec => [](Typed /\ TablesSound)
<1>1. Init => Typed /\ TablesSound
  BY TypedInit
<1>2. (Typed /\ TablesSound) /\ [Next]_vars => (Typed /\ TablesSound)'
  BY TypedStep
<1> QED  BY <1>1, <1>2, PTL DEF Spec

\* Every variable stays in its type, whatever faults there are: in particular
\* a put switches tables at most once, and a flush or a compaction that uses
\* its file has created it (carina_engine.hpp:94-106, 207-275, 327-353).
THEOREM TypeCorrect == Spec => []TypeOK
<1>1. Typed /\ TablesSound => TypeOK
  BY DEF Typed
<1> QED  BY <1>1, InductiveTables, PTL

-----------------------------------------------------------------------------
(* The counter of the file numbers, when no two threads are inside its     *)
(* increment: every file gets an inode of its own.                         *)

Listed(f) == \E i \in 1 .. Len(ssTables) : ssTables[i] = f
Counted ==
    /\ \A f \in Inodes : files[f].id <= gen
    /\ \A T \in Tables : fpc[T] = "open" => /\ fid[T] = gen + 1 /\ cpc # "store"
                                            /\ \A U \in Tables : fpc[U] = "open" => U = T
    /\ cpc = "store" => cid = gen + 1

LEMMA FreshInode ==
    ASSUME Counted, NEW l \in {0, 1}, gen \in Nat, Len(files) \in Nat
    PROVE  InodeOf(l, gen + 1) = Len(files) + 1
<1>1. {f \in Linked(l) : files[f].id = gen + 1} = {}
  <2> SUFFICES ASSUME NEW f \in Linked(l), files[f].id = gen + 1 PROVE FALSE
    OBVIOUS
  <2>1. files[f].id <= gen
    BY DEF Counted, Linked
  <2> QED  BY <2>1
<1> QED  BY <1>1 DEF InodeOf

\* What happens to the files that exist and to the list.
LEMMA FilesKeep ==
    ASSUME Typed, Counted, [Next]_vars
    PROVE  /\ \A f \in Inodes : /\ files'[f].id = files[f].id /\ files'[f].level = files[f].level
                                /\ \/ files'[f].recs = files[f].recs
                                   \/ \E T \in Tables : ScanTable(T) /\ f = ffile[T]
           /\ \A f \in Inodes : Listed(f) => Listed(f)'
           /\ \A T \in Tables : OpenFile(T) => /\ ffile'[T] = Len(files) + 1 /\ gen' = gen + 1
                                               /\ files'[Len(files) + 1] = File(0, gen + 1, "empty", {})
                                               /\ Len(files') = Len(files) + 1
           /\ WriteL1 => /\ cfile' = Len(files) + 1 /\ gen' = gen + 1
                         /\ files'[Len(files) + 1] = File(1, gen + 1, "complete", cview)
                         /\ Len(files') = Len(files) + 1
           /\ Len(files') # Len(files) => WriteL1 \/ \E T \in Tables : OpenFile(T)
           /\ gen' # gen => WriteL1 \/ \E T \in Tables : OpenFile(T)
<1> DEFINE Same(f) == /\ files'[f].id = files[f].id /\ files'[f].level = files[f].level
                      /\ files'[f].recs = files[f].recs
<1>t. /\ FlushTyped /\ DiskTyped /\ CompactTyped /\ FilesCreated
      /\ Len(files) \in Nat /\ Inodes = 1 .. Len(files) /\ gen \in Nat
      /\ ssTables \in Seq(Inodes) /\ Len(ssTables) \in Nat
      /\ files \in Seq(FileRecords) /\ \A f \in Inodes : files[f] \in FileRecords
  BY TypeParts, FilesTyped DEF Typed, DiskTyped
<1>o. ASSUME NEW T \in Tables, OpenFile(T)
      PROVE  /\ UNCHANGED ssTables /\ \A f \in Inodes : Same(f)
             /\ ffile'[T] = Len(files) + 1 /\ gen' = gen + 1
             /\ files'[Len(files) + 1] = File(0, gen + 1, "empty", {})
             /\ Len(files') = Len(files) + 1
  <2> DEFINE new == File(0, gen + 1, "empty", {})
  <2>1. fid[T] = gen + 1
    BY <1>o DEF OpenFile, Counted
  <2>2. InodeOf(0, fid[T]) = Len(files) + 1
    BY <1>t, <2>1, FreshInode
  <2>3. /\ ffile'[T] = Len(files) + 1 /\ gen' = gen + 1 /\ UNCHANGED ssTables
        /\ files' = Overwrite(Len(files) + 1, new)
    BY <1>o, <1>t, <2>1, <2>2 DEF OpenFile, FlushTyped
  <2>4. new \in FileRecords
    BY <1>t DEF File, FileRecords
  <2> HIDE DEF new
  <2>5. /\ Len(files') = Len(files) + 1 /\ files'[Len(files) + 1] = new
        /\ \A f \in 1 .. Len(files) : f # Len(files) + 1 => files'[f] = files[f]
    <3> DEFINE last == Len(files) + 1
    <3>1. last \in 1 .. Len(files) + 1 /\ files' = Overwrite(last, new) /\ last = Len(files) + 1
      BY <1>t, <2>3
    <3> HIDE DEF last
    <3>2. /\ Len(files') = IF last = Len(files) + 1 THEN Len(files) + 1 ELSE Len(files)
          /\ files'[last] = new
          /\ \A f \in 1 .. Len(files) : f # last => files'[f] = files[f]
      BY <1>t, <2>4, <3>1, OverwriteTyped
    <3> QED  BY <3>1, <3>2
  <2>6. \A f \in Inodes : files'[f] = files[f]
    BY <1>t, <2>5
  <2> QED  BY <2>3, <2>5, <2>6 DEF new
<1>w. ASSUME WriteL1
      PROVE  /\ UNCHANGED ssTables /\ \A f \in Inodes : Same(f)
             /\ cfile' = Len(files) + 1 /\ gen' = gen + 1
             /\ files'[Len(files) + 1] = File(1, gen + 1, "complete", cview)
             /\ Len(files') = Len(files) + 1
  <2> DEFINE new == File(1, gen + 1, "complete", cview)
  <2>1. cid = gen + 1
    BY <1>w DEF WriteL1, Counted
  <2>2. InodeOf(1, cid) = Len(files) + 1
    BY <1>t, <2>1, FreshInode
  <2>3. /\ cfile' = Len(files) + 1 /\ gen' = gen + 1 /\ UNCHANGED ssTables
        /\ files' = Overwrite(Len(files) + 1, new)
    BY <1>w, <2>1, <2>2 DEF WriteL1
  <2>4. new \in FileRecords
    BY <1>t DEF File, FileRecords, CompactTyped
  <2> HIDE DEF new
  <2>5. /\ Len(files') = Len(files) + 1 /\ files'[Len(files) + 1] = new
        /\ \A f \in 1 .. Len(files) : f # Len(files) + 1 => files'[f] = files[f]
    <3> DEFINE last == Len(files) + 1
    <3>1. last \in 1 .. Len(files) + 1 /\ files' = Overwrite(last, new) /\ last = Len(files) + 1
      BY <1>t, <2>3
    <3> HIDE DEF last
    <3>2. /\ Len(files') = IF last = Len(files) + 1 THEN Len(files) + 1 ELSE Len(files)
          /\ files'[last] = new
          /\ \A f \in 1 .. Len(files) : f # last => files'[f] = files[f]
      BY <1>t, <2>4, <3>1, OverwriteTyped
    <3> QED  BY <3>1, <3>2
  <2>6. \A f \in Inodes : files'[f] = files[f]
    BY <1>t, <2>5
  <2> QED  BY <2>3, <2>5, <2>6 DEF new
<1>s. ASSUME NEW T \in Tables, ScanTable(T)
      PROVE  /\ UNCHANGED <<gen, ssTables>> /\ Len(files') = Len(files)
             /\ \A f \in Inodes : /\ files'[f].id = files[f].id /\ files'[f].level = files[f].level
                                  /\ f # ffile[T] => Same(f)
  <2>1. ffile[T] \in Inodes
    BY <1>s, <1>t DEF ScanTable, FilesCreated, Created
  <2>2. /\ files' = [files EXCEPT ![ffile[T]].state = "partial", ![ffile[T]].recs = RanksOf(T)]
        /\ UNCHANGED <<gen, ssTables>>
    BY <1>s DEF ScanTable
  <2> DEFINE f == ffile[T]
  <2> DEFINE recs == RanksOf(T)
  <2>3. files' = [files EXCEPT ![f].state = "partial", ![f].recs = recs] /\ f \in Inodes
    BY <2>1, <2>2
  <2> HIDE DEF recs, f
  <2>4. Len(files') = Len(files)
    BY <1>t, <2>3
  <2>5. \A g \in Inodes : files'[g].id = files[g].id /\ files'[g].level = files[g].level
    BY <1>t, <2>3 DEF FileRecords
  <2>6. \A g \in Inodes : g # f => files'[g] = files[g]
    BY <1>t, <2>3
  <2> QED  BY <2>2, <2>4, <2>5, <2>6 DEF f
<1>f. ASSUME NEW T \in Tables, FinishFile(T)
      PROVE  UNCHANGED <<gen, ssTables>> /\ Len(files') = Len(files) /\ \A f \in Inodes : Same(f)
  <2>1. /\ files' = [files EXCEPT ![ffile[T]].state = "complete"] /\ UNCHANGED <<gen, ssTables>>
    BY <1>f DEF FinishFile
  <2>2. ffile[T] \in Inodes
    BY <1>f, <1>t DEF FinishFile, FilesCreated, Created
  <2> QED  BY <1>t, <2>1, <2>2 DEF FileRecords
<1>r. ASSUME RemoveL0
      PROVE  UNCHANGED <<gen, ssTables>> /\ Len(files') = Len(files) /\ \A f \in Inodes : Same(f)
  <2>1. PICK f \in cin : files' = [files EXCEPT ![f].linked = FALSE]
    BY <1>r DEF RemoveL0
  <2>2. f \in Inodes /\ UNCHANGED <<gen, ssTables>>
    BY <1>r, <1>t DEF RemoveL0, CompactTyped
  <2> QED  BY <1>t, <2>1, <2>2 DEF FileRecords
<1>p. ASSUME NEW f \in Inodes, ssTables' = <<f>> \o ssTables, UNCHANGED <<gen, files>>
      PROVE  (\A g \in Inodes : Same(g)) /\ \A g \in Inodes : Listed(g) => Listed(g)'
  <2>1. <<f>> \in Seq(Inodes) /\ Len(<<f>>) = 1
    OBVIOUS
  <2>2. /\ Len(ssTables') = 1 + Len(ssTables)
        /\ \A i \in 1 .. 1 + Len(ssTables) : ssTables'[i] = IF i <= 1 THEN <<f>>[i] ELSE ssTables[i - 1]
    BY <1>t, <1>p, <2>1, ConcatProperties
  <2>3. ASSUME NEW g \in Inodes, NEW i \in 1 .. Len(ssTables), ssTables[i] = g PROVE Listed(g)'
    <3>1. i + 1 \in 1 .. Len(ssTables') /\ ssTables'[i + 1] = g
      BY <1>t, <2>2, <2>3
    <3> QED  BY <3>1 DEF Listed
  <2> QED  BY <1>p, <2>3 DEF Listed
<1>q. ASSUME (\E T \in Tables : PublishReader(T)) \/ PublishL1
      PROVE  /\ UNCHANGED <<gen, files>>
             /\ (\A g \in Inodes : Same(g)) /\ \A g \in Inodes : Listed(g) => Listed(g)'
  <2>1. PICK f \in Inodes : ssTables' = <<f>> \o ssTables /\ UNCHANGED <<gen, files>>
    BY <1>q, <1>t DEF PublishReader, PublishL1, FilesCreated, Created
  <2> QED  BY <1>p, <2>1
<1>u. UNCHANGED ssTables => \A f \in Inodes : Listed(f) => Listed(f)'
  BY DEF Listed
<1>e. /\ \A T \in Tables : OpenFile(T) => /\ ffile'[T] = Len(files) + 1 /\ gen' = gen + 1
                                          /\ files'[Len(files) + 1] = File(0, gen + 1, "empty", {})
                                          /\ Len(files') = Len(files) + 1
      /\ WriteL1 => /\ cfile' = Len(files) + 1 /\ gen' = gen + 1
                    /\ files'[Len(files) + 1] = File(1, gen + 1, "complete", cview)
                    /\ Len(files') = Len(files) + 1
  BY <1>o, <1>w
<1>1. CASE UNCHANGED diskVars
  BY <1>1, <1>e, <1>u DEF diskVars
<1>2. CASE (\E T \in Tables : OpenFile(T)) \/ WriteL1
  BY <1>2, <1>e, <1>u, <1>o, <1>w
<1>3. CASE (\E T \in Tables : FinishFile(T)) \/ RemoveL0
  BY <1>3, <1>e, <1>u, <1>f, <1>r
<1>4. CASE \E T \in Tables : ScanTable(T)
  BY <1>4, <1>e, <1>u, <1>s
<1>5. CASE (\E T \in Tables : PublishReader(T)) \/ PublishL1
  BY <1>5, <1>e, <1>q
<1> QED  BY <1>1, <1>2, <1>3, <1>4, <1>5, Frame

\* Without "race" nobody takes a number while another is inside ++.
LEMMA CountedStep ==
    ASSUME "race" \notin Faults, Typed, Counted, [Next]_vars
    PROVE  Counted'
<1>t. /\ FlushTyped /\ DiskTyped /\ CompactTyped /\ gen \in Nat
      /\ Len(files) \in Nat /\ Inodes = 1 .. Len(files) /\ Inodes' = 1 .. Len(files')
      /\ \A f \in Inodes : files[f].id \in Nat
  BY TypeParts, FilesTyped DEF Typed, DiskTyped, Inodes, FileRecords
<1> DEFINE Windows == /\ \A T \in Tables : fpc[T] = "open" => /\ fid[T] = gen + 1 /\ cpc # "store"
                                                              /\ \A U \in Tables : fpc[U] = "open" => U = T
                      /\ cpc = "store" => cid = gen + 1
<1>1. /\ \A f \in Inodes : files[f].id <= gen
      /\ Windows
  BY DEF Counted
<1>2. (\A f \in Inodes' : files'[f].id <= gen') /\ gen' \in Nat
  <2>1. CASE WriteL1 \/ \E T \in Tables : OpenFile(T)
    <3>1. /\ gen' = gen + 1 /\ Len(files') = Len(files) + 1
          /\ files'[Len(files) + 1].id = gen + 1
          /\ \A f \in Inodes : files'[f].id = files[f].id
      BY <2>1, FilesKeep DEF File
    <3> QED  BY <1>t, <1>1, <3>1
  <2>2. CASE ~ WriteL1 /\ ~ \E T \in Tables : OpenFile(T)
    <3>1. gen' = gen /\ Len(files') = Len(files) /\ \A f \in Inodes : files'[f].id = files[f].id
      BY <2>2, FilesKeep
    <3> QED  BY <1>t, <1>1, <3>1
  <2> QED  BY <2>1, <2>2
\* A step outside the two halves of ++ leaves the windows as they are.
<1>k. ASSUME gen' = gen, UNCHANGED fid, UNCHANGED cid, cpc' = "store" => cpc = "store",
             \A T \in Tables : fpc'[T] = "open" => fpc[T] = "open"
      PROVE  Windows'
  BY <1>1, <1>k
<1>3. Windows'
  <2>1. CASE UNCHANGED vars
    BY <1>k, <2>1 DEF vars, diskVars, flushVars, compactVars
  <2>2. ASSUME NEW w \in Writers, BeginPut(w) \/ WriterStep(w) PROVE Windows'
    <3>1. /\ UNCHANGED <<gen, fid, cid, cpc>>
          /\ UNCHANGED fpc \/ fpc' = [fpc EXCEPT ![active] = "id"]
      BY <2>2 DEF BeginPut, WriterStep, Load, CheckImmutable, AppendWal, InsertRecord,
              CheckMemoryUsage, Lock, Retire, Renew, Unlock, Return, diskVars, flushVars, compactVars
    <3>2. \A T \in Tables : fpc'[T] = "open" => fpc[T] = "open"
      BY <1>t, <3>1 DEF FlushTyped
    <3> QED  BY <1>k, <3>1, <3>2
  <2>3. ASSUME NEW T \in Tables, LoadFileId(T) PROVE Windows'
    <3>1. cpc # "store" /\ \A U \in Tables : fpc[U] # "open"
      BY <2>3 DEF LoadFileId, MayCount, Counting
    <3>2. /\ fid' = [fid EXCEPT ![T] = gen + 1] /\ fpc' = [fpc EXCEPT ![T] = "open"]
          /\ UNCHANGED <<gen, cid, cpc>>
      BY <2>3 DEF LoadFileId, FGoto, diskVars, compactVars
    <3> QED  BY <1>t, <3>1, <3>2 DEF FlushTyped
  <2>4. ASSUME NEW T \in Tables, OpenFile(T) PROVE Windows'
    <3>1. fpc[T] = "open" /\ fpc' = [fpc EXCEPT ![T] = "scan"] /\ UNCHANGED <<cpc, fid, cid>>
      BY <2>4 DEF OpenFile, FGoto, compactVars
    <3>2. cpc' # "store" /\ \A U \in Tables : fpc'[U] # "open"
      BY <1>t, <1>1, <3>1 DEF FlushTyped
    <3> QED  BY <3>2
  <2>5. ASSUME NEW T \in Tables, FlushStep(T), ~ LoadFileId(T), ~ OpenFile(T) PROVE Windows'
    <3>1. /\ UNCHANGED <<gen, fid, cid, cpc>>
          /\ \E loc \in FlushLocations : loc # "open" /\ fpc' = [fpc EXCEPT ![T] = loc]
      BY <2>5 DEF FlushStep, ScanTable, FinishFile, FlushFails, OpenReader, PublishReader,
                  EraseImmutable, DropWal, FGoto, FlushLocations, diskVars, compactVars
    <3>2. \A U \in Tables : fpc'[U] = "open" => fpc[U] = "open"
      BY <1>t, <3>1 DEF FlushTyped
    <3> QED  BY <1>k, <3>1, <3>2
  <2>6. CASE LoadL1Id
    <3>1. cpc # "store" /\ \A U \in Tables : fpc[U] # "open"
      BY <2>6 DEF LoadL1Id, MayCount, Counting
    <3>2. cid' = gen + 1 /\ UNCHANGED <<gen, fpc, fid>>
      BY <2>6 DEF LoadL1Id, diskVars, flushVars
    <3> QED  BY <3>1, <3>2
  <2>7. CASE WriteL1
    <3>1. cpc = "store" /\ cpc' = "remove" /\ UNCHANGED fpc
      BY <2>7 DEF WriteL1, flushVars
    <3> QED  BY <1>1, <3>1
  <2>8. CASE ScanL0 \/ RemoveL0 \/ PublishL1
    <3>1. UNCHANGED <<gen, fid, fpc, cid>> /\ cpc' # "store" 
      BY <1>t, <2>8 DEF ScanL0, RemoveL0, PublishL1, diskVars, flushVars
    <3> QED  BY <1>k, <3>1
  <2>9. ASSUME NEW r \in Readers, BeginQuery(r) \/ QueryStep(r) PROVE Windows'
    <3>1. UNCHANGED <<gen, fid, fpc, cid, cpc>>
      BY <2>9 DEF BeginQuery, QueryStep, LookInActive, LookInImmutables, LookInFiles, EndQuery, Answer,
                  diskVars, flushVars, compactVars
    <3> QED  BY <1>k, <3>1
  <2> QED
    BY <2>1, <2>2, <2>3, <2>4, <2>5, <2>6, <2>7, <2>8, <2>9 DEF Next, CompactStep
<1> QED  BY <1>2, <1>3 DEF Counted

-----------------------------------------------------------------------------
(* What a flush has written is in its file.                                *)

Scanned(T) == {<<T, i>> : i \in 1 .. scanned[T]}
Written == {"finish", "reader", "publish", "erase", "drop", "done"}
Kept(T) ==
    /\ fpc[T] \in {"none", "id", "open", "scan"} => scanned[T] = NotScanned
    /\ fpc[T] \in {"none", "id", "open"} => ffile[T] = NoFile
    /\ scanned[T] <= Len(mem[T])
    /\ fpc[T] \in Written => scanned[T] # NotScanned /\ files[ffile[T]].recs = Scanned(T)
    /\ fpc[T] \in {"erase", "drop", "done"} => Listed(ffile[T])
    /\ ffile[T] # NoFile => \A U \in Tables : ffile[U] = ffile[T] => U = T
FlushesSound == \A T \in Tables : Kept(T)

\* The records of a table stay where they are.
LEMMA MemGrows ==
    ASSUME Typed, [Next]_vars, NEW T \in Tables
    PROVE  /\ Len(mem[T]) \in Nat /\ Len(mem'[T]) \in Nat /\ Len(mem[T]) <= Len(mem'[T])
           /\ \A i \in 1 .. Len(mem[T]) : mem'[T][i] = mem[T][i]
           /\ mem'[T] = mem[T] \/ \E w \in Writers : /\ InsertRecord(w) /\ wtable[w] = T
                                                     /\ Len(mem'[T]) = Len(mem[T]) + 1
                                                     /\ mem'[T][Len(mem[T]) + 1] = wop[w]
<1>t. MemTyped /\ WritersTyped /\ mem[T] \in Seq(Ops) /\ Len(mem[T]) \in Nat
  BY TypeParts, LenProperties DEF Typed, MemTyped
<1>1. CASE mem' = mem
  BY <1>t, <1>1
<1>2. ASSUME NEW w \in Writers, InsertRecord(w), mem' # mem
      PROVE  \/ mem'[T] = mem[T]
             \/ /\ wtable[w] = T /\ Len(mem'[T]) = Len(mem[T]) + 1
                /\ mem'[T][Len(mem[T]) + 1] = wop[w]
                /\ \A i \in 1 .. Len(mem[T]) : mem'[T][i] = mem[T][i]
  <2> DEFINE U == wtable[w]
  <2>1. U \in Tables /\ wop[w] \in Ops
    BY <1>t DEF WritersTyped
  <2>2. mem' = [mem EXCEPT ![U] = Append(mem[U], wop[w])]
    BY <1>2, <1>t, <2>1 DEF InsertRecord, MemTyped
  <2> HIDE DEF U
  <2>3. CASE U = T
    <3>1. mem'[T] = Append(mem[T], wop[w])
      BY <1>t, <2>2, <2>3 DEF MemTyped
    <3> QED  BY <1>t, <2>1, <2>3, <3>1, AppendProperties DEF U
  <2>4. CASE U # T
    BY <1>t, <2>2, <2>4 DEF MemTyped
  <2> QED  BY <2>3, <2>4
<1>3. mem' = mem \/ \E w \in Writers : InsertRecord(w)
  BY Frame DEF memVars, CheckMemoryUsage, Retire, Renew, EraseImmutable, DropWal
<1>4. CASE mem' # mem
  BY <1>t, <1>2, <1>3, <1>4
<1> QED  BY <1>1, <1>4

\* Which flush a step belongs to.
LEMMA FlushMoves ==
    ASSUME Typed, [Next]_vars, NEW T \in Tables
    PROVE  \/ FlushStep(T)
           \/ UNCHANGED <<ffile[T], scanned[T], fid[T]>>
              /\ \/ UNCHANGED fpc[T]
                 \/ (\E w \in Writers : Renew(w)) /\ T = active /\ fpc'[T] = "id"
<1>t. FlushTyped
  BY TypeParts DEF Typed
<1>1. CASE UNCHANGED flushVars
  BY <1>1 DEF flushVars
<1>2. ASSUME NEW w \in Writers, Renew(w)
      PROVE  /\ UNCHANGED <<ffile[T], scanned[T], fid[T]>>
             /\ UNCHANGED fpc[T] \/ (T = active /\ fpc'[T] = "id")
  BY <1>t, <1>2 DEF Renew, FlushTyped
<1>3. ASSUME NEW U \in Tables, FlushStep(U), U # T
      PROVE  UNCHANGED <<ffile[T], scanned[T], fid[T], fpc[T]>>
  BY <1>t, <1>3 DEF FlushStep, LoadFileId, OpenFile, ScanTable, FinishFile, FlushFails, OpenReader,
                    PublishReader, EraseImmutable, DropWal, FGoto, FlushTyped
<1> QED  BY <1>1, <1>2, <1>3, Frame

LEMMA KeptStep ==
    ASSUME "race" \notin Faults, Typed, TablesSound, Counted, FlushesSound, [Next]_vars
    PROVE  FlushesSound'
<1>t. /\ MemTyped /\ FlushTyped /\ DiskTyped /\ FilesCreated
      /\ Len(files) \in Nat /\ Inodes = 1 .. Len(files) /\ NoFile = 0
      /\ files \in Seq(FileRecords) /\ \A f \in Inodes : files[f] \in FileRecords
      /\ ssTables \in Seq(Inodes) /\ NotScanned = -1
  BY TypeParts, FilesTyped, Bounds DEF Typed, DiskTyped
<1> SUFFICES ASSUME NEW T \in Tables PROVE Kept(T)'
  BY DEF FlushesSound
<1>k. Kept(T) /\ scanned[T] \in {NotScanned} \cup 0 .. Capacity /\ ffile[T] \in {NoFile} \cup Inodes
  BY <1>t DEF FlushesSound, FlushTyped
<1>m. /\ Len(mem[T]) \in Nat /\ Len(mem'[T]) \in Nat /\ Len(mem[T]) <= Len(mem'[T])
      /\ scanned[T] <= Len(mem'[T])
  <2>1. Len(mem[T]) \in Nat /\ Len(mem'[T]) \in Nat /\ Len(mem[T]) <= Len(mem'[T])
    BY MemGrows
  <2>2. scanned[T] \in Int /\ scanned[T] <= Len(mem[T])
    BY <1>k, <1>t, Bounds DEF Kept
  <2> QED  BY <2>1, <2>2
\* The files of two flushes stay two.
<1>1. ffile'[T] # NoFile => \A U \in Tables : ffile'[U] = ffile'[T] => U = T
  <2>1. \A U \in Tables : \/ ffile'[U] = ffile[U]
                          \/ OpenFile(U) /\ ffile'[U] = Len(files) + 1
                             /\ \A V \in Tables \ {U} : ffile'[V] = ffile[V]
    <3> TAKE U \in Tables
    <3>1. CASE OpenFile(U)
      BY <1>t, <3>1, FilesKeep DEF OpenFile, FlushTyped
    <3>2. CASE ~ OpenFile(U)
      <4>1. FlushStep(U) => ffile'[U] = ffile[U]
        BY <3>2 DEF FlushStep, LoadFileId, ScanTable, FinishFile, FlushFails, OpenReader,
                    PublishReader, EraseImmutable, DropWal
      <4> QED  BY <4>1, FlushMoves
    <3> QED  BY <3>1, <3>2
  <2>2. \A U \in Tables : ffile[U] \in {NoFile} \cup Inodes /\ ffile[U] # Len(files) + 1
    BY <1>t DEF FlushTyped
  <2> QED  BY <1>k, <2>1, <2>2 DEF Kept
\* The contents of the file of T change when T is scanned.
<1>2. ASSUME ffile[T] # NoFile, ~ ScanTable(T), UNCHANGED ffile[T]
      PROVE  /\ files'[ffile[T]].recs = files[ffile[T]].recs
             /\ Listed(ffile[T]) => Listed(ffile[T])'
  <2>1. ffile[T] \in Inodes
    BY <1>k, <1>2
  <2>2. \A U \in Tables : ScanTable(U) => ffile[T] # ffile[U]
    BY <1>k, <1>2 DEF Kept
  <2>3. Listed(ffile[T]) => Listed(ffile[T])'
    <3>1. \A f \in Inodes : Listed(f) => Listed(f)'
      BY FilesKeep
    <3>2. PICK f \in Inodes : f = ffile[T]
      BY <2>1
    <3>3. f = ffile'[T]
      BY <1>2, <3>2
    <3> QED  BY <3>1, <3>2, <3>3 DEF Listed
  <2>4. \/ files'[ffile[T]].recs = files[ffile[T]].recs
        \/ \E U \in Tables : ScanTable(U) /\ ffile[T] = ffile[U]
    BY <2>1, FilesKeep
  <2> QED  BY <2>2, <2>3, <2>4
<1>w. fpc[T] \in Written => ffile[T] # NoFile /\ ffile[T] \in Inodes
  BY <1>t DEF FilesCreated, Created, Written
<1>3. CASE UNCHANGED <<ffile[T], scanned[T], fpc[T]>> /\ ~ ScanTable(T)
  BY <1>1, <1>2, <1>3, <1>k, <1>m, <1>w DEF Kept, Scanned, Written
<1>4. CASE UNCHANGED <<ffile[T], scanned[T]>> /\ T = active /\ fpc'[T] = "id"
  <2>1. fpc[T] = "none"
    BY <1>t, <1>4, Bounds DEF TablesSound, InPlace, MemTyped
  <2> QED  BY <1>1, <1>4, <1>k, <1>m, <2>1 DEF Kept, Written
<1>5. CASE LoadFileId(T)
  BY <1>1, <1>5, <1>k, <1>m, <1>t DEF LoadFileId, FGoto, Kept, Written, FlushTyped
<1>6. CASE OpenFile(T)
  BY <1>1, <1>6, <1>k, <1>m, <1>t DEF OpenFile, FGoto, Kept, Written, FlushTyped
<1>7. CASE ScanTable(T)
  <2>1. /\ fpc[T] = "scan" /\ fpc'[T] = "finish" /\ scanned'[T] = Len(mem[T]) /\ mem' = mem
        /\ ffile' = ffile
        /\ files' = [files EXCEPT ![ffile[T]].state = "partial", ![ffile[T]].recs = RanksOf(T)]
    BY <1>7, <1>t DEF ScanTable, FGoto, FlushTyped, memVars
  <2>2. ffile[T] \in Inodes
    BY <1>t, <2>1 DEF FilesCreated, Created
  <2>3. files'[ffile[T]].recs = RanksOf(T)
    <3> DEFINE recs == RanksOf(T)
    <3> HIDE DEF recs
    <3>1. files' = [files EXCEPT ![ffile[T]].state = "partial", ![ffile[T]].recs = recs]
      BY <2>1 DEF recs
    <3>2. files'[ffile[T]].recs = recs
      BY <1>t, <2>2, <3>1 DEF FileRecords
    <3> QED  BY <3>2 DEF recs
  <2>4. RanksOf(T) = Scanned(T)'
    BY <2>1 DEF RanksOf, Scanned
  <2> QED  BY <1>1, <1>m, <1>t, <2>1, <2>2, <2>3, <2>4 DEF Kept, Written
<1>8. CASE FinishFile(T) \/ FlushFails(T) \/ OpenReader(T) \/ EraseImmutable(T) \/ DropWal(T)
  <2>1. /\ UNCHANGED <<ffile, scanned>> /\ ~ ScanTable(T)
        /\ fpc'[T] \in Written => fpc[T] \in Written
        /\ fpc'[T] \in {"erase", "drop", "done"} => fpc[T] \in {"erase", "drop", "done"}
        /\ fpc'[T] \notin {"none", "id", "open", "scan"}
    BY <1>8, <1>t DEF FinishFile, FlushFails, OpenReader, EraseImmutable, DropWal, ScanTable,
                      FGoto, FlushTyped, Written
  <2> QED  BY <1>1, <1>2, <1>k, <1>m, <1>w, <2>1 DEF Kept, Scanned, Written
<1>9. CASE PublishReader(T)
  <2>1. /\ UNCHANGED <<ffile, scanned>> /\ ~ ScanTable(T)
        /\ fpc[T] = "publish" /\ fpc'[T] = "erase" /\ ssTables' = <<ffile[T]>> \o ssTables
    BY <1>9, <1>t DEF PublishReader, ScanTable, FGoto, FlushTyped
  <2>2. Listed(ffile[T])'
    <3>1. ffile[T] \in Inodes
      BY <1>w, <2>1 DEF Written
    <3>2. <<ffile[T]>> \in Seq(Inodes) /\ Len(<<ffile[T]>>) = 1 /\ Len(ssTables) \in Nat
      BY <1>t, <3>1
    <3>3. Len(ssTables') = 1 + Len(ssTables) /\ ssTables'[1] = ffile[T]
      BY <1>t, <2>1, <3>2, ConcatProperties
    <3> QED  BY <2>1, <3>2, <3>3 DEF Listed
  <2> QED  BY <1>1, <1>2, <1>k, <1>m, <1>w, <2>1, <2>2 DEF Kept, Scanned, Written
<1> QED
  <2>1. ScanTable(T) => FlushStep(T)
    BY DEF FlushStep
  <2> QED
    BY <1>3, <1>4, <1>5, <1>6, <1>7, <1>8, <1>9, <2>1, FlushMoves DEF FlushStep

\* When no two threads are inside ++sstFileIdGenerator_, each flush has a file
\* of its own, which holds all that forEach has visited and is in the list
\* before its table leaves imms (carina_engine.hpp:244-272).
THEOREM InductiveFlushes ==
    ASSUME "race" \notin Faults
    PROVE  Spec => [](Counted /\ FlushesSound)
<1>1. Init => Counted /\ FlushesSound
  BY Bounds DEF Init, Counted, Inodes, FlushesSound, Kept, Written
<1>2. Counted /\ FlushesSound /\ Typed /\ TablesSound /\ [Next]_vars => (Counted /\ FlushesSound)'
  BY CountedStep, KeptStep
<1> QED  BY <1>1, <1>2, InductiveTables, PTL DEF Spec

\* A table that has left imms is in a published file, to the last record that
\* its flush has visited.
LEMMA LeftForAFile ==
    ASSUME Typed, TablesSound, FlushesSound, NEW rank \in Settled
    PROVE  \/ rank[1] = active
           \/ InImms(rank[1])
           \/ /\ rank[1] \in Tables /\ fpc[rank[1]] \in {"drop", "done"}
              /\ rank \in files[ffile[rank[1]]].recs /\ Listed(ffile[rank[1]])
<1>t. MemTyped /\ FlushTyped
  BY TypeParts DEF Typed
<1>0. PICK T \in Tables : rank \in RanksOf(T) /\ ~ Late(rank)
  BY DEF Settled
<1>1. PICK i \in 1 .. Len(mem[T]) : rank = <<T, i>> /\ ~ Late(rank)
  BY <1>0 DEF RanksOf
<1>2. T <= active
  <2>1. T \in Nat /\ active \in Nat /\ mem[T] # <<>>
    BY <1>1, <1>t, Bounds DEF MemTyped
  <2> QED  BY <2>1 DEF TablesSound, InPlace
<1>3. CASE T < active /\ fpc[T] \in {"drop", "done"}
  <2>1. scanned[T] # NotScanned /\ files[ffile[T]].recs = Scanned(T) /\ Listed(ffile[T])
    BY <1>3 DEF FlushesSound, Kept, Written
  <2>2. i <= scanned[T] /\ scanned[T] \in Nat
    BY <1>1, <1>t, <2>1, Bounds DEF Late, FlushTyped
  <2>3. rank \in Scanned(T)
    BY <1>1, <2>2 DEF Scanned
  <2> QED  BY <1>1, <1>3, <2>1, <2>3
<1> QED  BY <1>1, <1>2, <1>3, <1>t, Bounds DEF TablesSound, InPlace, MemTyped

\* No record vanishes between the tables and the readers, with any number of
\* flushes under way and compactions that overlap them, as long as no two
\* threads are inside ++sstFileIdGenerator_ (carina_engine.hpp:258-266).
THEOREM NeverVanishes ==
    ASSUME "race" \notin Faults
    PROVE  Spec => []NothingVanishes
<1>1. Typed /\ TablesSound /\ FlushesSound => NothingVanishes
  <2> SUFFICES ASSUME Typed, TablesSound, FlushesSound, NEW k \in Keys, Newest(Settled, k) # NoRank
               PROVE  Reachable(Newest(Settled, k))
    BY DEF NothingVanishes
  <2> DEFINE rank == Newest(Settled, k)
  <2>1. rank \in Settled
    <3>1. Settled \subseteq Ranks
      BY SettledTyped, TypeParts DEF Typed
    <3> QED  BY <3>1, NewestTyped DEF OfKey
  <2> HIDE DEF rank
  <2>2. Reachable(rank)
    BY <2>1, LeftForAFile DEF Reachable, InImms, Listed
  <2> QED  BY <2>2 DEF rank
<1> QED  BY <1>1, InductiveTables, InductiveFlushes, PTL

-----------------------------------------------------------------------------
(* One flush at a time, and compactions between flushes.                   *)

Orderly == MaxFlushing = 1 /\ CompactAlone /\ "race" \notin Faults

\* With one flush at a time, the flush of a table begins when those of the
\* tables before it have ended, and a compaction runs between two flushes.
OneAtATime ==
    /\ \A T, U \in Tables : T < U /\ fpc[U] # "none" => fpc[T] \in {"done", "failed"}
    /\ Renewing => Flushing = {}
    /\ Compacting => Flushing = {} /\ ~ Renewing

\* A table keeps its log until its flush is done.
LogsKept == \A T \in Tables : T <= active /\ fpc[T] # "done" => wal[T] = "open"

\* Versions that are in a file, or can still be, stay so.
LEMMA SettledGrows ==
    ASSUME Typed, FlushesSound, [Next]_vars, NEW r \in Settled
    PROVE  /\ r \in Settled' /\ r \in Ranks /\ mem'[r[1]][r[2]] = mem[r[1]][r[2]]
           /\ r[1] \in Tables /\ r[2] \in 1 .. Len(mem[r[1]])
<1>t. FlushTyped /\ MemTyped
  BY TypeParts DEF Typed
<1>1. PICK T \in Tables : r \in RanksOf(T) /\ ~ Late(r)
  BY DEF Settled
<1>2. PICK i \in 1 .. Len(mem[T]) : r = <<T, i>>
  BY <1>1 DEF RanksOf
<1>3. i \in 1 .. Len(mem'[T]) /\ mem'[T][i] = mem[T][i]
  BY <1>2, MemGrows
<1>4. r \in RanksOf(T)'
  BY <1>2, <1>3 DEF RanksOf
<1>5. ~ Late(r)'
  <2>1. scanned'[T] = scanned[T] \/ scanned'[T] = Len(mem[T])
    <3>1. FlushStep(T) => scanned'[T] = scanned[T] \/ scanned'[T] = Len(mem[T])
      BY <1>t DEF FlushStep, LoadFileId, OpenFile, ScanTable, FinishFile, FlushFails, OpenReader,
                  PublishReader, EraseImmutable, DropWal, FlushTyped
    <3> QED  BY <3>1, FlushMoves
  <2>2. Len(mem[T]) \in Nat
    BY MemGrows
  <2> QED  BY <1>1, <1>2, <2>1, <2>2 DEF Late
<1>6. r \in Ranks
  BY <1>t, SettledTyped
<1> QED  BY <1>1, <1>2, <1>3, <1>4, <1>5, <1>6 DEF Settled

\* When the phases of the engine begin.
LEMMA PhaseMoves ==
    ASSUME Typed, [Next]_vars
    PROVE  /\ Renewing' => \/ Renewing /\ \A w \in Writers : ~ Renew(w)
                           \/ \E w \in Writers : Retire(w)
           /\ Compacting' => (Compacting /\ ~ ScanL0) \/ ScanL0
           /\ \A T \in Tables : T \in Flushing' => \/ T \in Flushing
                                                   \/ (\E w \in Writers : Renew(w)) /\ T = active
           /\ \A T \in Tables : fpc[T] \in {"done", "failed"} =>
                 fpc'[T] = fpc[T] \/ ((\E w \in Writers : Renew(w)) /\ T = active)
<1>t. WritersTyped /\ WritersSound /\ FlushTyped
  BY TypeParts DEF Typed
<1>1. ASSUME NEW v \in Writers, wpc'[v] = "renew"
      PROVE  \/ Renewing /\ \A w \in Writers : ~ Renew(w)
             \/ \E w \in Writers : Retire(w)
  <2>1. CASE wpc[v] = "renew"
    <3>1. ASSUME NEW w \in Writers, Renew(w) PROVE FALSE
      <4>1. w = v
        BY <1>t, <2>1, <3>1, OneSwitches DEF Renew
      <4> QED  BY <1>1, <1>t, <3>1, <4>1 DEF Renew, WGoto, WritersTyped
    <3> QED  BY <2>1, <3>1 DEF Renewing
  <2>2. CASE wpc[v] # "renew"
    <3>1. PICK w \in Writers : BeginPut(w) \/ WriterStep(w)
      BY <1>1, <2>2, Frame DEF writerVars
    <3>2. w = v
      BY <1>1, <1>t, <2>2, <3>1, WriterMoves
    <3>3. ~ BeginPut(v) /\ ~ Load(v) /\ ~ CheckImmutable(v) /\ ~ AppendWal(v) /\ ~ InsertRecord(v)
          /\ ~ CheckMemoryUsage(v) /\ ~ Lock(v) /\ ~ Renew(v) /\ ~ Unlock(v) /\ ~ Return(v)
      BY <1>1, <1>t DEF BeginPut, Load, CheckImmutable, AppendWal, InsertRecord, CheckMemoryUsage,
                        Lock, Renew, Unlock, Return, WGoto, AttemptFails, WritersTyped
    <3> QED  BY <3>1, <3>2, <3>3 DEF WriterStep
  <2> QED  BY <2>1, <2>2
<1>2. Compacting' => Compacting \/ ScanL0
  BY Frame DEF Compacting, CompactStep, LoadL1Id, WriteL1, RemoveL0, PublishL1, compactVars
<1>3. ASSUME NEW T \in Tables
      PROVE  /\ T \in Flushing' => \/ T \in Flushing
                                   \/ (\E w \in Writers : Renew(w)) /\ T = active
             /\ fpc[T] \in {"done", "failed"} =>
                   fpc'[T] = fpc[T] \/ ((\E w \in Writers : Renew(w)) /\ T = active)
  <2>1. CASE FlushStep(T)
    <3>1. fpc[T] \notin {"none", "done", "failed"}
      BY <2>1 DEF FlushStep, LoadFileId, OpenFile, ScanTable, FinishFile, FlushFails, OpenReader,
                  PublishReader, EraseImmutable, DropWal
    <3> QED  BY <3>1 DEF Flushing
  <2>2. CASE UNCHANGED fpc[T]
    BY <2>2 DEF Flushing
  <2>3. CASE (\E w \in Writers : Renew(w)) /\ T = active
    BY <2>3
  <2> QED  BY <2>1, <2>2, <2>3, FlushMoves
<1> QED  BY <1>1, <1>2, <1>3 DEF Renewing

LEMMA OneAtATimeStep ==
    ASSUME Orderly, Typed, TablesSound, OneAtATime, [Next]_vars
    PROVE  OneAtATime'
<1>t. /\ MemTyped /\ WritersTyped /\ FlushTyped /\ active \in Tables
      /\ Tables \subseteq Nat /\ IsFiniteSet(Tables)
  <2>1. 1 \in Int /\ MaxPuts + 1 \in Int /\ Tables = 1 .. MaxPuts + 1
    BY Bounds
  <2>2. IsFiniteSet(Tables)
    BY <2>1, FS_Interval
  <2> QED  BY <2>2, TypeParts, Bounds DEF Typed, MemTyped
<1>n. \A T \in Tables : T < active <=> fpc[T] # "none"
  BY DEF TablesSound, InPlace
\* A table is retired when no flush is under way.
<1>r. ASSUME NEW w \in Writers, Retire(w)
      PROVE  Flushing = {} /\ ~ Compacting /\ UNCHANGED <<fpc, cpc>>
  <2>1. Cardinality(Flushing) < 1 /\ ~ Compacting /\ UNCHANGED <<fpc, cpc>>
    BY <1>r DEF Retire, Orderly, flushVars, compactVars
  <2>2. IsFiniteSet(Flushing)
    BY <1>t, FS_Subset DEF Flushing
  <2>3. Cardinality(Flushing) = 0
    BY <2>1, <2>2, FS_CardinalityType
  <2> QED  BY <2>1, <2>2, <2>3, FS_EmptySet
<1>w. ASSUME NEW w \in Writers, Renew(w)
      PROVE  Renewing /\ ~ Renewing' /\ UNCHANGED cpc /\ Flushing = {} /\ ~ Compacting
             /\ fpc' = [fpc EXCEPT ![active] = "id"]
  <2>1. Renewing /\ UNCHANGED cpc /\ fpc' = [fpc EXCEPT ![active] = "id"]
    BY <1>w DEF Renew, Renewing, compactVars
  <2>2. \A v \in Writers : ~ Retire(v)
    BY <1>w DEF Renew, Retire, memVars
  <2>3. ~ Renewing'
    BY <1>w, <2>2, PhaseMoves
  <2> QED  BY <2>1, <2>3 DEF OneAtATime
<1>1. ASSUME NEW T \in Tables, NEW U \in Tables, T < U, fpc'[U] # "none"
      PROVE  fpc'[T] \in {"done", "failed"}
  <2>1. CASE fpc[U] # "none"
    <3>1. fpc[T] \in {"done", "failed"}
      BY <1>1, <2>1 DEF OneAtATime
    <3>2. T # active
      BY <1>n, <1>t, <3>1
    <3> QED  BY <3>1, <3>2, PhaseMoves
  <2>2. CASE fpc[U] = "none"
    <3>1. PICK w \in Writers : Renew(w)
      <4>1. FlushStep(U) => fpc[U] # "none"
        BY DEF FlushStep, LoadFileId, OpenFile, ScanTable, FinishFile, FlushFails, OpenReader,
               PublishReader, EraseImmutable, DropWal
      <4> QED  BY <1>1, <2>2, <4>1, FlushMoves
    <3>2. U = active
      BY <1>1, <1>t, <1>w, <2>2, <3>1 DEF FlushTyped
    <3>3. fpc[T] # "none" /\ T # active
      BY <1>1, <1>n, <1>t, <3>2
    <3>4. fpc[T] \in {"done", "failed"}
      BY <1>w, <3>1, <3>3 DEF Flushing
    <3> QED  BY <1>t, <1>w, <3>1, <3>3, <3>4 DEF FlushTyped
  <2> QED  BY <2>1, <2>2
<1>2. ASSUME Renewing' PROVE Flushing' = {}
  <2>1. Flushing = {} /\ \A w \in Writers : ~ Renew(w)
    <3>1. \A w \in Writers : ~ Renew(w)
      BY <1>2, <1>w
    <3> QED  BY <1>2, <1>r, <3>1, PhaseMoves DEF OneAtATime
  <2> QED  BY <2>1, PhaseMoves DEF Flushing
<1>3. ASSUME Compacting' PROVE Flushing' = {} /\ ~ Renewing'
  <2>1. /\ Flushing = {} /\ ~ Renewing /\ \A w \in Writers : ~ Renew(w) /\ ~ Retire(w)
    <3>1. CASE Compacting
      <4>1. Flushing = {} /\ ~ Renewing
        BY <3>1 DEF OneAtATime
      <4> QED  BY <1>r, <1>w, <3>1, <4>1
    <3>2. CASE ScanL0
      <4>1. Flushing = {} /\ ~ Renewing /\ UNCHANGED wpc
        BY <3>2 DEF ScanL0, Orderly, Renewing, writerVars
      <4>2. \A w \in Writers : ~ Renew(w) /\ ~ Retire(w)
        BY <3>2, <4>1, <1>t DEF Renew, Retire, ScanL0, WGoto, Renewing, WritersTyped
      <4> QED  BY <4>1, <4>2
    <3> QED  BY <1>3, <3>1, <3>2, PhaseMoves
  <2>2. ~ Renewing'
    BY <2>1, PhaseMoves
  <2>3. Flushing' = {}
    BY <2>1, PhaseMoves DEF Flushing
  <2> QED  BY <2>2, <2>3
<1> QED  BY <1>1, <1>2, <1>3 DEF OneAtATime

LEMMA LogsKeptStep ==
    ASSUME Typed, TablesSound, LogsKept, [Next]_vars
    PROVE  LogsKept'
<1>t. MemTyped /\ FlushTyped /\ active \in Nat /\ Tables \subseteq Nat
  BY TypeParts, Bounds DEF Typed, MemTyped
<1>n. \A T \in Tables : T < active <=> fpc[T] # "none"
  BY DEF TablesSound, InPlace
<1> SUFFICES ASSUME NEW T \in Tables, T <= active', fpc'[T] # "done" PROVE wal'[T] = "open"
  BY DEF LogsKept
<1>1. fpc[T] # "done"
  BY <1>n, <1>t, PhaseMoves
<1>2. CASE UNCHANGED <<active, wal>>
  BY <1>1, <1>2 DEF LogsKept
<1>3. ASSUME NEW w \in Writers, Renew(w) PROVE wal'[T] = "open"
  BY <1>1, <1>3, <1>t DEF Renew, LogsKept, MemTyped
<1>4. ASSUME NEW U \in Tables, DropWal(U) PROVE wal'[T] = "open"
  <2>1. T # U /\ wal'[T] = wal[T] /\ UNCHANGED active
    BY <1>4, <1>t DEF DropWal, FGoto, FlushTyped, MemTyped
  <2> QED  BY <1>1, <2>1 DEF LogsKept
<1> QED
  BY <1>2, <1>3, <1>4, Frame DEF memVars, InsertRecord, CheckMemoryUsage, Retire, EraseImmutable

\* The L0 file of a table: its records are those of the table, its number
\* is larger than those of the tables before, and it has its name until a
\* compaction takes it.
FileSound(T) ==
    /\ files[ffile[T]].level = 0
    /\ files[ffile[T]].recs \subseteq Scanned(T)
    /\ fpc[T] \in {"reader", "publish", "erase", "drop", "done"} => files[ffile[T]].state = "complete"
    /\ T \in Flushing => files[ffile[T]].linked
    /\ \A U \in Tables : T < U /\ ffile[U] # NoFile => files[ffile[T]].id < files[ffile[U]].id
TableFiles ==
    /\ \A T \in Tables : ffile[T] # NoFile => FileSound(T)
    /\ \A f \in Inodes : files[f].level = 0 => \E T \in Tables : ffile[T] = f

\* Names and states of the files that exist.
LEMMA NamesKeep ==
    ASSUME Typed, Counted, [Next]_vars, NEW f \in Inodes
    PROVE  /\ f \in Inodes'
           /\ RemoveL0 /\ f \in cin \ cin' => ~ files'[f].linked
           /\ files'[f].linked # files[f].linked => RemoveL0 /\ f \in cin \ cin'
           /\ \/ files'[f].state = files[f].state
              \/ \E T \in Tables : /\ f = ffile[T]
                                   /\ \/ ScanTable(T) /\ files'[f].state = "partial"
                                      \/ FinishFile(T) /\ files'[f].state = "complete"
<1>t. /\ FlushTyped /\ DiskTyped /\ CompactTyped /\ FilesCreated
      /\ Len(files) \in Nat /\ Inodes = 1 .. Len(files)
      /\ files \in Seq(FileRecords) /\ \A g \in Inodes : files[g] \in FileRecords
  BY TypeParts, FilesTyped DEF Typed, DiskTyped
<1> DEFINE Goal == /\ f \in Inodes'
                   /\ RemoveL0 /\ f \in cin \ cin' => ~ files'[f].linked
                   /\ files'[f].linked # files[f].linked => RemoveL0 /\ f \in cin \ cin'
                   /\ \/ files'[f].state = files[f].state
                      \/ \E T \in Tables : /\ f = ffile[T]
                                           /\ \/ ScanTable(T) /\ files'[f].state = "partial"
                                              \/ FinishFile(T) /\ files'[f].state = "complete"
<1>n. f \in Inodes'
  BY DiskStep
<1>r. ~ RemoveL0 \/ \E g \in cin : files' = [files EXCEPT ![g].linked = FALSE] /\ cin' = cin \ {g}
  BY DEF RemoveL0
<1>1. CASE files'[f] = files[f] /\ ~ RemoveL0
  BY <1>1, <1>n
<1>2. CASE (\E T \in Tables : OpenFile(T)) \/ WriteL1
  <2>1. ~ RemoveL0
    <3>1. WriteL1 => ~ RemoveL0
      BY DEF WriteL1, RemoveL0
    <3>2. \A T \in Tables : OpenFile(T) => UNCHANGED cpc /\ UNCHANGED rounds /\ UNCHANGED cin
      BY DEF OpenFile, compactVars
    <3>3. RemoveL0 => cin' # cin
      BY DEF RemoveL0
    <3> QED  BY <1>2, <3>1, <3>2, <3>3
  <2>2. files'[f] = files[f]
    <3>1. \E l \in {0, 1} : \E new \in FileRecords : files' = Overwrite(Len(files) + 1, new)
      <4>1. ASSUME NEW T \in Tables, OpenFile(T)
            PROVE  files' = Overwrite(Len(files) + 1, File(0, fid[T], "empty", {}))
                   /\ File(0, fid[T], "empty", {}) \in FileRecords
        <5>1. ffile'[T] = Len(files) + 1
          BY <4>1, FilesKeep
        <5> QED  BY <4>1, <5>1, <1>t DEF OpenFile, File, FileRecords, FlushTyped
      <4>2. ASSUME WriteL1
            PROVE  files' = Overwrite(Len(files) + 1, File(1, cid, "complete", cview))
                   /\ File(1, cid, "complete", cview) \in FileRecords
        <5>1. cfile' = Len(files) + 1
          BY <4>2, FilesKeep
        <5> QED  BY <4>2, <5>1, <1>t DEF WriteL1, File, FileRecords, CompactTyped
      <4> QED  BY <1>2, <4>1, <4>2
    <3>2. PICK new \in FileRecords : files' = Overwrite(Len(files) + 1, new)
      BY <3>1
    <3> QED  BY <1>t, <3>2 DEF Overwrite
  <2> QED  BY <1>1, <2>1, <2>2
<1>3. ASSUME NEW T \in Tables, ScanTable(T) PROVE Goal
  <2>1. ffile[T] \in Inodes
    BY <1>3, <1>t DEF ScanTable, FilesCreated, Created
  <2>2. /\ files' = [files EXCEPT ![ffile[T]].state = "partial", ![ffile[T]].recs = RanksOf(T)]
        /\ UNCHANGED <<cin, cpc>>
    BY <1>3 DEF ScanTable, compactVars
  <2> DEFINE g == ffile[T]
  <2> DEFINE recs == RanksOf(T)
  <2>3. files' = [files EXCEPT ![g].state = "partial", ![g].recs = recs] /\ g \in Inodes
    BY <2>1, <2>2
  <2> HIDE DEF recs, g
  <2>4. files'[f].linked = files[f].linked
        /\ (f # g => files'[f].state = files[f].state) /\ (f = g => files'[f].state = "partial")
    BY <1>t, <2>3 DEF FileRecords
  <2> QED  BY <1>3, <1>n, <2>2, <2>4 DEF g
<1>4. ASSUME NEW T \in Tables, FinishFile(T) PROVE Goal
  <2>1. /\ files' = [files EXCEPT ![ffile[T]].state = "complete"] /\ UNCHANGED cin
    BY <1>4 DEF FinishFile, compactVars
  <2>2. ffile[T] \in Inodes
    BY <1>4, <1>t DEF FinishFile, FilesCreated, Created
  <2>3. files'[f].linked = files[f].linked
        /\ (f # ffile[T] => files'[f].state = files[f].state)
        /\ (f = ffile[T] => files'[f].state = "complete")
    BY <1>t, <2>1, <2>2 DEF FileRecords
  <2> QED  BY <1>4, <1>n, <2>1, <2>3
<1>5. CASE RemoveL0
  <2>1. PICK g \in cin : files' = [files EXCEPT ![g].linked = FALSE] /\ cin' = cin \ {g}
    BY <1>5, <1>r
  <2>2. g \in Inodes
    BY <1>t DEF CompactTyped
  <2>3. files'[f].state = files[f].state /\ (f # g => files'[f].linked = files[f].linked)
        /\ (f = g => ~ files'[f].linked)
    <3> DEFINE new == [files[g] EXCEPT !.linked = FALSE]
    <3>0. files' = [files EXCEPT ![g] = new]
      BY <2>1
    <3> HIDE DEF new
    <3>5. f \in 1 .. Len(files) /\ DOMAIN files = 1 .. Len(files)
      BY <1>t
    <3>6. (f = g => files'[f] = new) /\ (f # g => files'[f] = files[f])
      BY <3>0, <3>5
    <3>1. files'[f] = IF f = g THEN [files[f] EXCEPT !.linked = FALSE] ELSE files[f]
      BY <3>6 DEF new
    <3>2. files[f] \in FileRecords
      BY <1>t
    <3>3. CASE f = g
      <4>1. files'[f] = [files[f] EXCEPT !.linked = FALSE]
        BY <3>1, <3>3
      <4>2. files'[f].state = files[f].state /\ files'[f].linked = FALSE
        BY <3>2, <4>1 DEF FileRecords
      <4> QED  BY <3>3, <4>2
    <3>4. CASE f # g
      BY <3>1, <3>4
    <3> QED  BY <3>3, <3>4
  <2> QED  BY <1>5, <1>n, <2>1, <2>3
<1>6. CASE ((\E T \in Tables : PublishReader(T)) \/ PublishL1 \/ UNCHANGED diskVars) /\ ~ RemoveL0
  <2>1. UNCHANGED files
    BY <1>6 DEF PublishReader, PublishL1, diskVars
  <2> QED  BY <1>1, <1>6, <2>1
<1> QED  BY <1>2, <1>3, <1>4, <1>5, <1>6, Frame

LEMMA TableFilesStep ==
    ASSUME "race" \notin Faults, Typed, TablesSound, Counted, FlushesSound, OneAtATime, TableFiles,
           [Next]_vars
    PROVE  TableFiles'
<1>t. /\ FlushTyped /\ DiskTyped /\ CompactTyped /\ FilesCreated /\ NoFile = 0
      /\ Len(files) \in Nat /\ Inodes = 1 .. Len(files) /\ gen \in Nat
      /\ \A g \in Inodes : files[g] \in FileRecords /\ files[g].id \in Nat
      /\ \A T \in Tables : ffile[T] \in {NoFile} \cup Inodes
      /\ Tables \subseteq Nat
  BY TypeParts, FilesTyped, Bounds DEF Typed, DiskTyped, FlushTyped, FileRecords
<1>i. Inodes' = 1 .. Len(files') /\ Len(files') \in Nat
  BY DiskStep DEF Inodes
\* Who has a file, and who gets one.
<1>f. ASSUME NEW T \in Tables
      PROVE  \/ ffile'[T] = ffile[T] /\ ~ OpenFile(T)
             \/ OpenFile(T) /\ ffile[T] = NoFile
  <2>1. CASE OpenFile(T)
    BY <2>1 DEF OpenFile, FlushesSound, Kept
  <2>2. CASE ~ OpenFile(T)
    <3>1. FlushStep(T) => ffile'[T] = ffile[T]
      BY <2>2 DEF FlushStep, LoadFileId, ScanTable, FinishFile, FlushFails, OpenReader,
                  PublishReader, EraseImmutable, DropWal
    <3> QED  BY <2>2, <3>1, FlushMoves
  <2> QED  BY <2>1, <2>2
<1>1. ASSUME NEW T \in Tables, OpenFile(T) PROVE FileSound(T)'
  <2> DEFINE f == Len(files) + 1
  <2>1. ffile'[T] = f /\ files'[f] = File(0, gen + 1, "empty", {})
    BY <1>1, FilesKeep
  <2>2. fpc[T] = "open" /\ fpc'[T] = "scan"
    BY <1>1, <1>t DEF OpenFile, FGoto, FlushTyped
  <2>3. ASSUME NEW U \in Tables, T < U PROVE ffile'[U] = NoFile
    <3>1. fpc[U] = "none"
      BY <2>2, <2>3 DEF OneAtATime
    <3>2. ffile[U] = NoFile /\ ~ OpenFile(U)
      BY <3>1 DEF FlushesSound, Kept, OpenFile
    <3> QED  BY <1>f, <3>2
  <2>4. /\ files'[f].level = 0 /\ files'[f].recs = {} /\ files'[f].linked
    BY <2>1 DEF File
  <2> HIDE DEF f
  <2> QED  BY <2>1, <2>2, <2>3, <2>4 DEF FileSound
<1>2. ASSUME NEW T \in Tables, ffile'[T] = ffile[T], ffile[T] # NoFile PROVE FileSound(T)'
  <2> DEFINE f == ffile[T]
  <2>1. f \in Inodes /\ ffile'[T] = f /\ FileSound(T) /\ Kept(T)
    BY <1>2, <1>t DEF TableFiles, FlushesSound
  <2>k. files'[f].id = files[f].id /\ files'[f].level = files[f].level
    BY <2>1, FilesKeep
  <2>o. \A U \in Tables : ffile[U] = f => U = T
    BY <1>2, <2>1 DEF Kept
  <2> HIDE DEF f
  <2>2. files'[f].recs \subseteq Scanned(T)'
    <3>1. CASE ScanTable(T)
      <4>1. /\ scanned'[T] = Len(mem[T]) /\ mem' = mem
            /\ files' = [files EXCEPT ![ffile[T]].state = "partial", ![ffile[T]].recs = RanksOf(T)]
        BY <3>1, <1>t DEF ScanTable, FlushTyped, memVars
      <4>2. RanksOf(T) = Scanned(T)'
        BY <4>1 DEF RanksOf, Scanned
      <4>3. fpc'[T] = "finish"
        BY <3>1, <1>t DEF ScanTable, FGoto, FlushTyped
      <4>4. FlushesSound'
        BY KeptStep
      <4> QED  BY <1>2, <2>1, <4>3, <4>4 DEF FlushesSound, Kept, Written, f
    <3>2. CASE ~ ScanTable(T)
      <4>1. scanned'[T] = scanned[T]
        <5>1. FlushStep(T) => scanned'[T] = scanned[T]
          BY <3>2 DEF FlushStep, LoadFileId, OpenFile, FinishFile, FlushFails, OpenReader,
                      PublishReader, EraseImmutable, DropWal
        <5> QED  BY <5>1, FlushMoves
      <4>2. files'[f].recs = files[f].recs
        BY <2>1, <2>o, <3>2, FilesKeep
      <4> QED  BY <2>1, <4>1, <4>2 DEF FileSound, Scanned, f
    <3> QED  BY <3>1, <3>2
  <2>3. fpc'[T] \in {"reader", "publish", "erase", "drop", "done"} => files'[f].state = "complete"
    <3>1. CASE FinishFile(T)
      <4>1. files' = [files EXCEPT ![f].state = "complete"]
        BY <3>1 DEF FinishFile, f
      <4> QED  BY <1>t, <2>1, <4>1 DEF DiskTyped, FileRecords
    <3>2. CASE ScanTable(T)
      BY <3>2, <1>t DEF ScanTable, FGoto, FlushTyped
    <3>3. CASE ~ FinishFile(T) /\ ~ ScanTable(T)
      <4>1. files'[f].state = files[f].state
        BY <2>1, <2>o, <3>3, NamesKeep
      <4>2. fpc'[T] \in {"reader", "publish", "erase", "drop", "done"} =>
               fpc[T] \in {"reader", "publish", "erase", "drop", "done"}
        <5>1. FlushStep(T) => \/ fpc[T] \in {"reader", "publish", "erase", "drop", "done"}
                              \/ fpc'[T] \notin {"reader", "publish", "erase", "drop", "done"}
          BY <3>3, <1>t DEF FlushStep, LoadFileId, OpenFile, FlushFails, OpenReader,
                            PublishReader, EraseImmutable, DropWal, FGoto, FlushTyped
        <5> QED  BY <5>1, FlushMoves
      <4> QED  BY <2>1, <4>1, <4>2 DEF FileSound, f
    <3> QED  BY <3>1, <3>2, <3>3
  <2>4. T \in Flushing' => files'[f].linked
    <3> SUFFICES ASSUME T \in Flushing' PROVE files'[f].linked
      OBVIOUS
    <3>1. T \in Flushing
      <4>1. fpc[T] # "none"
        BY <1>2, <2>1 DEF Kept
      <4>2. T # active
        BY <4>1, <1>t, TypeParts, Bounds DEF TablesSound, InPlace, Typed, MemTyped
      <4> QED  BY <4>2, PhaseMoves
    <3>2. ~ RemoveL0
      BY <3>1 DEF OneAtATime, Compacting, RemoveL0
    <3> QED  BY <2>1, <3>1, <3>2, NamesKeep DEF FileSound, f
  <2>5. ASSUME NEW U \in Tables, T < U, ffile'[U] # NoFile PROVE files'[f].id < files'[ffile'[U]].id
    <3>1. CASE OpenFile(U)
      <4>1. files'[ffile'[U]].id = gen + 1
        BY <3>1, FilesKeep DEF File
      <4>2. files[f].id <= gen
        BY <2>1 DEF Counted
      <4> QED  BY <1>t, <2>1, <2>k, <4>1, <4>2
    <3>2. CASE ffile'[U] = ffile[U]
      <4>1. ffile[U] \in Inodes
        BY <1>t, <2>5, <3>2
      <4>2. files'[ffile[U]].id = files[ffile[U]].id
        BY <4>1, FilesKeep
      <4> QED  BY <2>1, <2>5, <2>k, <3>2, <4>2 DEF FileSound, f
    <3> QED  BY <1>f, <3>1, <3>2
  <2>6. files'[f].level = 0
    BY <2>1, <2>k DEF FileSound, f
  <2> QED  BY <2>1, <2>2, <2>3, <2>4, <2>5, <2>6 DEF FileSound
<1>3. ASSUME NEW f \in Inodes', files'[f].level = 0 PROVE \E T \in Tables : ffile'[T] = f
  <2>1. CASE f \in Inodes
    <3>1. PICK T \in Tables : ffile[T] = f
      BY <1>3, <2>1, FilesKeep DEF TableFiles
    <3> QED  BY <1>f, <1>t, <2>1, <3>1
  <2>2. CASE f \notin Inodes
    <3>1. Len(files') # Len(files)
      BY <1>3, <1>i, <1>t, <2>2
    <3>2. ~ WriteL1
      <4> SUFFICES ASSUME WriteL1 PROVE FALSE
        OBVIOUS
      <4>1. Len(files') = Len(files) + 1 /\ files'[Len(files) + 1].level = 1
        BY FilesKeep DEF File
      <4> QED  BY <1>3, <1>i, <1>t, <2>2, <4>1
    <3>3. PICK T \in Tables : OpenFile(T)
      BY <3>1, <3>2, FilesKeep
    <3>4. Len(files') = Len(files) + 1 /\ ffile'[T] = Len(files) + 1
      BY <3>3, FilesKeep
    <3> QED  BY <1>3, <1>i, <1>t, <2>2, <3>4
  <2> QED  BY <2>1, <2>2
<1> QED  BY <1>1, <1>2, <1>3, <1>f DEF TableFiles

\* A version that makes r superfluous: as new, and a tombstone or in S.
MadeUpFor(r, S) == \E v \in Settled : /\ Op(v).key = Op(r).key /\ ~ Older(v, r)
                                      /\ Op(v).del \/ v \in S
InL1 == UNION {files[f].recs : f \in {g \in Inodes : files[g].level = 1}}

\* The merge makes up for the files it has read, and the L1 files for those
\* that were removed.
MergesSound ==
    /\ \A f \in cin : files[f].level = 0
    /\ cpc \in {"idle", "publish"} => cin = {}
    /\ Compacting => \A f \in cin : \A r \in Readable(f) : MadeUpFor(r, cview)
    /\ cpc \in {"remove", "publish"} => files[cfile].level = 1 /\ files[cfile].recs = cview
    /\ \A f \in Inodes : files[f].level = 1 => files[f].linked /\ files[f].state = "complete"
    /\ \A f \in Inodes : ~ files[f].linked => \A r \in Readable(f) : MadeUpFor(r, InL1)

LEMMA FileRanks ==
    ASSUME Typed, FlushesSound, TableFiles, NEW f \in Inodes, files[f].level = 0
    PROVE  \E T \in Tables : /\ ffile[T] = f /\ f # NoFile
                             /\ \A r \in files[f].recs : /\ r[1] = T /\ r \in Settled /\ r \in Ranks
                                                         /\ r \in RanksOf(T) /\ Op(r) \in Ops
<1>t. MemTyped /\ FlushTyped /\ Inodes = 1 .. Len(files) /\ NoFile = 0
  BY TypeParts, FilesTyped, Bounds DEF Typed
<1>1. PICK T \in Tables : ffile[T] = f /\ f # NoFile
  BY <1>t DEF TableFiles
<1>2. files[f].recs \subseteq Scanned(T) /\ scanned[T] <= Len(mem[T]) /\ Len(mem[T]) \in Nat
  <2>1. FileSound(T) /\ Kept(T)
    BY <1>1 DEF TableFiles, FlushesSound
  <2>2. Len(mem[T]) \in Nat
    BY <1>t DEF MemTyped
  <2> QED  BY <1>1, <2>1, <2>2 DEF FileSound, Kept
<1>3. scanned[T] \in {NotScanned} \cup 0 .. Capacity /\ NotScanned = -1 /\ Capacity \in Nat
  BY <1>t, Bounds DEF FlushTyped
<1>4. ASSUME NEW r \in files[f].recs
      PROVE  r[1] = T /\ r \in Settled /\ r \in Ranks /\ r \in RanksOf(T) /\ Op(r) \in Ops
  <2>1. PICK i \in 1 .. scanned[T] : r = <<T, i>>
    BY <1>2 DEF Scanned
  <2>2. i \in 1 .. Len(mem[T]) /\ i <= scanned[T]
    BY <1>2, <1>3, <2>1
  <2>3. r \in RanksOf(T) /\ ~ Late(r)
    BY <1>3, <2>1, <2>2 DEF RanksOf, Late
  <2>4. r \in Settled
    BY <2>3 DEF Settled
  <2>5. Op(r) \in Ops
    BY <1>t, <2>1, <2>2 DEF Op, MemTyped
  <2> QED  BY <1>t, <2>1, <2>3, <2>4, <2>5, SettledTyped
<1> QED  BY <1>1, <1>4

\* The merge picks the newest version of each key.
LEMMA WinnerNewest ==
    ASSUME Typed, FlushesSound, TableFiles, NEW f \in Linked(0), NEW r \in Readable(f), NEW v,
           v = Winner(Linked(0), Op(r).key)
    PROVE  /\ ~ Older(v, r) /\ v \in Settled /\ Op(v).key = Op(r).key
           /\ \E g \in Linked(0) : v \in Readable(g)
           /\ Op(v).del \/ v \in Merged(Linked(0))
<1>t. DiskTyped /\ Linked(0) \subseteq Inodes /\ \A g \in Linked(0) : files[g].level = 0
  BY TypeParts DEF Typed, Linked
<1>n. Tables \subseteq Nat /\ \A g \in Inodes : files[g].id \in Nat
  BY <1>t, Bounds, FilesTyped DEF FileRecords
<1>1. \A g \in Linked(0) : Readable(g) \subseteq files[g].recs /\ Readable(g) \subseteq Ranks
  BY <1>t, ReadableTyped DEF Readable
<1>2. PICK T \in Tables : ffile[T] = f /\ f # NoFile /\ \A q \in files[f].recs : q[1] = T /\ Op(q) \in Ops
  BY <1>t, FileRanks
<1> DEFINE k == Op(r).key
<1>3. k \in Keys /\ r \in OfKey(Readable(f), k) /\ HasKey(f, k)
  BY <1>1, <1>2 DEF Ops, OfKey, HasKey
<1> HIDE DEF k
<1>4. PICK g \in Linked(0) : /\ HasKey(g, k)
                             /\ \A h \in Linked(0) : HasKey(h, k) => files[h].id <= files[g].id
                             /\ Winner(Linked(0), k) = Newest(Readable(g), k)
  BY <1>3, <1>t, WinnerIs
<1>v. v = Winner(Linked(0), k)
  BY DEF k
<1>5. /\ v \in OfKey(Readable(g), k) /\ \A q \in OfKey(Readable(g), k) : ~ Older(v, q)
  BY <1>1, <1>4, <1>v, NewestTyped DEF HasKey
<1>6. PICK U \in Tables : ffile[U] = g /\ g # NoFile /\ \A q \in files[g].recs : q[1] = U /\ q \in Settled
  BY <1>t, FileRanks
<1>w. v \in {Winner(Linked(0), j) : j \in {i \in Keys : \E h \in Linked(0) : HasKey(h, i)}}
  BY <1>3, <1>v
<1>7. ~ Older(v, r)
  <2>1. CASE U = T
    BY <1>2, <1>3, <1>5, <1>6, <2>1
  <2>2. CASE U # T
    <3>1. files[f].id <= files[g].id
      BY <1>3, <1>4
    <3>2. ~ (U < T)
      <4>1. U < T => files[g].id < files[f].id
        BY <1>2, <1>6 DEF TableFiles, FileSound
      <4> QED  BY <1>n, <1>t, <3>1, <4>1
    <3>3. v[1] = U /\ r[1] = T
      BY <1>1, <1>2, <1>5, <1>6 DEF OfKey
    <3> QED  BY <1>n, <2>2, <3>2, <3>3 DEF Older
  <2> QED  BY <2>1, <2>2
<1>8. v \in Settled /\ Op(v).key = Op(r).key
  BY <1>1, <1>5, <1>6 DEF OfKey, k
<1>9. Op(v).del \/ v \in Merged(Linked(0))
  BY <1>w DEF Merged
<1>10. \E h \in Linked(0) : v \in Readable(h)
  BY <1>4, <1>5 DEF OfKey
<1> QED  BY <1>7, <1>8, <1>9, <1>10

\* What a merge leaves out of its output is older than something in it, or
\* than a tombstone.
LEMMA MergeMakesUp ==
    ASSUME Typed, FlushesSound, TableFiles, NEW f \in Linked(0), NEW r \in Readable(f)
    PROVE  MadeUpFor(r, Merged(Linked(0)))
<1>1. PICK v : v = Winner(Linked(0), Op(r).key)
  OBVIOUS
<1> QED  BY <1>1, WinnerNewest DEF MadeUpFor

LEMMA MadeUpForStays ==
    ASSUME Typed, FlushesSound, [Next]_vars, NEW r \in Settled, NEW S, NEW R, S \subseteq R,
           MadeUpFor(r, S)
    PROVE  MadeUpFor(r, R)'
<1>1. PICK v \in Settled : Op(v).key = Op(r).key /\ ~ Older(v, r) /\ (Op(v).del \/ v \in S)
  BY DEF MadeUpFor
<1>2. v \in Settled' /\ Op(v)' = Op(v) /\ Op(r)' = Op(r)
  BY SettledGrows DEF Op
<1> QED  BY <1>1, <1>2 DEF MadeUpFor

\* What a step does to the compaction.
LEMMA CompactMoves ==
    ASSUME Typed, [Next]_vars
    PROVE  /\ ScanL0 /\ cpc' # cpc =>
                 /\ cin' = Linked(0) /\ cview' = Merged(Linked(0)) /\ cpc = "idle" /\ cpc' = "id"
                 /\ UNCHANGED <<files, ssTables, mem, scanned, fpc, ffile>> /\ ~ RemoveL0
           /\ RemoveL0 =>
                 /\ cpc = "remove" /\ cpc' \in {"remove", "publish"} /\ cin' \subseteq cin
                 /\ cpc' = "publish" => cin' = {}
                 /\ UNCHANGED <<cview, cfile>>
           /\ \/ UNCHANGED <<cpc, cin, cview, cfile>> /\ ~ RemoveL0 /\ ~ WriteL1
              \/ ScanL0 /\ cpc' # cpc
              \/ /\ LoadL1Id /\ cpc = "id" /\ cpc' = "store" /\ UNCHANGED <<cin, cview, cfile>>
                 /\ ~ RemoveL0 /\ ~ WriteL1
              \/ WriteL1 /\ cpc = "store" /\ cpc' = "remove" /\ UNCHANGED <<cin, cview>> /\ ~ RemoveL0
              \/ RemoveL0
              \/ /\ PublishL1 /\ cpc = "publish" /\ cpc' = "idle" /\ UNCHANGED cin /\ cview' = {}
                 /\ ~ RemoveL0 /\ ~ WriteL1
<1>t. CompactTyped /\ Len(files) \in Nat /\ cin \subseteq 1 .. Len(files)
  BY TypeParts, FilesTyped DEF Typed, CompactTyped
<1>1. ASSUME ScanL0, cpc' # cpc
      PROVE  /\ cin' = Linked(0) /\ cview' = Merged(Linked(0)) /\ cpc = "idle" /\ cpc' = "id"
             /\ UNCHANGED <<files, ssTables, mem, scanned, fpc, ffile>> /\ ~ RemoveL0
  BY <1>1 DEF ScanL0, RemoveL0, memVars, flushVars, diskVars
<1>2. ASSUME RemoveL0
      PROVE  /\ cpc = "remove" /\ cpc' \in {"remove", "publish"} /\ cin' \subseteq cin
             /\ cpc' = "publish" => cin' = {}
             /\ UNCHANGED <<cview, cfile>>
  <2>1. PICK f \in cin : cin' = cin \ {f}
    BY <1>2 DEF RemoveL0
  <2>2. /\ cpc = "remove" /\ cpc' = IF Cardinality(cin) = 1 THEN "publish" ELSE "remove"
        /\ UNCHANGED <<cview, cfile>>
    BY <1>2 DEF RemoveL0
  <2>3. IsFiniteSet(cin)
    <3>1. IsFiniteSet(1 .. Len(files))
      BY <1>t, FS_Interval
    <3> QED  BY <1>t, <3>1, FS_Subset
  <2>4. Cardinality(cin) = 1 => cin' = {}
    <3>1. IsFiniteSet(cin \ {f}) /\ Cardinality(cin \ {f}) = Cardinality(cin) - 1
      BY <2>1, <2>3, FS_RemoveElement
    <3> QED  BY <2>1, <3>1, FS_EmptySet
  <2> QED  BY <2>1, <2>2, <2>4
<1>3. \/ UNCHANGED <<cpc, cin, cview, cfile>> /\ ~ RemoveL0 /\ ~ WriteL1
      \/ ScanL0 /\ cpc' # cpc
      \/ /\ LoadL1Id /\ cpc = "id" /\ cpc' = "store" /\ UNCHANGED <<cin, cview, cfile>>
         /\ ~ RemoveL0 /\ ~ WriteL1
      \/ WriteL1 /\ cpc = "store" /\ cpc' = "remove" /\ UNCHANGED <<cin, cview>> /\ ~ RemoveL0
      \/ RemoveL0
      \/ /\ PublishL1 /\ cpc = "publish" /\ cpc' = "idle" /\ UNCHANGED cin /\ cview' = {}
         /\ ~ RemoveL0 /\ ~ WriteL1
  <2>1. RemoveL0 => cin' # cin
    BY DEF RemoveL0
  <2>2. WriteL1 => cpc' # cpc /\ ~ RemoveL0
    BY DEF WriteL1, RemoveL0
  <2>3. CASE UNCHANGED compactVars
    BY <2>1, <2>2, <2>3 DEF compactVars
  <2>4. CASE ScanL0
    <3>1. cpc' = cpc \/ cpc' # cpc
      OBVIOUS
    <3>2. cpc' = cpc => UNCHANGED <<cpc, cin, cview, cfile>>
      BY <2>4 DEF ScanL0
    <3> QED  BY <2>1, <2>2, <2>4, <3>1, <3>2
  <2>5. CASE LoadL1Id
    BY <2>1, <2>2, <2>5 DEF LoadL1Id, WriteL1
  <2>6. CASE WriteL1
    BY <2>2, <2>6 DEF WriteL1
  <2>7. CASE PublishL1
    BY <2>1, <2>7 DEF PublishL1, WriteL1
  <2> QED  BY <2>3, <2>4, <2>5, <2>6, <2>7, Frame DEF CompactStep
<1> QED  BY <1>1, <1>2, <1>3

LEMMA MergesSoundStep ==
    ASSUME Orderly, Typed, TablesSound, Counted, FlushesSound, OneAtATime, TableFiles, MergesSound,
           [Next]_vars
    PROVE  MergesSound'
<1>t. /\ FlushTyped /\ DiskTyped /\ CompactTyped /\ FilesCreated /\ NoFile = 0
      /\ Len(files) \in Nat /\ Inodes = 1 .. Len(files) /\ gen \in Nat
      /\ \A g \in Inodes : files[g] \in FileRecords
      /\ cin \subseteq Inodes
  BY TypeParts, FilesTyped, Bounds DEF Typed, DiskTyped, CompactTyped
<1>i. Inodes' = 1 .. Len(files') /\ Len(files') \in Nat /\ Inodes \subseteq Inodes'
  BY DiskStep DEF Inodes
\* Flushes write to files of level 0 that have their names.
<1>f. ASSUME NEW f \in Inodes, \/ files[f].level = 1
                               \/ ~ files[f].linked
                               \/ Compacting
      PROVE  files'[f].state = files[f].state /\ files'[f].recs = files[f].recs
  <2>1. ASSUME NEW T \in Tables, ScanTable(T) \/ FinishFile(T), ffile[T] = f PROVE FALSE
    <3>1. T \in Flushing /\ f # NoFile
      BY <1>t, <2>1 DEF ScanTable, FinishFile, Flushing
    <3>2. files[f].level = 0 /\ files[f].linked
      BY <2>1, <3>1 DEF TableFiles, FileSound
    <3> QED  BY <1>f, <3>1, <3>2 DEF OneAtATime
  <2>2. files'[f].recs = files[f].recs
    BY <2>1, FilesKeep
  <2>3. files'[f].state = files[f].state
    BY <2>1, NamesKeep
  <2> QED  BY <2>2, <2>3
<1>l. \A f \in Inodes : files'[f].level = files[f].level
  BY FilesKeep
\* Files that a step creates.
<1>n. ASSUME NEW f \in Inodes', f \notin Inodes
      PROVE  files'[f].linked /\ (files'[f].level = 1 => files'[f].state = "complete")
  <2>1. Len(files') # Len(files)
    BY <1>i, <1>t, <1>n
  <2>2. /\ Len(files') = Len(files) + 1
        /\ files'[Len(files) + 1].linked
        /\ files'[Len(files) + 1].level = 1 => files'[Len(files) + 1].state = "complete"
    BY <2>1, FilesKeep DEF File
  <2>3. f = Len(files) + 1
    BY <1>i, <1>n, <1>t, <2>2
  <2> QED  BY <2>2, <2>3
<1>m. /\ \A f \in cin : files[f].level = 0
      /\ cpc \in {"idle", "publish"} => cin = {}
      /\ Compacting => \A f \in cin : \A r \in Readable(f) : MadeUpFor(r, cview)
      /\ cpc \in {"remove", "publish"} => files[cfile].level = 1 /\ files[cfile].recs = cview
      /\ \A f \in Inodes : files[f].level = 1 => files[f].linked /\ files[f].state = "complete"
      /\ \A f \in Inodes : ~ files[f].linked => \A r \in Readable(f) : MadeUpFor(r, InL1)
  BY DEF MergesSound
<1>1. ScanL0 /\ cpc' # cpc => /\ cin' = Linked(0) /\ cview' = Merged(Linked(0)) /\ cpc' = "id"
                              /\ UNCHANGED <<files, mem, scanned>> /\ ~ RemoveL0
  BY CompactMoves
<1>2. RemoveL0 => /\ cpc = "remove" /\ cpc' \in {"remove", "publish"} /\ cin' \subseteq cin
                  /\ cpc' = "publish" => cin' = {}
                  /\ UNCHANGED <<cview, cfile>>
  BY CompactMoves
<1>3. \/ UNCHANGED <<cpc, cin, cview, cfile>> /\ ~ RemoveL0 /\ ~ WriteL1
      \/ ScanL0 /\ cpc' # cpc
      \/ /\ LoadL1Id /\ cpc = "id" /\ cpc' = "store" /\ UNCHANGED <<cin, cview, cfile>>
         /\ ~ RemoveL0 /\ ~ WriteL1
      \/ WriteL1 /\ cpc = "store" /\ cpc' = "remove" /\ UNCHANGED <<cin, cview>> /\ ~ RemoveL0
      \/ RemoveL0
      \/ PublishL1 /\ cpc = "publish" /\ cpc' = "idle" /\ UNCHANGED cin /\ ~ RemoveL0 /\ ~ WriteL1
  BY CompactMoves
<1>4. \A f \in cin' : files'[f].level = 0
  <2>1. ~ ScanL0 \/ cpc' = cpc => cin' \subseteq cin
    BY <1>2, <1>3
  <2>2. ScanL0 /\ cpc' # cpc => cin' = Linked(0)
    BY <1>1
  <2> QED  BY <1>l, <1>m, <1>t, <2>1, <2>2 DEF Linked
<1>5. cpc' \in {"idle", "publish"} => cin' = {}
  BY <1>1, <1>2, <1>3, <1>m
<1>6. ASSUME Compacting', NEW f \in cin', NEW r \in Readable(f)' PROVE MadeUpFor(r, cview)'
  <2>1. CASE ScanL0 /\ cpc' # cpc
    <3>1. f \in Linked(0) /\ r \in Readable(f) /\ cview' = Merged(Linked(0)) /\ f \in Inodes
      BY <1>1, <2>1 DEF Readable, Linked
    <3>2. MadeUpFor(r, Merged(Linked(0))) /\ files[f].level = 0 /\ r \in files[f].recs
      BY <3>1, MergeMakesUp DEF Linked, Readable
    <3>3. r \in Settled
      BY <3>1, <3>2, FileRanks
    <3> DEFINE M == Merged(Linked(0))
    <3> HIDE DEF M
    <3>4. PICK S : S = M
      OBVIOUS
    <3>5. MadeUpFor(r, S)'
      BY <3>2, <3>3, <3>4, MadeUpForStays DEF M
    <3> QED  BY <3>1, <3>4, <3>5 DEF MadeUpFor, M
  <2>2. CASE ~ (ScanL0 /\ cpc' # cpc)
    <3>1. Compacting /\ f \in cin /\ cview' = cview /\ f \in Inodes
      BY <1>2, <1>3, <1>6, <1>t, <2>2 DEF Compacting
    <3>2. r \in Readable(f) /\ r \in files[f].recs /\ files[f].level = 0
      BY <1>f, <1>m, <3>1 DEF Readable
    <3>3. r \in Settled /\ MadeUpFor(r, cview)
      BY <1>m, <3>1, <3>2, FileRanks
    <3>4. PICK S : S = cview
      OBVIOUS
    <3>5. MadeUpFor(r, S)'
      BY <3>3, <3>4, MadeUpForStays
    <3> QED  BY <3>1, <3>4, <3>5 DEF MadeUpFor
  <2> QED  BY <2>1, <2>2
<1>7. cpc' \in {"remove", "publish"} => files'[cfile'].level = 1 /\ files'[cfile'].recs = cview'
  <2>1. CASE WriteL1
    <3>1. cfile' = Len(files) + 1 /\ files'[Len(files) + 1] = File(1, gen + 1, "complete", cview)
      BY <2>1, FilesKeep
    <3>2. cview' = cview
      BY <2>1 DEF WriteL1
    <3> QED  BY <3>1, <3>2 DEF File
  <2>2. CASE ~ WriteL1
    <3> SUFFICES ASSUME cpc' \in {"remove", "publish"}
                 PROVE  files'[cfile'].level = 1 /\ files'[cfile'].recs = cview'
      OBVIOUS
    <3>1. cpc \in {"remove", "publish"} /\ UNCHANGED <<cview, cfile>>
      BY <1>1, <1>2, <1>3, <2>2
    <3>2. cfile \in Inodes
      BY <1>t, <3>1 DEF FilesCreated
    <3> QED  BY <1>f, <1>l, <1>m, <3>1, <3>2
  <2> QED  BY <2>1, <2>2
<1>8. ASSUME NEW f \in Inodes', files'[f].level = 1
      PROVE  files'[f].linked /\ files'[f].state = "complete"
  <2>1. CASE f \in Inodes
    <3>1. files[f].level = 1 /\ files[f].linked /\ files[f].state = "complete" /\ f \notin cin
      BY <1>8, <1>l, <1>m, <2>1
    <3> QED  BY <1>f, <2>1, <3>1, NamesKeep
  <2> QED  BY <1>8, <1>n, <2>1
<1>9. InL1 \subseteq InL1'
  BY <1>f, <1>l, <1>i DEF InL1
<1>10. ASSUME NEW f \in Inodes', ~ files'[f].linked, NEW r \in Readable(f)'
       PROVE  MadeUpFor(r, InL1)'
  <2>1. f \in Inodes
    BY <1>10, <1>n
  <2>2. CASE ~ files[f].linked
    <3>1. r \in Readable(f) /\ r \in files[f].recs /\ files[f].level = 0
      <4>1. files[f].level \in {0, 1}
        BY <1>t, <2>1 DEF FileRecords
      <4> QED  BY <1>f, <1>m, <2>1, <2>2, <4>1 DEF Readable
    <3>2. r \in Settled /\ MadeUpFor(r, InL1)
      BY <1>m, <2>1, <2>2, <3>1, FileRanks
    <3>3. PICK R : R = InL1'
      OBVIOUS
    <3>4. PICK S : S = InL1
      OBVIOUS
    <3>5. MadeUpFor(r, R)'
      BY <1>9, <3>2, <3>3, <3>4, MadeUpForStays
    <3> QED  BY <3>3, <3>5 DEF MadeUpFor
  <2>3. CASE files[f].linked
    <3>1. RemoveL0 /\ f \in cin
      BY <1>10, <2>1, <2>3, NamesKeep
    <3>2. Compacting /\ cpc = "remove"
      BY <3>1 DEF RemoveL0, Compacting
    <3>3. r \in Readable(f) /\ r \in files[f].recs /\ files[f].level = 0
      BY <1>f, <1>m, <2>1, <3>1, <3>2 DEF Readable
    <3>4. r \in Settled /\ MadeUpFor(r, cview)
      BY <1>m, <2>1, <3>1, <3>2, <3>3, FileRanks
    <3>5. cview \subseteq InL1'
      <4>1. cfile \in Inodes /\ files[cfile].level = 1 /\ files[cfile].recs = cview
        BY <1>m, <1>t, <3>2 DEF FilesCreated
      <4>2. cview \subseteq InL1
        BY <4>1 DEF InL1
      <4> QED  BY <1>9, <4>2
    <3>6. PICK R : R = InL1'
      OBVIOUS
    <3>7. MadeUpFor(r, R)'
      BY <3>4, <3>5, <3>6, MadeUpForStays
    <3> QED  BY <3>6, <3>7 DEF MadeUpFor
  <2> QED  BY <2>2, <2>3
<1> QED  BY <1>4, <1>5, <1>6, <1>7, <1>8, <1>10 DEF MergesSound

\* With one flush at a time and compactions between flushes, a log goes after
\* its file is whole, file numbers grow with the age of the tables, and what a
\* merge leaves out or removes is made up for by something newer in its output
\* or by a tombstone (carina_engine.hpp:224-275, 327-356).
THEOREM InductiveMerges ==
    ASSUME Orderly
    PROVE  Spec => [](OneAtATime /\ LogsKept /\ TableFiles /\ MergesSound)
<1> DEFINE Before == Typed /\ TablesSound /\ Counted /\ FlushesSound
<1> DEFINE Inv == OneAtATime /\ LogsKept /\ TableFiles /\ MergesSound
<1>1. Init => Inv
  BY Bounds DEF Init, OneAtATime, Renewing, Flushing, Compacting, LogsKept, TableFiles, MergesSound,
                Inodes
<1>2. Before /\ Inv /\ [Next]_vars => Inv'
  BY OneAtATimeStep, LogsKeptStep, TableFilesStep, MergesSoundStep DEF Orderly
<1>3. Spec => []Before
  BY InductiveTables, InductiveFlushes, PTL DEF Orderly
<1> QED  BY <1>1, <1>2, <1>3, PTL DEF Spec

\* With one flush at a time and compactions between flushes, at every moment
\* the directory holds the newest version of each key, or one that is newer
\* still, unless that is a tombstone, even if flushes fail half-way
\* (carina_engine.hpp:244-272, 327-353).
THEOREM DirectoryCovers ==
    ASSUME Orderly
    PROVE  Spec => []DiskCovers
<1> DEFINE Inv == /\ Typed /\ TablesSound /\ FlushesSound
                  /\ LogsKept /\ TableFiles /\ MergesSound
<1>1. Inv => DiskCovers
  <2> SUFFICES ASSUME Inv, NEW k \in Keys, Newest(Settled, k) # NoRank, ~ Op(Newest(Settled, k)).del
               PROVE  \E r \in OnDisk(k) : ~ Older(r, Newest(Settled, k))
    BY DEF DiskCovers
  <2> DEFINE rank == Newest(Settled, k)
  <2>1. /\ rank \in Settled /\ Op(rank).key = k /\ rank \in Ranks
        /\ \A q \in Settled : Op(q).key = k => ~ Older(rank, q)
    <3>1. Settled \subseteq Ranks
      BY SettledTyped, TypeParts DEF Typed
    <3> QED  BY <3>1, NewestTyped DEF OfKey
  <2>2. rank # NoRank /\ ~ Op(rank).del
    OBVIOUS
  <2> HIDE DEF rank
  <2>t. /\ MemTyped /\ FlushTyped /\ DiskTyped /\ FilesCreated /\ Tables \subseteq Nat
        /\ \A g \in Inodes : files[g] \in FileRecords
    BY TypeParts, Bounds, FilesTyped DEF Typed
  <2>3. ~ Older(rank, rank)
    BY <2>1, Bounds DEF Older
  <2>4. PICK T \in Tables : rank \in RanksOf(T) /\ rank[1] = T
    BY <2>1 DEF Settled, RanksOf
  <2>5. CASE fpc[T] # "done"
    <3>1. T <= active
      <4>1. mem[T] # <<>>
        BY <2>4, <2>t DEF RanksOf, MemTyped
      <4> QED  BY <4>1, <2>t DEF TablesSound, InPlace, MemTyped
    <3>2. rank \in OnDisk(k)
      <4>1. wal[T] = "open"
        BY <2>5, <3>1 DEF LogsKept
      <4>2. rank \in UNION {RanksOf(V) : V \in {U \in Tables : wal[U] = "open"}}
        BY <2>4, <4>1
      <4> QED  BY <2>1, <4>2 DEF OnDisk, OfKey
    <3> QED  BY <2>3, <3>2 DEF rank
  <2>6. CASE fpc[T] = "done"
    <3> DEFINE f == ffile[T]
    <3>1. f \in Inodes /\ f # NoFile
      BY <2>6, <2>t, Bounds DEF FilesCreated, Created, Inodes
    <3>2. files[f].state = "complete" /\ files[f].level = 0
      BY <2>6, <3>1 DEF TableFiles, FileSound
    <3>3. rank \in files[f].recs
      <4>1. ~ InImms(T) /\ T # active
        BY <2>6, <2>t, Bounds DEF TablesSound, InPlace, MemTyped
      <4> QED  BY <2>1, <2>4, <4>1, LeftForAFile
    <3> HIDE DEF f
    <3>4. CASE files[f].linked
      <4>1. rank \in OnDisk(k)
        <5>1. f \in Linked(0)
          BY <3>1, <3>2, <3>4 DEF Linked
        <5> QED  BY <2>1, <3>2, <3>3, <5>1 DEF OnDisk, OfKey
      <4> QED  BY <2>3, <4>1 DEF rank
    <3>5. CASE ~ files[f].linked
      <4>1. PICK v \in Settled : /\ Op(v).key = k /\ ~ Older(v, rank)
                                 /\ Op(v).del \/ v \in InL1
        BY <2>1, <3>1, <3>2, <3>3, <3>5 DEF MergesSound, MadeUpFor, Readable
      <4>2. ~ Older(rank, v) /\ v \in Ranks
        BY <2>1, <4>1, <2>t, SettledTyped
      <4>3. v = rank
        BY <2>1, <4>1, <4>2, Bounds DEF Older
      <4>4. PICK g \in Inodes : files[g].level = 1 /\ v \in files[g].recs
        BY <2>2, <4>1, <4>3 DEF InL1
      <4>5. files[g].linked /\ files[g].state = "complete"
        BY <4>4 DEF MergesSound
      <4>6. v \in OnDisk(k)
        <5>1. g \in Linked(1)
          BY <4>4, <4>5 DEF Linked
        <5> QED  BY <4>1, <4>4, <4>5, <5>1 DEF OnDisk, OfKey
      <4> QED  BY <2>3, <4>3, <4>6 DEF rank
    <3> QED  BY <3>4, <3>5
  <2> QED  BY <2>5, <2>6
<1>2. Spec => []Inv
  BY InductiveTables, InductiveFlushes, InductiveMerges, PTL DEF Orderly
<1> QED  BY <1>1, <1>2, PTL

-----------------------------------------------------------------------------
(* Queries.  Without failing flushes as well, the tables and the list of   *)
(* readers are ordered by age, so that a query comes across the newest     *)
(* version of its key first.                                               *)

Sound == /\ Typed /\ TablesSound /\ Counted /\ FlushesSound
         /\ OneAtATime /\ TableFiles /\ MergesSound

NoneFails == \A T \in Tables : fpc[T] # "failed"

\* The flush of the record's table has put its file into the list.
Given == {"erase", "drop", "done"}
Published(r) ==
    r[1] \in Tables /\ fpc[r[1]] \in Given /\ r \in files[ffile[r[1]]].recs

\* A is nowhere older than B.
NewerThan(A, B) == \A r \in A, q \in B : Op(r).key = Op(q).key => ~ Older(r, q)

\* The list goes from new to old, and what a merge is about to put in front of
\* it is newer than all of it.
Recs(f) == files[f].recs
ListSound ==
    /\ \A T \in Tables : ffile[T] # NoFile /\ Listed(ffile[T]) => fpc[T] \in Given
    /\ \A f \in Inodes : Listed(f) \/ files[f].level = 1 => \A r \in Recs(f) : Published(r)
    /\ \A r \in cview : Published(r)
    /\ cpc = "idle" => cview = {}
    /\ \A j \in 1 .. Len(ssTables) : \A i \in 1 .. j - 1 :
          NewerThan(Recs(ssTables[i]), Recs(ssTables[j]))
    /\ \A f \in Inodes : Listed(f) => NewerThan(cview, Recs(f))

\* Compactions take the files of the oldest tables.
Taken(T) == ffile[T] # NoFile /\ (~ files[ffile[T]].linked \/ ffile[T] \in cin)
OldestTaken == \A T, U \in Tables : T < U /\ Taken(U) => Taken(T)

Ordered == NoneFails /\ ListSound /\ OldestTaken

LEMMA NoneFailsStep ==
    ASSUME "sst" \notin Faults, Sound, NoneFails, [Next]_vars
    PROVE  NoneFails'
<1> SUFFICES ASSUME NEW T \in Tables PROVE fpc'[T] # "failed"
  BY DEF NoneFails
<1>t. FlushTyped /\ FilesCreated
  BY TypeParts DEF Sound, Typed
<1>1. fpc[T] # "failed"
  BY DEF NoneFails
<1>2. CASE FlushStep(T)
  <2>1. ~ FlushFails(T)
    BY DEF FlushFails
  <2>2. CASE OpenReader(T)
    <3>1. T \in Flushing /\ ffile[T] # NoFile
      BY <1>t, <2>2, Bounds DEF OpenReader, Flushing, FilesCreated, Created, Inodes
    <3>2. FileSound(T)
      BY <3>1 DEF Sound, TableFiles
    <3>3. fpc[T] = "reader" /\ files[ffile[T]].linked /\ files[ffile[T]].state = "complete"
      BY <2>2, <3>1, <3>2 DEF OpenReader, FileSound
    <3>4. fpc' = [fpc EXCEPT ![T] = "publish"]
      BY <2>2, <3>3 DEF OpenReader, FGoto
    <3> QED  BY <1>t, <3>4 DEF FlushTyped
  <2>3. CASE ~ OpenReader(T)
    BY <1>t, <1>2, <2>1, <2>3 DEF FlushStep, LoadFileId, OpenFile, ScanTable, FinishFile,
                                PublishReader, EraseImmutable, DropWal, FGoto, FlushTyped
  <2> QED  BY <2>2, <2>3
<1>3. CASE ~ FlushStep(T)
  BY <1>1, <1>3, FlushMoves DEF Sound
<1> QED  BY <1>2, <1>3

\* A flush that has published its file stays so, with the same records.
LEMMA GivenStays ==
    ASSUME Sound, [Next]_vars, NEW T \in Tables, fpc[T] \in Given
    PROVE  /\ fpc'[T] \in Given /\ ffile'[T] = ffile[T] /\ ffile[T] \in Inodes
           /\ files'[ffile[T]].recs = files[ffile[T]].recs
           /\ fpc[T] \in {"drop", "done"} => fpc'[T] \in {"drop", "done"}
           /\ fpc[T] = "done" => fpc'[T] = "done"
<1>t. FlushTyped /\ FilesCreated /\ MemTyped
  BY TypeParts DEF Sound, Typed
<1>1. ffile[T] \in Inodes
  BY <1>t DEF FilesCreated, Created, Given
<1>2. ~ (T = active)
  <2>1. fpc[T] # "none"
    BY DEF Given
  <2>2. T < active
    BY <2>1 DEF Sound, TablesSound, InPlace
  <2> QED  BY <1>t, <2>2, Bounds DEF MemTyped
<1>3. FlushStep(T) => /\ fpc'[T] \in {"drop", "done"} /\ ffile'[T] = ffile[T] /\ fpc[T] # "done"
  BY <1>t DEF FlushStep, LoadFileId, OpenFile, ScanTable, FinishFile, FlushFails, OpenReader,
              PublishReader, EraseImmutable, DropWal, FGoto, FlushTyped, Given
<1>4. FlushStep(T) /\ fpc[T] = "drop" => fpc'[T] = "done"
  BY <1>t DEF FlushStep, LoadFileId, OpenFile, ScanTable, FinishFile, FlushFails, OpenReader,
              PublishReader, EraseImmutable, DropWal, FGoto, FlushTyped
<1>5. ~ FlushStep(T) => fpc'[T] = fpc[T] /\ ffile'[T] = ffile[T]
  BY <1>2, FlushMoves DEF Sound
<1>6. files'[ffile[T]].recs = files[ffile[T]].recs
  <2>1. PICK f \in Inodes : f = ffile[T]
    BY <1>1
  <2>2. ASSUME NEW U \in Tables, ScanTable(U), f = ffile[U] PROVE FALSE
    <3>1. ffile[U] # NoFile
      BY <2>1, <2>2, Bounds DEF Inodes
    <3>2. T = U
      BY <2>1, <2>2, <3>1 DEF Sound, FlushesSound, Kept
    <3> QED  BY <2>2, <3>2 DEF ScanTable, Given
  <2>3. files'[f].recs = files[f].recs
    BY <2>2, FilesKeep DEF Sound
  <2> QED  BY <2>1, <2>3
<1> QED  BY <1>1, <1>3, <1>4, <1>5, <1>6 DEF Given

LEMMA PublishedStays ==
    ASSUME Sound, [Next]_vars, NEW r, Published(r)
    PROVE  Published(r)' /\ r \in Settled /\ Op(r)' = Op(r)
<1>1. PICK T \in Tables : T = r[1] /\ fpc[T] \in Given /\ r \in files[ffile[T]].recs
  BY DEF Published
<1>2. Published(r)'
  BY <1>1, GivenStays DEF Published
<1>3. r \in Settled
  <2>1. PICK f \in Inodes : f = ffile[T]
    BY <1>1, GivenStays
  <2>2. f # NoFile
    BY <2>1, Bounds DEF Inodes
  <2>3. files[f].level = 0
    BY <1>1, <2>1, <2>2 DEF Sound, TableFiles, FileSound
  <2> QED  BY <1>1, <2>1, <2>3, FileRanks DEF Sound
<1>4. Op(r)' = Op(r)
  BY <1>3, SettledGrows DEF Op, Sound
<1> QED  BY <1>2, <1>3, <1>4

LEMMA NewerStays ==
    ASSUME Sound, [Next]_vars, NEW A, NEW B, \A r \in A \cup B : Published(r), NewerThan(A, B)
    PROVE  NewerThan(A, B)'
<1> SUFFICES ASSUME NEW r \in A, NEW q \in B, Op(r)'.key = Op(q)'.key PROVE ~ Older(r, q)
  BY DEF NewerThan
<1>1. Op(r)' = Op(r) /\ Op(q)' = Op(q)
  BY PublishedStays
<1> QED  BY <1>1 DEF NewerThan

\* What a step does to the list of readers.
LEMMA ListMoves ==
    ASSUME Sound, [Next]_vars
    PROVE  \/ UNCHANGED ssTables
           \/ \E T \in Tables :
                 /\ fpc[T] = "publish" /\ fpc'[T] = "erase" /\ UNCHANGED <<files, ffile, compactVars>>
                 /\ ssTables' = <<ffile[T]>> \o ssTables
           \/ /\ cpc = "publish" /\ cview' = {} /\ ssTables' = <<cfile>> \o ssTables
              /\ UNCHANGED <<files, flushVars>>
<1>t. FlushTyped
  BY TypeParts DEF Sound, Typed
<1>1. ASSUME NEW T \in Tables, PublishReader(T)
      PROVE  /\ fpc[T] = "publish" /\ fpc'[T] = "erase" /\ UNCHANGED <<files, ffile, compactVars>>
             /\ ssTables' = <<ffile[T]>> \o ssTables
  BY <1>t, <1>1 DEF PublishReader, FGoto, FlushTyped
<1>2. PublishL1 => /\ cpc = "publish" /\ cview' = {} /\ ssTables' = <<cfile>> \o ssTables
                   /\ UNCHANGED <<files, flushVars>>
  BY DEF PublishL1
<1>3. \/ UNCHANGED diskVars
      \/ \E T \in Tables : OpenFile(T) \/ ScanTable(T) \/ FinishFile(T) \/ PublishReader(T)
      \/ WriteL1 \/ RemoveL0 \/ PublishL1
  BY Frame
<1>4. \A T \in Tables : OpenFile(T) \/ ScanTable(T) \/ FinishFile(T) => UNCHANGED ssTables
  BY DEF OpenFile, ScanTable, FinishFile
<1>5. WriteL1 \/ RemoveL0 => UNCHANGED ssTables
  BY DEF WriteL1, RemoveL0
<1>6. UNCHANGED diskVars => UNCHANGED ssTables
  BY DEF diskVars
<1> QED  BY <1>1, <1>2, <1>3, <1>4, <1>5, <1>6

LEMMA InFront ==
    ASSUME NEW f, NEW S, NEW s \in Seq(S)
    PROVE  /\ Len(<<f>> \o s) = Len(s) + 1 /\ (<<f>> \o s)[1] = f
           /\ \A i \in 1 .. Len(s) : (<<f>> \o s)[i + 1] = s[i]
           /\ \A i \in 2 .. Len(s) + 1 : (<<f>> \o s)[i] = s[i - 1] /\ i - 1 \in 1 .. Len(s)
OBVIOUS

\* A file that is in the list, or holds the result of a merge, keeps its records.
LEMMA RecsStay ==
    ASSUME Sound, ListSound, [Next]_vars, NEW f \in Inodes, Listed(f) \/ files[f].level = 1
    PROVE  Recs(f)' = Recs(f) /\ \A r \in Recs(f) : Published(r)
<1>1. ASSUME NEW T \in Tables, ScanTable(T), f = ffile[T] PROVE FALSE
  <2>1. f # NoFile /\ fpc[T] = "scan"
    BY <1>1, Bounds DEF Inodes, ScanTable
  <2>2. ~ Listed(f)
    BY <1>1, <2>1 DEF ListSound, Given
  <2>3. files[f].level = 0
    BY <1>1, <2>1 DEF Sound, TableFiles, FileSound
  <2> QED  BY <2>2, <2>3
<1>2. Recs(f)' = Recs(f)
  BY <1>1, FilesKeep DEF Sound, Recs
<1> QED  BY <1>2 DEF ListSound

LEMMA ListedStay ==
    ASSUME Sound, ListSound, [Next]_vars, NEW T \in Tables, NEW f, f = ffile'[T], f # NoFile,
           Listed(f)'
    PROVE  fpc'[T] \in Given
<1>t. FlushTyped /\ FilesCreated /\ DiskTyped
  BY TypeParts DEF Sound, Typed
<1>1. CASE Listed(f)
  <2>1. f \in Inodes
    BY <1>1, <1>t, FilesTyped DEF Listed
  <2>2. ffile[T] = f
    <3>1. ~ OpenFile(T)
      <4>1. OpenFile(T) => f = Len(files) + 1
        BY FilesKeep DEF Sound
      <4> QED  BY <2>1, <4>1, <1>t, FilesTyped
    <3>2. FlushStep(T) => ffile'[T] = ffile[T]
      BY <3>1 DEF FlushStep, LoadFileId, ScanTable, FinishFile, FlushFails, OpenReader,
                  PublishReader, EraseImmutable, DropWal
    <3> QED  BY <3>2, FlushMoves DEF Sound
  <2>3. fpc[T] \in Given
    BY <1>1, <2>2 DEF ListSound
  <2> QED  BY <2>3, GivenStays
<1>2. CASE ~ Listed(f)
  <2>1. \E i \in 1 .. Len(ssTables') : ssTables'[i] = f
    BY DEF Listed
  <2>2. ssTables' # ssTables
    BY <1>2, <2>1 DEF Listed
  <2>3. ASSUME NEW U \in Tables, fpc[U] = "publish", fpc'[U] = "erase", UNCHANGED ffile,
               ssTables' = <<ffile[U]>> \o ssTables
        PROVE  fpc'[T] \in Given
    <3>1. f = ffile[U]
      BY <1>2, <2>1, <2>3, <1>t, InFront DEF Listed, DiskTyped
    <3>2. T = U
      BY <2>3, <3>1 DEF Sound, FlushesSound, Kept
    <3> QED  BY <2>3, <3>2 DEF Given
  <2>4. ASSUME cpc = "publish", ssTables' = <<cfile>> \o ssTables, UNCHANGED ffile
        PROVE  FALSE
    <3>1. f = cfile
      BY <1>2, <2>1, <2>4, <1>t, InFront DEF Listed, DiskTyped
    <3>2. files[f].level = 1
      BY <2>4, <3>1 DEF Sound, MergesSound
    <3>3. files[f].level = 0
      BY <2>4, <3>1 DEF Sound, TableFiles, FileSound
    <3> QED  BY <3>2, <3>3
  <2> QED  BY <2>2, <2>3, <2>4, ListMoves DEF flushVars
<1> QED  BY <1>1, <1>2

\* A file that a flush publishes is newer than those in the list.
LEMMA FrontIsNewer ==
    ASSUME Sound, ListSound, NEW T \in Tables, fpc[T] = "publish", NEW f, f = ffile[T]
    PROVE  /\ f \in Inodes /\ \A r \in Recs(f) : r[1] = T
           /\ \A g \in Inodes : Listed(g) => NewerThan(Recs(f), Recs(g))
<1>t. FilesCreated /\ Tables \subseteq Nat
  BY Bounds DEF Sound, Typed
<1>1. f \in Inodes
  BY <1>t DEF FilesCreated, Created
<1>2. \A r \in Recs(f) : r[1] = T
  BY DEF Sound, FlushesSound, Kept, Written, Scanned, Recs
<1>3. ASSUME NEW g \in Inodes, Listed(g), NEW r \in Recs(f), NEW q \in Recs(g) PROVE ~ Older(r, q)
  <2>1. PICK U \in Tables : U = q[1] /\ fpc[U] \in Given
    BY <1>3 DEF ListSound, Published
  <2>2. U # T /\ ~ (T < U)
    BY <2>1 DEF Given, Sound, OneAtATime
  <2> QED  BY <1>2, <1>3, <1>t, <2>1, <2>2 DEF Older
<1> QED  BY <1>1, <1>2, <1>3 DEF NewerThan

LEMMA RecordsStep ==
    ASSUME Sound, ListSound, [Next]_vars, NEW f \in Inodes', Listed(f)' \/ files'[f].level = 1
    PROVE  \A r \in Recs(f)' : Published(r)'
<1>t. FlushTyped /\ DiskTyped /\ Len(files) \in Nat /\ Inodes = 1 .. Len(files)
  BY TypeParts, FilesTyped DEF Sound, Typed
<1>0. Len(files') \in Nat /\ Inodes' = 1 .. Len(files')
  BY DiskStep DEF Sound, Inodes
<1>1. CASE f \in Inodes /\ (Listed(f) \/ files[f].level = 1)
  BY <1>1, RecsStay, PublishedStays
<1>2. CASE f \in Inodes /\ ~ (Listed(f) \/ files[f].level = 1)
  <2>1. Listed(f)' /\ ~ Listed(f)
    BY <1>2, FilesKeep DEF Sound
  <2>2. (\E i \in 1 .. Len(ssTables') : ssTables'[i] = f) /\ ssTables' # ssTables
    BY <2>1 DEF Listed
  <2>3. ASSUME NEW U \in Tables, fpc[U] = "publish", fpc'[U] = "erase", UNCHANGED <<files, ffile>>,
               ssTables' = <<ffile[U]>> \o ssTables
        PROVE  \A r \in Recs(f)' : Published(r)'
    <3>1. f = ffile[U]
      BY <2>1, <2>2, <2>3, <1>t, InFront DEF Listed, DiskTyped
    <3>2. Recs(f)' = files'[f].recs /\ Recs(f) = files[f].recs /\ files' = files /\ ffile' = ffile
      BY <2>3 DEF Recs
    <3>3. \A r \in Recs(f) : r[1] = U
      BY <2>3, <3>1, FrontIsNewer
    <3> QED  BY <2>3, <3>1, <3>2, <3>3 DEF Published, Given
  <2>4. ASSUME cpc = "publish", ssTables' = <<cfile>> \o ssTables PROVE FALSE
    <3>1. f = cfile
      BY <2>1, <2>2, <2>4, <1>t, InFront DEF Listed, DiskTyped
    <3> QED  BY <1>2, <2>4, <3>1 DEF Sound, MergesSound
  <2> QED  BY <2>2, <2>3, <2>4, ListMoves
<1>3. CASE f \notin Inodes
  <2>1. Len(files') # Len(files)
    BY <1>0, <1>3, <1>t
  <2>2. CASE WriteL1
    <3>1. f = Len(files) + 1 /\ files'[f] = File(1, gen + 1, "complete", cview)
      BY <1>0, <1>3, <1>t, <2>2, FilesKeep DEF Sound
    <3>2. Recs(f)' = cview
      BY <3>1 DEF Recs, File
    <3> QED  BY <3>2, PublishedStays DEF ListSound
  <2>3. ASSUME NEW T \in Tables, OpenFile(T) PROVE Recs(f)' = {}
    <3>1. f = Len(files) + 1 /\ files'[f] = File(0, gen + 1, "empty", {})
      BY <1>0, <1>3, <1>t, <2>3, FilesKeep DEF Sound
    <3> QED  BY <3>1 DEF Recs, File
  <2> QED  BY <2>1, <2>2, <2>3, FilesKeep DEF Sound
<1> QED  BY <1>1, <1>2, <1>3

\* A merge begins when no flush is under way.
LEMMA MergeBegins ==
    ASSUME Orderly, Sound, NoneFails, ScanL0, NEW T \in Tables, ffile[T] # NoFile
    PROVE  /\ fpc[T] = "done" /\ ffile[T] \in Inodes
           /\ files[ffile[T]].state = "complete" /\ files[ffile[T]].level = 0
           /\ Recs(ffile[T]) = Scanned(T)
<1>1. Flushing = {}
  BY DEF ScanL0, Orderly
<1>2. fpc[T] \in {"none", "done", "failed"}
  BY <1>1 DEF Flushing
<1>3. fpc[T] = "done"
  BY <1>2 DEF NoneFails, Sound, FlushesSound, Kept
<1>4. ffile[T] \in Inodes
  BY <1>3 DEF Sound, Typed, FilesCreated, Created
<1>5. FileSound(T)
  BY DEF Sound, TableFiles
<1>6. Recs(ffile[T]) = Scanned(T)
  BY <1>3 DEF Sound, FlushesSound, Kept, Written, Recs
<1> QED  BY <1>3, <1>4, <1>5, <1>6 DEF FileSound

\* What is in the output of a merge.
LEMMA MergedIs ==
    ASSUME Sound, NEW v \in Merged(Linked(0))
    PROVE  /\ v = Winner(Linked(0), Op(v).key)
           /\ \E g \in Linked(0) : v \in Readable(g) /\ v \in Recs(g)
<1>t. DiskTyped /\ Linked(0) \subseteq Inodes
  BY TypeParts DEF Sound, Typed, Linked
<1>1. PICK k \in Keys : v = Winner(Linked(0), k) /\ \E f \in Linked(0) : HasKey(f, k)
  BY DEF Merged
<1>2. PICK g \in Linked(0) : HasKey(g, k) /\ Winner(Linked(0), k) = Newest(Readable(g), k)
  BY <1>1, <1>t, WinnerIs
<1>3. v \in OfKey(Readable(g), k)
  BY <1>1, <1>2, <1>t, ReadableTyped, NewestTyped DEF HasKey
<1> QED  BY <1>1, <1>3 DEF OfKey, Readable, Recs

LEMMA ViewStep ==
    ASSUME Orderly, Sound, NoneFails, ListSound, [Next]_vars
    PROVE  (\A r \in cview' : Published(r)') /\ (cpc' = "idle" => cview' = {})
<1>1. CASE UNCHANGED cview
  BY <1>1, PublishedStays, CompactMoves DEF ListSound, Sound
<1>2. CASE ScanL0 /\ cpc' # cpc
  <2>1. cview' = Merged(Linked(0)) /\ cpc' = "id" /\ UNCHANGED <<files, fpc, ffile>>
    BY <1>2, CompactMoves DEF Sound
  <2>2. ASSUME NEW v \in Merged(Linked(0)) PROVE Published(v)'
    <3>1. PICK g \in Linked(0) : v \in Recs(g)
      BY MergedIs
    <3>2. PICK T \in Tables : ffile[T] = g /\ g # NoFile /\ \A r \in files[g].recs : r[1] = T
      BY FileRanks DEF Linked, Sound
    <3>3. fpc[T] = "done"
      BY <1>2, <3>2, MergeBegins
    <3>4. Published(v)
      BY <3>1, <3>2, <3>3 DEF Published, Given, Recs
    <3> QED  BY <3>4, PublishedStays
  <2> QED  BY <2>1, <2>2
<1>3. CASE PublishL1
  BY <1>3 DEF PublishL1
<1> QED  BY <1>1, <1>2, <1>3, CompactMoves DEF Sound

LEMMA OrderStep ==
    ASSUME Sound, ListSound, [Next]_vars, NEW j \in 1 .. Len(ssTables'), NEW i \in 1 .. j - 1
    PROVE  NewerThan(Recs(ssTables[i]), Recs(ssTables[j]))'
<1>t. FilesCreated /\ DiskTyped /\ Len(ssTables) \in Nat /\ ssTables \in [1 .. Len(ssTables) -> Inodes]
  BY TypeParts, FilesTyped DEF Sound, Typed
<1>a. \A n \in 1 .. Len(ssTables) : ssTables[n] \in Inodes /\ Listed(ssTables[n])
  BY <1>t DEF Listed
<1>b. ASSUME NEW f \in Inodes, NEW g \in Inodes, Listed(f) \/ files[f].level = 1, Listed(g),
             NewerThan(Recs(f), Recs(g)), ssTables'[i] = f, ssTables'[j] = g
      PROVE  NewerThan(Recs(ssTables[i]), Recs(ssTables[j]))'
  <2> DEFINE A == Recs(f)
             B == Recs(g)
  <2>1. \A r \in A \cup B : Published(r)
    BY <1>b, RecsStay
  <2>2. A = files'[ssTables'[i]].recs /\ B = files'[ssTables'[j]].recs
    BY <1>b, RecsStay DEF Recs
  <2>3. NewerThan(A, B)
    BY <1>b
  <2>4. PICK C : C = A
    OBVIOUS
  <2>5. PICK D : D = B
    OBVIOUS
  <2>6. NewerThan(C, D) /\ \A r \in C \cup D : Published(r)
    BY <2>1, <2>3, <2>4, <2>5
  <2>7. NewerThan(C, D)'
    BY <2>6, NewerStays
  <2> QED  BY <2>2, <2>4, <2>5, <2>7 DEF NewerThan, Recs
<1>1. CASE ssTables' = ssTables
  <2>1. NewerThan(Recs(ssTables[i]), Recs(ssTables[j]))
    BY <1>1 DEF ListSound
  <2>2. i \in 1 .. Len(ssTables) /\ j \in 1 .. Len(ssTables)
    BY <1>1, <1>t
  <2> QED  BY <1>1, <1>a, <1>b, <2>1, <2>2
<1>2. ASSUME NEW f \in Inodes, ssTables' = <<f>> \o ssTables, Listed(f) \/ files[f].level = 1 \/ i > 1,
             \A g \in Inodes : Listed(g) => NewerThan(Recs(f), Recs(g))
      PROVE  NewerThan(Recs(ssTables[i]), Recs(ssTables[j]))'
  <2>1. /\ j \in 2 .. Len(ssTables) + 1 /\ j - 1 \in 1 .. Len(ssTables)
        /\ ssTables'[j] = ssTables[j - 1] /\ ssTables'[1] = f
    BY <1>2, <1>t, InFront DEF DiskTyped
  <2>2. CASE i = 1
    BY <1>2, <1>a, <1>b, <2>1, <2>2
  <2>3. CASE i # 1
    <3>1. i - 1 \in 1 .. (j - 1) - 1 /\ i - 1 \in 1 .. Len(ssTables) /\ ssTables'[i] = ssTables[i - 1]
      BY <1>2, <1>t, <2>1, <2>3, InFront DEF DiskTyped
    <3>2. NewerThan(Recs(ssTables[i - 1]), Recs(ssTables[j - 1]))
      BY <2>1, <3>1 DEF ListSound
    <3> QED  BY <1>a, <1>b, <2>1, <3>1, <3>2
  <2> QED  BY <2>2, <2>3
<1>3. ASSUME NEW T \in Tables, fpc[T] = "publish", fpc'[T] = "erase", UNCHANGED files,
             UNCHANGED ffile, ssTables' = <<ffile[T]>> \o ssTables
      PROVE  NewerThan(Recs(ssTables[i]), Recs(ssTables[j]))'
  <2>1. PICK f : f = ffile[T]
    OBVIOUS
  <2>2. f \in Inodes /\ (\A g \in Inodes : Listed(g) => NewerThan(Recs(f), Recs(g)))
        /\ \A r \in Recs(f) : r[1] = T
    BY <1>3, <2>1, FrontIsNewer
  <2>3. CASE i > 1
    BY <1>2, <1>3, <2>1, <2>2, <2>3
  <2>4. CASE i = 1
    <3>1. /\ j \in 2 .. Len(ssTables) + 1 /\ j - 1 \in 1 .. Len(ssTables)
          /\ ssTables'[j] = ssTables[j - 1] /\ ssTables'[1] = f
      BY <1>3, <1>t, <2>1, InFront DEF DiskTyped
    <3>2. PICK g \in Inodes : g = ssTables[j - 1] /\ Listed(g)
      BY <1>a, <3>1
    <3> DEFINE A == Recs(f)
               B == Recs(g)
    <3>3. NewerThan(A, B)
      BY <2>2, <3>2
    <3>4. Recs(f)' = A /\ Recs(g)' = B
      BY <1>3 DEF Recs
    <3>5. \A r \in B : Published(r)
      BY <3>2, RecsStay
    <3>6. \A r \in A : r \in Settled
      <4>1. f # NoFile
        BY <2>2, Bounds DEF Inodes
      <4>2. files[f].level = 0
        BY <2>1, <4>1 DEF Sound, TableFiles, FileSound
      <4> QED  BY <2>2, <4>2, FileRanks DEF Sound, Recs
    <3>7. \A r \in A \cup B : Op(r)' = Op(r)
      <4>1. \A r \in A : Op(r)' = Op(r)
        BY <3>6, SettledGrows DEF Op, Sound
      <4> QED  BY <3>5, <4>1, PublishedStays
    <3>8. files'[f].recs = A /\ files'[g].recs = B
      BY <3>4 DEF Recs
    <3> HIDE DEF A, B
    <3>9. files'[ssTables'[i]].recs = A /\ files'[ssTables'[j]].recs = B
      BY <2>4, <3>1, <3>2, <3>8
    <3> QED  BY <3>3, <3>7, <3>9 DEF NewerThan, Recs
  <2> QED  BY <2>3, <2>4, <1>t
<1>4. ASSUME cpc = "publish", ssTables' = <<cfile>> \o ssTables
      PROVE  NewerThan(Recs(ssTables[i]), Recs(ssTables[j]))'
  <2>1. PICK f \in Inodes : f = cfile
    BY <1>4, <1>t DEF FilesCreated
  <2>2. files[f].level = 1 /\ Recs(f) = cview
    BY <1>4, <2>1 DEF Sound, MergesSound, Recs
  <2>3. \A g \in Inodes : Listed(g) => NewerThan(Recs(f), Recs(g))
    BY <2>2 DEF ListSound
  <2> QED  BY <1>2, <1>4, <2>1, <2>2, <2>3
<1> QED  BY <1>1, <1>3, <1>4, ListMoves

\* The output of a merge that begins is newer than every file in the list.
LEMMA MergeIsNewer ==
    ASSUME Orderly, Sound, Ordered, ScanL0, NEW f \in Inodes, Listed(f)
    PROVE  NewerThan(Merged(Linked(0)), Recs(f))
<1>t. Tables \subseteq Nat /\ (cin = {})
  BY Bounds DEF ScanL0, Sound, MergesSound
<1> SUFFICES ASSUME NEW v \in Merged(Linked(0)), NEW q \in Recs(f), Op(v).key = Op(q).key
             PROVE  ~ Older(v, q)
  BY DEF NewerThan
<1>1. PICK U \in Tables : U = q[1] /\ fpc[U] \in Given /\ q \in files[ffile[U]].recs
  BY DEF Ordered, ListSound, Published
<1>2. PICK h \in Inodes : h = ffile[U] /\ h # NoFile
  BY <1>1, Bounds DEF Sound, Typed, FilesCreated, Created, Given, Inodes
<1>3. files[h].state = "complete" /\ files[h].level = 0
  BY <1>1, <1>2, MergeBegins DEF Ordered
<1>4. CASE files[h].linked
  <2>1. h \in Linked(0) /\ q \in Readable(h)
    BY <1>1, <1>2, <1>3, <1>4 DEF Linked, Readable
  <2>2. v = Winner(Linked(0), Op(q).key)
    BY MergedIs
  <2> QED  BY <2>1, <2>2, WinnerNewest DEF Sound
<1>5. CASE ~ files[h].linked
  <2>1. PICK g \in Linked(0) : v \in Recs(g)
    BY MergedIs
  <2>2. PICK V \in Tables : ffile[V] = g /\ g # NoFile /\ \A r \in files[g].recs : r[1] = V
    BY FileRanks DEF Linked, Sound
  <2>3. files[g].linked
    BY DEF Linked
  <2>4. ~ Taken(V) /\ Taken(U)
    BY <1>2, <1>5, <1>t, <2>2, <2>3 DEF Taken
  <2>5. ~ (V < U) /\ V # U
    BY <2>4 DEF Ordered, OldestTaken
  <2> QED  BY <1>1, <1>t, <2>1, <2>2, <2>5 DEF Older, Recs
<1> QED  BY <1>4, <1>5

LEMMA ViewNewerStep ==
    ASSUME Orderly, Sound, Ordered, [Next]_vars, NEW f \in Inodes', Listed(f)'
    PROVE  NewerThan(cview, Recs(f))'
<1>t. DiskTyped
  BY TypeParts DEF Sound, Typed
<1>1. CASE cview' = {}
  BY <1>1 DEF NewerThan
<1>2. CASE cview' # {}
  <2>1. f \in Inodes /\ Listed(f) /\ Recs(f) = files'[f].recs /\ \A r \in Recs(f) : Published(r)
    <3>1. Listed(f)
      <4>1. ASSUME NEW T \in Tables, fpc[T] = "publish", UNCHANGED cview PROVE FALSE
        <5>1. T \in Flushing
          BY <4>1 DEF Flushing
        <5>2. ~ Compacting
          BY <5>1 DEF Sound, OneAtATime
        <5> QED  BY <1>2, <4>1, <5>2 DEF Compacting, Ordered, ListSound
      <4>2. UNCHANGED ssTables
        BY <1>2, <4>1, ListMoves DEF Ordered, compactVars
      <4> QED  BY <4>2 DEF Listed
    <3>2. f \in Inodes
      BY <3>1, <1>t, FilesTyped DEF Listed
    <3> QED  BY <3>1, <3>2, RecsStay DEF Ordered, Recs
  <2>2. PICK B : B = Recs(f)
    OBVIOUS
  <2>3. CASE UNCHANGED cview
    <3>1. PICK A : A = cview
      OBVIOUS
    <3>2. NewerThan(A, B) /\ \A r \in A \cup B : Published(r)
      BY <2>1, <2>2, <3>1 DEF Ordered, ListSound
    <3>3. NewerThan(A, B)'
      BY <3>2, NewerStays DEF Ordered
    <3> QED  BY <2>1, <2>2, <2>3, <3>1, <3>3 DEF NewerThan, Recs
  <2>4. CASE ScanL0 /\ cpc' # cpc
    <3>1. PICK A : A = Merged(Linked(0))
      OBVIOUS
    <3>2. cview' = A /\ UNCHANGED mem
      BY <2>4, <3>1, CompactMoves DEF Sound
    <3>3. NewerThan(A, B)
      BY <2>1, <2>2, <2>4, <3>1, MergeIsNewer
    <3>4. NewerThan(A, B)'
      BY <3>2, <3>3 DEF NewerThan, Op
    <3> QED  BY <2>1, <2>2, <3>2, <3>4 DEF NewerThan, Recs
  <2>5. CASE PublishL1
    BY <1>2, <2>5 DEF PublishL1
  <2> QED  BY <2>3, <2>4, <2>5, CompactMoves DEF Sound
<1> QED  BY <1>1, <1>2

LEMMA ListSoundStep ==
    ASSUME Orderly, Sound, Ordered, [Next]_vars
    PROVE  ListSound'
<1> USE DEF Ordered
<1>1. \A T \in Tables : ffile'[T] # NoFile /\ Listed(ffile[T])' => fpc'[T] \in Given
  <2> SUFFICES ASSUME NEW T \in Tables, ffile'[T] # NoFile, Listed(ffile[T])'
               PROVE  fpc'[T] \in Given
    OBVIOUS
  <2>1. PICK f : f = ffile'[T]
    OBVIOUS
  <2>2. Listed(f)'
    BY <2>1 DEF Listed
  <2> QED  BY <2>1, <2>2, ListedStay
<1>2. \A f \in Inodes' : Listed(f)' \/ files'[f].level = 1 => \A r \in Recs(f)' : Published(r)'
  BY RecordsStep
<1>3. (\A r \in cview' : Published(r)') /\ (cpc' = "idle" => cview' = {})
  BY ViewStep
<1>4. \A j \in 1 .. Len(ssTables') : \A i \in 1 .. j - 1 :
        NewerThan(Recs(ssTables[i]), Recs(ssTables[j]))'
  BY OrderStep
<1>5. \A f \in Inodes' : Listed(f)' => NewerThan(cview, Recs(f))'
  BY ViewNewerStep
<1> QED  BY <1>1, <1>2, <1>3, <1>4, <1>5 DEF ListSound

LEMMA OldestTakenStep ==
    ASSUME Orderly, Sound, Ordered, [Next]_vars
    PROVE  OldestTaken'
<1> SUFFICES ASSUME NEW T \in Tables, NEW U \in Tables, T < U, Taken(U)'
             PROVE  Taken(T)'
  BY DEF OldestTaken
<1>t. FlushTyped /\ DiskTyped /\ CompactTyped /\ FilesCreated
  BY TypeParts DEF Sound, Typed
<1>1. PICK g : g = ffile'[U] /\ g # NoFile /\ (~ files'[g].linked \/ g \in cin')
  BY DEF Taken
<1>c. UNCHANGED cin \/ RemoveL0 \/ (ScanL0 /\ cpc' # cpc)
  BY CompactMoves DEF Sound
<1>2. CASE ScanL0 /\ cpc' # cpc
  <2>1. cin' = Linked(0) /\ UNCHANGED <<files, fpc, ffile>>
    BY <1>2, CompactMoves DEF Sound
  <2>2. fpc[U] = "done"
    BY <1>1, <1>2, <2>1, MergeBegins DEF Ordered
  <2>3. fpc[T] = "done"
    BY <2>2 DEF Sound, OneAtATime, Ordered, NoneFails
  <2>4. PICK f \in Inodes : f = ffile[T] /\ f # NoFile
    BY <2>3, <1>t, Bounds DEF FilesCreated, Created, Inodes
  <2>5. files[f].level = 0
    BY <2>4 DEF Sound, TableFiles, FileSound
  <2>6. ffile'[T] = f /\ (~ files'[f].linked \/ f \in cin')
    BY <2>1, <2>4, <2>5 DEF Linked
  <2> QED  BY <2>4, <2>6 DEF Taken
<1>3. CASE ~ (ScanL0 /\ cpc' # cpc)
  <2>1. cin' \subseteq cin
    BY <1>3, <1>c, CompactMoves DEF Sound
  <2>2. ~ OpenFile(U)
    <3>1. SUFFICES ASSUME OpenFile(U) PROVE FALSE
      OBVIOUS
    <3>2. g = Len(files) + 1 /\ files'[g] = File(0, gen + 1, "empty", {})
      BY <1>1, <3>1, FilesKeep DEF Sound
    <3>3. files'[g].linked
      BY <3>2 DEF File
    <3>4. g \notin cin'
      BY <1>t, <2>1, <3>2, FilesTyped DEF CompactTyped
    <3> QED  BY <1>1, <3>3, <3>4
  <2>3. \A V \in Tables : ~ OpenFile(V) => ffile'[V] = ffile[V]
    <3> SUFFICES ASSUME NEW V \in Tables, ~ OpenFile(V) PROVE ffile'[V] = ffile[V]
      OBVIOUS
    <3>1. FlushStep(V) => ffile'[V] = ffile[V]
      BY DEF FlushStep, LoadFileId, ScanTable, FinishFile, FlushFails, OpenReader,
             PublishReader, EraseImmutable, DropWal
    <3> QED  BY <3>1, FlushMoves DEF Sound
  <2>4. ffile[U] = g /\ g \in Inodes
    BY <1>1, <1>t, <2>2, <2>3 DEF FlushTyped
  <2>5. Taken(U)
    <3>1. files'[g].linked = files[g].linked \/ (RemoveL0 /\ g \in cin)
      BY <2>4, NamesKeep DEF Sound
    <3> QED  BY <1>1, <2>1, <2>4, <3>1 DEF Taken
  <2>6. Taken(T)
    BY <2>5 DEF Ordered, OldestTaken
  <2>7. PICK f : f = ffile[T] /\ f # NoFile /\ (~ files[f].linked \/ f \in cin)
    BY <2>6 DEF Taken
  <2>8. f \in Inodes /\ ffile'[T] = f
    <3>1. OpenFile(T) => ffile[T] = NoFile
      BY DEF OpenFile, Sound, FlushesSound, Kept
    <3> QED  BY <1>t, <2>3, <2>7, <3>1 DEF FlushTyped
  <2>9. ~ files'[f].linked \/ f \in cin'
    <3>1. CASE ~ files[f].linked
      BY <2>8, <3>1, NamesKeep DEF Sound
    <3>2. CASE f \in cin /\ f \notin cin'
      <4>1. RemoveL0
        BY <1>3, <1>c, <3>2
      <4> QED  BY <2>8, <3>2, <4>1, NamesKeep DEF Sound
    <3> QED  BY <2>7, <3>1, <3>2
  <2> QED  BY <2>7, <2>8, <2>9 DEF Taken
<1> QED  BY <1>2, <1>3

\* What a walk along sets of ranks answers.
LEMMA FirstHitIs ==
    ASSUME NEW n \in Nat, NEW S, \A i \in 1 .. n : S[i] \subseteq Ranks, Len(S) = n, NEW k
    PROVE  \/ FirstHit(S, k) = NoRank /\ \A i \in 1 .. n : OfKey(S[i], k) = {}
           \/ \E i \in 1 .. n : /\ FirstHit(S, k) = Newest(S[i], k) /\ OfKey(S[i], k) # {}
                                /\ \A j \in 1 .. n : OfKey(S[j], k) # {} => i <= j
<1> DEFINE hits == {i \in 1 .. Len(S) : Newest(S[i], k) # NoRank}
<1>0. \A i \in 1 .. n : i \in hits <=> (OfKey(S[i], k) # {})
  BY NewestTyped
<1>1. CASE hits = {}
  BY <1>0, <1>1 DEF FirstHit
<1>2. CASE hits # {}
  <2>1. hits \subseteq 1 .. n /\ hits \subseteq Nat
    OBVIOUS
  <2> DEFINE first == CHOOSE i \in hits : \A j \in hits : i <= j
  <2>2. FirstHit(S, k) = Newest(S[first], k)
    BY <1>2 DEF FirstHit
  <2>3. first \in hits /\ \A j \in hits : first <= j
    <3> HIDE DEF hits
    <3>1. \E i \in hits : \A j \in hits : i <= j
      BY <1>2, <2>1, LeastOf
    <3> QED  BY <3>1
  <2> HIDE DEF first, hits
  <2> QED  BY <1>0, <2>1, <2>2, <2>3
<1> QED  BY <1>1, <1>2

\* Where the version that a query must not miss can still be, and that the
\* answer is not older.
QuerySound(loc, k, floor, res) ==
    /\ loc # "idle" /\ floor # NoRank => floor \in Settled /\ Op(floor).key = k
    /\ loc \in {"imms", "files"} /\ floor # NoRank => floor[1] < active
    /\ loc = "files" /\ floor # NoRank => fpc[floor[1]] \in {"drop", "done"}
    /\ loc = "done" => ~ Older(res, floor)
QueriesSound == \A r \in Readers : QuerySound(rpc[r], rkey[r], rfloor[r], rres[r])

LEMMA QuerySoundStays ==
    ASSUME Sound, [Next]_vars, NEW loc, NEW k, NEW floor, NEW res, QuerySound(loc, k, floor, res)
    PROVE  QuerySound(loc, k, floor, res)'
<1>1. CASE loc = "idle" \/ floor = NoRank
  BY <1>1 DEF QuerySound
<1>2. CASE loc # "idle" /\ floor # NoRank
  <2>1. floor \in Settled' /\ Op(floor)' = Op(floor) /\ floor[1] \in Tables
    BY <1>2, SettledGrows DEF QuerySound, Op, Sound
  <2>2. loc \in {"imms", "files"} => floor[1] < active'
    <3>1. active \in Nat /\ active' \in Nat /\ active <= active' /\ floor[1] \in Nat
      BY <2>1, WritersStep, TypeParts, Bounds DEF Sound, Typed, MemTyped
    <3> QED  BY <1>2, <3>1 DEF QuerySound
  <2>3. loc = "files" => fpc'[floor[1]] \in {"drop", "done"}
    <3>1. PICK T \in Tables : T = floor[1]
      BY <2>1
    <3> QED  BY <1>2, <3>1, GivenStays DEF QuerySound, Given
  <2> QED  BY <1>2, <2>1, <2>2, <2>3 DEF QuerySound
<1> QED  BY <1>1, <1>2

\* At most one table waits in imms, and what has left it before is older.
LEMMA OneImmutable ==
    ASSUME Sound, NoneFails, NEW T \in Tables, InImms(T), NEW U \in Tables
    PROVE  /\ InImms(U) => U = T
           /\ U < active /\ ~ InImms(U) => U < T
<1>t. active \in Nat /\ Tables \subseteq Nat
  BY Bounds, TypeParts DEF Sound, Typed, MemTyped
<1>1. ASSUME NEW V \in Tables, InImms(V)
      PROVE  \/ V < active /\ V \in Flushing /\ fpc[V] \notin {"drop", "done"}
             \/ V = active /\ Flushing = {}
  <2>1. CASE V < active
    <3>1. fpc[V] \notin {"none", "drop", "done", "failed"}
      <4>1. InPlace(V) /\ V # active
        BY <1>t, <2>1 DEF Sound, TablesSound
      <4>2. fpc[V] # "none" /\ fpc[V] \notin {"drop", "done"}
        BY <1>1, <2>1, <4>1 DEF InPlace
      <4> QED  BY <4>2 DEF NoneFails
    <3> QED  BY <2>1, <3>1 DEF Flushing
  <2>2. CASE ~ (V < active)
    BY <1>1, <2>2 DEF Sound, TablesSound, InPlace, OneAtATime
  <2> QED  BY <2>1, <2>2
<1>2. ASSUME NEW V \in Flushing, NEW W \in Flushing PROVE ~ (V < W)
  BY DEF Flushing, Sound, OneAtATime
<1>3. Flushing \subseteq Nat
  BY <1>t DEF Flushing
<1>4. InImms(U) => U = T
  <2>1. U \in Flushing /\ T \in Flushing => U = T
    <3>1. U \in Flushing /\ T \in Flushing => ~ (U < T) /\ ~ (T < U)
      BY <1>2
    <3> QED  BY <1>3, <3>1
  <2> QED  BY <1>1, <2>1
<1>5. ASSUME U < active, ~ InImms(U) PROVE U < T
  <2>1. fpc[U] \in {"drop", "done"}
    BY <1>5 DEF Sound, TablesSound, InPlace
  <2>2. CASE T = active
    BY <1>5, <2>2
  <2>3. CASE T < active /\ fpc[T] \notin {"drop", "done"}
    <3>1. ~ (T < U)
      BY <2>1, <2>3 DEF Sound, OneAtATime, NoneFails
    <3> QED  BY <1>t, <2>1, <2>3, <3>1
  <2> QED  BY <1>1, <2>2, <2>3
<1> QED  BY <1>4, <1>5

\* A query that has its answer has not missed the version it must not miss,
\* and one that goes on has not passed it.
LEMMA ActiveSound ==
    ASSUME Sound, NEW k, NEW floor \in Ranks \cup {NoRank}, NEW res,
           QuerySound("active", k, floor, res), NEW rank, rank = Newest(RanksOf(active), k)
    PROVE  QuerySound(IF rank # NoRank THEN "done" ELSE "imms", k, floor, rank)
<1>t. MemTyped /\ Tables \subseteq Nat
  BY TypeParts, Bounds DEF Sound, Typed
<1>0. RanksOf(active) \subseteq Ranks /\ \A r \in RanksOf(active) : r[1] = active
  BY <1>t, RanksTyped DEF MemTyped, RanksOf
<1>1. /\ OfKey(RanksOf(active), k) = {} => rank = NoRank
      /\ OfKey(RanksOf(active), k) # {} => /\ rank \in OfKey(RanksOf(active), k)
                                           /\ \A q \in OfKey(RanksOf(active), k) : ~ Older(rank, q)
      /\ rank \in Ranks \cup {NoRank}
      /\ rank # NoRank <=> OfKey(RanksOf(active), k) # {}
  BY <1>0, NewestTyped
<1>2. CASE floor = NoRank
  <2>1. ~ Older(rank, NoRank)
    BY <1>1, Bounds DEF Older, NoRank
  <2> QED  BY <1>2, <2>1 DEF QuerySound
<1>3. CASE floor # NoRank
  <2>1. floor \in Settled /\ Op(floor).key = k
    BY <1>3 DEF QuerySound
  <2>2. PICK T \in Tables : floor \in RanksOf(T) /\ floor[1] = T
    BY <2>1 DEF Settled, RanksOf
  <2>3. T <= active
    <3>1. mem[T] # <<>>
      BY <2>2, <1>t DEF RanksOf, MemTyped
    <3> QED  BY <3>1, <1>t DEF Sound, TablesSound, InPlace, MemTyped
  <2>4. CASE T = active
    <3>1. floor \in OfKey(RanksOf(active), k)
      BY <2>1, <2>2, <2>4 DEF OfKey
    <3> QED  BY <1>1, <2>1, <3>1 DEF QuerySound
  <2>5. CASE T < active
    <3>1. rank # NoRank => rank[1] = active
      BY <1>0, <1>1 DEF OfKey
    <3>2. rank # NoRank => ~ Older(rank, floor)
      BY <1>t, <2>2, <2>5, <3>1 DEF Older, MemTyped
    <3> QED  BY <2>1, <2>2, <2>5, <3>2 DEF QuerySound
  <2> QED  BY <1>t, <2>3, <2>4, <2>5 DEF MemTyped
<1> QED  BY <1>2, <1>3

LEMMA ImmutablesSound ==
    ASSUME Sound, NoneFails, NEW k, NEW floor \in Ranks \cup {NoRank}, NEW res,
           QuerySound("imms", k, floor, res), NEW rank,
           rank = FirstHit([i \in 1 .. Len(imms) |-> RanksOf(imms[Len(imms) + 1 - i])], k)
    PROVE  QuerySound(IF rank # NoRank THEN "done" ELSE "files", k, floor, rank)
<1>t. MemTyped /\ Tables \subseteq Nat
  BY TypeParts, Bounds DEF Sound, Typed
<1> DEFINE n == Len(imms)
           S == [i \in 1 .. n |-> RanksOf(imms[n + 1 - i])]
<1>a. n \in Nat /\ \A i \in 1 .. n : n + 1 - i \in 1 .. n /\ imms[n + 1 - i] \in Tables
  BY <1>t DEF MemTyped
<1>b. Len(S) = n /\ \A i \in 1 .. n : S[i] = RanksOf(imms[n + 1 - i]) /\ S[i] \subseteq Ranks
  <2>1. Len(S) = n /\ \A i \in 1 .. n : S[i] = RanksOf(imms[n + 1 - i])
    <3> HIDE DEF n
    <3> QED  BY <1>a
  <2> HIDE DEF n, S
  <2>2. ASSUME NEW i \in 1 .. n PROVE RanksOf(imms[n + 1 - i]) \subseteq Ranks
    <3>1. PICK T \in Tables : T = imms[n + 1 - i]
      BY <1>a
    <3> QED  BY <1>t, <3>1, RanksTyped
  <2> QED  BY <2>1, <2>2
<1>c. rank = FirstHit(S, k)
  OBVIOUS
<1>d. \A i \in 1 .. n : InImms(imms[n + 1 - i])
  BY <1>a DEF InImms
<1>e. \A T \in Tables : InImms(T) => \E i \in 1 .. n : S[i] = RanksOf(T)
  <2> SUFFICES ASSUME NEW T \in Tables, NEW x \in 1 .. n, imms[x] = T
               PROVE  \E i \in 1 .. n : S[i] = RanksOf(T)
    BY DEF InImms
  <2>1. n + 1 - x \in 1 .. n /\ n + 1 - (n + 1 - x) = x
    BY <1>a
  <2> QED  BY <2>1, <1>b
<1> HIDE DEF n, S
<1>1. \/ rank = NoRank /\ \A i \in 1 .. n : OfKey(S[i], k) = {}
      \/ \E i \in 1 .. n : /\ rank = Newest(S[i], k) /\ OfKey(S[i], k) # {}
                           /\ \A j \in 1 .. n : OfKey(S[j], k) # {} => i <= j
  BY <1>a, <1>b, <1>c, FirstHitIs, ZenonT(30)
<1>2. CASE floor = NoRank
  <2>1. rank \in Ranks \cup {NoRank}
    BY <1>b, <1>1, NewestTyped
  <2>2. ~ Older(rank, NoRank)
    BY <2>1, Bounds DEF Older, NoRank
  <2> QED  BY <1>2, <2>2 DEF QuerySound
<1>3. CASE floor # NoRank
  <2>1. floor \in Settled /\ Op(floor).key = k /\ floor[1] < active
    BY <1>3 DEF QuerySound
  <2>2. PICK U \in Tables : floor \in RanksOf(U) /\ floor[1] = U
    BY <2>1 DEF Settled, RanksOf
  <2>3. CASE rank = NoRank /\ \A i \in 1 .. n : OfKey(S[i], k) = {}
    <3>1. ~ InImms(U)
      BY <1>e, <2>1, <2>2, <2>3 DEF OfKey
    <3>2. fpc[U] \in {"drop", "done"}
      BY <2>1, <2>2, <3>1 DEF Sound, TablesSound, InPlace
    <3> QED  BY <2>1, <2>2, <2>3, <3>2 DEF QuerySound
  <2>4. ASSUME NEW i \in 1 .. n, rank = Newest(S[i], k), OfKey(S[i], k) # {}
        PROVE  QuerySound(IF rank # NoRank THEN "done" ELSE "files", k, floor, rank)
    <3>1. PICK T \in Tables : T = imms[n + 1 - i] /\ InImms(T) /\ S[i] = RanksOf(T)
      BY <1>a, <1>b, <1>d
    <3>2. /\ rank \in OfKey(RanksOf(T), k) /\ rank # NoRank
          /\ \A q \in OfKey(RanksOf(T), k) : ~ Older(rank, q)
      <4>1. RanksOf(T) \subseteq Ranks
        BY <1>b, <3>1
      <4>2. rank = Newest(RanksOf(T), k) /\ OfKey(RanksOf(T), k) # {}
        BY <2>4, <3>1
      <4> QED  BY <4>1, <4>2, NewestTyped
    <3>3. rank[1] = T
      BY <3>2 DEF OfKey, RanksOf
    <3>4. ~ Older(rank, floor)
      <4>1. CASE InImms(U)
        <5>1. floor \in OfKey(RanksOf(T), k)
          BY <2>1, <2>2, <3>1, <4>1, OneImmutable DEF OfKey
        <5> QED  BY <3>2, <5>1
      <4>2. CASE ~ InImms(U)
        <5>1. U < T
          BY <2>1, <2>2, <3>1, <4>2, OneImmutable
        <5> QED  BY <1>t, <2>2, <3>3, <5>1 DEF Older
      <4> QED  BY <4>1, <4>2
    <3> QED  BY <2>1, <3>2, <3>4 DEF QuerySound
  <2> QED  BY <1>1, <2>3, <2>4
<1> QED  BY <1>2, <1>3

LEMMA FilesSound ==
    ASSUME Sound, ListSound, NEW k, NEW floor \in Ranks \cup {NoRank}, NEW res,
           QuerySound("files", k, floor, res), NEW rank,
           rank = FirstHit([i \in 1 .. Len(ssTables) |-> files[ssTables[i]].recs], k)
    PROVE  QuerySound("done", k, floor, rank)
<1>t. DiskTyped
  BY TypeParts DEF Sound, Typed
<1> DEFINE n == Len(ssTables)
           S == [i \in 1 .. n |-> files[ssTables[i]].recs]
<1>a. n \in Nat /\ \A i \in 1 .. n : ssTables[i] \in Inodes
  BY <1>t, FilesTyped
<1>b. Len(S) = n /\ \A i \in 1 .. n : S[i] = Recs(ssTables[i]) /\ S[i] \subseteq Ranks
  BY <1>a, <1>t, ReadableTyped DEF Recs
<1>c. rank = FirstHit(S, k)
  OBVIOUS
<1>d. n = Len(ssTables)
  OBVIOUS
<1> HIDE DEF n, S
<1>1. \/ rank = NoRank /\ \A i \in 1 .. n : OfKey(S[i], k) = {}
      \/ \E i \in 1 .. n : /\ rank = Newest(S[i], k) /\ OfKey(S[i], k) # {}
                           /\ \A j \in 1 .. n : OfKey(S[j], k) # {} => i <= j
  BY <1>a, <1>b, <1>c, FirstHitIs, ZenonT(30)
<1>2. CASE floor = NoRank
  <2>1. rank \in Ranks \cup {NoRank}
    BY <1>b, <1>1, NewestTyped
  <2>2. ~ Older(rank, NoRank)
    BY <2>1, Bounds DEF Older, NoRank
  <2> QED  BY <1>2, <2>2 DEF QuerySound
<1>3. CASE floor # NoRank
  <2>1. /\ floor \in Settled /\ Op(floor).key = k /\ floor[1] < active
        /\ fpc[floor[1]] \in {"drop", "done"}
    BY <1>3 DEF QuerySound
  <2>2. floor \in files[ffile[floor[1]]].recs /\ Listed(ffile[floor[1]])
    <3>1. PICK T \in Tables : T = floor[1]
      BY <2>1, SettledTyped, TypeParts, Bounds DEF Sound, Typed
    <3>2. ~ InImms(T) /\ floor[1] # active
      BY <2>1, <3>1, TypeParts, Bounds DEF Sound, Typed, MemTyped, TablesSound, InPlace
    <3> QED  BY <2>1, <3>1, <3>2, LeftForAFile DEF Sound
  <2>3. PICK j \in 1 .. n : floor \in OfKey(S[j], k)
    <3>1. PICK j \in 1 .. n : ssTables[j] = ffile[floor[1]]
      BY <1>d, <2>2 DEF Listed
    <3> QED  BY <1>b, <2>1, <2>2, <3>1 DEF OfKey, Recs
  <2>4. PICK i \in 1 .. n : /\ rank = Newest(S[i], k) /\ OfKey(S[i], k) # {}
                            /\ \A h \in 1 .. n : OfKey(S[h], k) # {} => i <= h
    BY <1>1, <2>3
  <2>5. rank \in OfKey(S[i], k) /\ \A q \in OfKey(S[i], k) : ~ Older(rank, q)
    <3>1. PICK A : A = S[i]
      OBVIOUS
    <3>2. A \subseteq Ranks /\ rank = Newest(A, k) /\ OfKey(A, k) # {}
      BY <1>b, <2>4, <3>1
    <3>3. rank \in OfKey(A, k) /\ \A q \in OfKey(A, k) : ~ Older(rank, q)
      BY <3>2, NewestTyped
    <3> QED  BY <3>1, <3>3
  <2>6. ~ Older(rank, floor)
    <3>1. CASE i = j
      BY <2>3, <2>5, <3>1
    <3>2. CASE i # j
      <4>1. i \in 1 .. j - 1
        <5>1. i <= j
          BY <2>3, <2>4
        <5> QED  BY <1>a, <3>2, <5>1
      <4>2. NewerThan(S[i], S[j])
        BY <1>b, <1>d, <4>1 DEF ListSound
      <4> QED  BY <2>3, <2>5, <4>2 DEF NewerThan, OfKey
    <3> QED  BY <3>1, <3>2
  <2> QED  BY <2>1, <2>6 DEF QuerySound
<1> QED  BY <1>2, <1>3

LEMMA QueriesSoundStep ==
    ASSUME Sound, Ordered, QueriesSound, [Next]_vars
    PROVE  QueriesSound'
<1> SUFFICES ASSUME NEW r \in Readers PROVE QuerySound(rpc[r], rkey[r], rfloor[r], rres[r])'
  BY DEF QueriesSound
<1>t. ReadersTyped /\ MemTyped
  BY TypeParts DEF Sound, Typed
<1>1. PICK loc, k, floor, res : loc = rpc[r] /\ k = rkey[r] /\ floor = rfloor[r] /\ res = rres[r]
  OBVIOUS
<1>f. floor \in Ranks \cup {NoRank}
  BY <1>1, <1>t DEF ReadersTyped
<1>2. QuerySound(loc, k, floor, res)
  BY <1>1 DEF QueriesSound
<1>s. ASSUME rpc'[r] = loc, rkey'[r] = k, rfloor'[r] = floor, rres'[r] = res
      PROVE  QuerySound(rpc[r], rkey[r], rfloor[r], rres[r])'
  <2>1. QuerySound(loc, k, floor, res)'
    BY <1>2, QuerySoundStays
  <2> QED  BY <1>s, <2>1 DEF QuerySound
<1>a. ASSUME NEW rank, NEW next, Answer(r, rank, next),
             QuerySound(IF rank # NoRank THEN "done" ELSE next, k, floor, rank)
      PROVE  QuerySound(rpc[r], rkey[r], rfloor[r], rres[r])'
  <2>1. PICK l : l = IF rank # NoRank THEN "done" ELSE next
    OBVIOUS
  <2>2. QuerySound(l, k, floor, rank)'
    BY <1>a, <2>1, QuerySoundStays
  <2>3. rpc'[r] = l /\ rkey'[r] = k /\ rfloor'[r] = floor /\ rres'[r] = rank
    BY <1>a, <1>1, <1>t, <2>1 DEF Answer, ReadersTyped
  <2> QED  BY <2>2, <2>3 DEF QuerySound
<1>3. CASE UNCHANGED readerVars
  BY <1>1, <1>3, <1>s DEF readerVars
<1>4. ASSUME NEW s \in Readers, s # r, BeginQuery(s) \/ QueryStep(s)
      PROVE  QuerySound(rpc[r], rkey[r], rfloor[r], rres[r])'
  BY <1>1, <1>4, <1>s, <1>t
     DEF BeginQuery, QueryStep, LookInActive, LookInImmutables, LookInFiles, EndQuery, Answer, ReadersTyped
<1>5. CASE BeginQuery(r)
  <2>1. PICK j \in Keys : rkey' = [rkey EXCEPT ![r] = j] /\ rfloor' = [rfloor EXCEPT ![r] = Newest(Settled, j)]
    BY <1>5 DEF BeginQuery
  <2>2. PICK f : f = Newest(Settled, j)
    OBVIOUS
  <2>3. f # NoRank => f \in Settled /\ Op(f).key = j
    <3>1. Settled \subseteq Ranks
      BY <1>t, SettledTyped
    <3> QED  BY <2>2, <3>1, NewestTyped DEF OfKey
  <2>4. QuerySound("active", j, f, res)'
    <3>1. QuerySound("active", j, f, res)
      BY <2>3 DEF QuerySound
    <3> QED  BY <3>1, QuerySoundStays
  <2>5. rpc'[r] = "active" /\ rkey'[r] = j /\ rfloor'[r] = f /\ rres'[r] = res
    BY <1>1, <1>5, <1>t, <2>1, <2>2 DEF BeginQuery, ReadersTyped
  <2> QED  BY <2>4, <2>5 DEF QuerySound
<1>6. CASE LookInActive(r)
  <2>1. PICK rank : rank = Newest(RanksOf(active), k)
    OBVIOUS
  <2>2. loc = "active" /\ Answer(r, rank, "imms")
    BY <1>1, <1>6, <2>1 DEF LookInActive
  <2> QED  BY <1>2, <1>a, <1>f, <2>1, <2>2, ActiveSound
<1>7. CASE LookInImmutables(r)
  <2>1. PICK rank : rank = FirstHit([i \in 1 .. Len(imms) |-> RanksOf(imms[Len(imms) + 1 - i])], k)
    OBVIOUS
  <2>2. loc = "imms" /\ Answer(r, rank, "files")
    BY <1>1, <1>7, <2>1 DEF LookInImmutables
  <2> QED  BY <1>2, <1>a, <1>f, <2>1, <2>2, ImmutablesSound DEF Ordered
<1>8. CASE LookInFiles(r)
  <2>1. PICK rank : rank = FirstHit([i \in 1 .. Len(ssTables) |-> files[ssTables[i]].recs], k)
    OBVIOUS
  <2>2. loc = "files" /\ Answer(r, rank, "done")
    BY <1>1, <1>8, <2>1 DEF LookInFiles
  <2>3. QuerySound("done", k, floor, rank)
    BY <1>2, <1>f, <2>1, <2>2, FilesSound DEF Ordered
  <2> QED  BY <1>a, <2>2, <2>3
<1>9. CASE EndQuery(r)
  BY <1>9, <1>t DEF EndQuery, QuerySound, ReadersTyped
<1> QED  BY <1>3, <1>4, <1>5, <1>6, <1>7, <1>8, <1>9, Frame DEF QueryStep

\* When flushes do not fail either, the list of readers goes from new to old
\* at every moment, a merge that is under way is newer than all of it, and
\* merges take the files of the oldest tables.
THEOREM InductiveOrder ==
    ASSUME Orderly, "sst" \notin Faults
    PROVE  Spec => [](Ordered /\ QueriesSound)
<1>1. Init => Ordered /\ QueriesSound
  <2> SUFFICES ASSUME Init PROVE Ordered /\ QueriesSound
    OBVIOUS
  <2>1. NoneFails /\ OldestTaken
    BY Bounds DEF Init, NoneFails, OldestTaken, Taken
  <2>2. ListSound
    BY DEF Init, ListSound, Listed, Inodes, NewerThan
  <2>3. QueriesSound
    BY DEF Init, QueriesSound, QuerySound
  <2> QED  BY <2>1, <2>2, <2>3 DEF Ordered
<1>2. Sound /\ Ordered /\ QueriesSound /\ [Next]_vars => (Ordered /\ QueriesSound)'
  BY NoneFailsStep, ListSoundStep, OldestTakenStep, QueriesSoundStep DEF Ordered
<1>3. Spec => []Sound
  BY InductiveTables, InductiveFlushes, InductiveMerges, PTL DEF Sound, Orderly
<1> QED  BY <1>1, <1>2, <1>3, PTL DEF Spec

\* With one flush at a time, compactions between flushes and flushes that do
\* not fail, a query never answers with a version older than the newest one
\* that was in its table when the query started, through the switches, flushes
\* and compactions that happen while it walks (carina_engine.hpp:122-140).
THEOREM QueriesFresh ==
    ASSUME Orderly, "sst" \notin Faults
    PROVE  Spec => []ReadFresh
<1>1. QueriesSound => ReadFresh
  BY DEF QueriesSound, QuerySound, ReadFresh
<1> QED  BY <1>1, InductiveOrder, PTL
=============================================================================
