------------------------ MODULE LifecycleStoreProofs ------------------------
(***************************************************************************)
(* The theorem that module Lifecycle implements the map of KVStore: flush, *)
(* compaction, close, crash, start-up and replay change no answer, but for *)
(* the cases that Disturbed names.                                         *)
(***************************************************************************)
EXTENDS LifecycleProofs

-----------------------------------------------------------------------------
(* What is found in one place.                                             *)

\* A table or a log serves of each key what was inserted last.
LEMMA InTableIs ==
    ASSUME NEW recs \in Seq(Ops), NEW k \in Keys
    PROVE  /\ (\A h \in 1 .. Len(recs) : recs[h].key # k) => InTable(recs)[k] = NoOp(k)
           /\ \A h \in 1 .. Len(recs) :
                 recs[h].key = k /\ (\A i \in 1 .. Len(recs) : recs[i].key = k => i <= h)
                 => InTable(recs)[k] = recs[h]
           /\ (\E h \in 1 .. Len(recs) : recs[h].key = k) =>
                 \E h \in 1 .. Len(recs) :
                    /\ recs[h].key = k /\ InTable(recs)[k] = recs[h] /\ recs[h].ver # 0
                    /\ \A i \in 1 .. Len(recs) : recs[i].key = k => i <= h
<1>1. InTable(recs)[k] = LastOf(recs, k)
  BY DEF InTable
<1>2. ASSUME \A h \in 1 .. Len(recs) : recs[h].key # k PROVE LastOf(recs, k) = NoOp(k)
  BY <1>2 DEF LastOf, OfKey
<1>3. ASSUME NEW h \in 1 .. Len(recs), recs[h].key = k
      PROVE  \E m \in 1 .. Len(recs) :
                /\ recs[m].key = k /\ LastOf(recs, k) = recs[m] /\ recs[m].ver # 0
                /\ \A i \in 1 .. Len(recs) : recs[i].key = k => i <= m
  <2>1. PICK m \in 1 .. Len(recs) :
              /\ LastOf(recs, k) = recs[m] /\ recs[m].key = k
              /\ \A i \in 1 .. Len(recs) : recs[i].key = k => i <= m
    BY <1>3, LastOfIs
  <2>2. recs[m] \in Ops
    OBVIOUS
  <2> QED  BY <2>1, <2>2 DEF Ops
<1>4. ASSUME NEW h \in 1 .. Len(recs), recs[h].key = k,
             \A i \in 1 .. Len(recs) : recs[i].key = k => i <= h
      PROVE  LastOf(recs, k) = recs[h]
  <2>1. PICK m \in 1 .. Len(recs) :
              /\ LastOf(recs, k) = recs[m] /\ recs[m].key = k
              /\ \A i \in 1 .. Len(recs) : recs[i].key = k => i <= m
    BY <1>4, LastOfIs
  <2>2. m <= h /\ h <= m
    BY <1>4, <2>1
  <2>3. m = h
    BY <2>2
  <2> QED  BY <2>1, <2>3
<1> QED  BY <1>1, <1>2, <1>3, <1>4

\* What is not found is NoOp.
LEMMA NotFound ==
    ASSUME NEW recs \in Seq(Ops), NEW k \in Keys
    PROVE  /\ InTable(recs)[k].ver = 0 <=> \A h \in 1 .. Len(recs) : recs[h].key # k
           /\ InTable(recs)[k].ver = 0 => InTable(recs)[k] = NoOp(k)
<1>1. NoOp(k).ver = 0
  BY DEF NoOp
<1> QED  BY <1>1, InTableIs

LEMMA NothingInside == \A k \in Keys : InTable(<<>>)[k] = NoOp(k) /\ NoOp(k).ver = 0
<1> TAKE k \in Keys
<1>1. <<>> \in Seq(Ops) /\ \A h \in 1 .. Len(<<>>) : <<>>[h].key # k
  OBVIOUS
<1>2. NoOp(k).ver = 0
  BY DEF NoOp
<1> QED  BY <1>1, <1>2, InTableIs

\* A put is what a query finds next.
LEMMA InsertedIsFound ==
    ASSUME NEW recs \in Seq(Ops), NEW r \in Ops, NEW k \in Keys
    PROVE  InTable(Append(recs, r))[k] = IF r.key = k THEN r ELSE InTable(recs)[k]
<1> DEFINE t == Append(recs, r)
<1>1. /\ t \in Seq(Ops) /\ Len(t) = Len(recs) + 1 /\ Len(recs) \in Nat
      /\ \A i \in 1 .. Len(recs) : t[i] = recs[i]
      /\ t[Len(recs) + 1] = r
  OBVIOUS
<1> HIDE DEF t
<1>2. ASSUME r.key = k PROVE InTable(t)[k] = r
  <2>1. Len(recs) + 1 \in 1 .. Len(t) /\ \A i \in 1 .. Len(t) : i <= Len(recs) + 1
    BY <1>1
  <2>2. InTable(t)[k] = t[Len(recs) + 1]
    BY <1>1, <1>2, <2>1, InTableIs
  <2> QED  BY <1>1, <1>2, <2>2
<1>3. ASSUME r.key # k PROVE InTable(t)[k] = InTable(recs)[k]
  <2>1. CASE \A h \in 1 .. Len(recs) : recs[h].key # k
    <3>1. \A h \in 1 .. Len(t) : t[h].key # k
      <4> TAKE h \in 1 .. Len(t)
      <4>1. h \in 1 .. Len(recs) \/ h = Len(recs) + 1
        BY <1>1
      <4> QED  BY <1>1, <1>3, <2>1, <4>1
    <3> QED  BY <1>1, <1>3, <2>1, <3>1, InTableIs
  <2>2. CASE \E h \in 1 .. Len(recs) : recs[h].key = k
    <3>1. PICK h \in 1 .. Len(recs) :
                /\ recs[h].key = k /\ InTable(recs)[k] = recs[h]
                /\ \A i \in 1 .. Len(recs) : recs[i].key = k => i <= h
      BY <2>2, InTableIs
    <3>2. \A i \in 1 .. Len(t) : t[i].key = k => i <= h
      <4> SUFFICES ASSUME NEW i \in 1 .. Len(t), t[i].key = k PROVE i <= h
        OBVIOUS
      <4>1. i # Len(recs) + 1
        BY <1>1, <1>3
      <4>2. i \in 1 .. Len(recs)
        BY <1>1, <4>1
      <4> QED  BY <1>1, <3>1, <4>2
    <3>3. h \in 1 .. Len(t) /\ t[h] = recs[h]
      BY <1>1
    <3>4. InTable(t)[k] = t[h]
      BY <1>1, <3>1, <3>2, <3>3, InTableIs
    <3> QED  BY <1>3, <3>1, <3>3, <3>4
  <2> QED  BY <2>1, <2>2
<1>4. InTable(t)[k] = IF r.key = k THEN r ELSE InTable(recs)[k]
  BY <1>2, <1>3
<1> QED  BY <1>4 DEF t

\* A flush writes what the table serves.
LEMMA FlushedIsFound ==
    ASSUME NEW recs \in Seq(Ops), NEW k \in Keys
    PROVE  InFile(Survivors(recs))[k] = InTable(recs)[k]
<1> DEFINE S == Survivors(recs)
<1>1. /\ \A r \in S : \E m \in 1 .. Len(recs) :
            /\ recs[m] = r
            /\ \A i \in 1 .. Len(recs) : recs[i].key = r.key => i <= m
      /\ \A h \in 1 .. Len(recs) : \E r \in S : r.key = recs[h].key
  BY SurvivorsAre
<1>2. InFile(S)[k] = IF \E r \in S : r.key = k THEN CHOOSE r \in S : r.key = k ELSE NoOp(k)
  BY DEF InFile
<1> HIDE DEF S
<1>3. CASE \E r \in S : r.key = k
  <2>1. InFile(S)[k] \in S /\ InFile(S)[k].key = k
    BY <1>2, <1>3
  <2>2. PICK m \in 1 .. Len(recs) :
            /\ recs[m] = InFile(S)[k]
            /\ \A i \in 1 .. Len(recs) : recs[i].key = k => i <= m
    BY <1>1, <2>1
  <2> QED  BY <2>1, <2>2, InTableIs DEF S
<1>4. CASE ~ \E r \in S : r.key = k
  <2>1. \A h \in 1 .. Len(recs) : recs[h].key # k
    BY <1>1, <1>4
  <2> QED  BY <1>2, <1>4, <2>1, InTableIs DEF S
<1> QED  BY <1>3, <1>4

\* What is in a file has a number, what is not is NoOp.
LEMMA InFileIs ==
    ASSUME NEW recs \in SUBSET Ops, NEW k \in Keys
    PROVE  /\ InFile(recs)[k].ver # 0 => InFile(recs)[k] \in recs /\ InFile(recs)[k].key = k
           /\ InFile(recs)[k].ver = 0 => InFile(recs)[k] = NoOp(k)
           /\ (\E r \in recs : r.key = k) <=> InFile(recs)[k].ver # 0
<1>1. InFile(recs)[k] = IF \E r \in recs : r.key = k THEN CHOOSE r \in recs : r.key = k ELSE NoOp(k)
  BY DEF InFile
<1>2. \A r \in recs : r.ver # 0
  BY DEF Ops
<1>3. ASSUME \E r \in recs : r.key = k PROVE InFile(recs)[k] \in recs /\ InFile(recs)[k].key = k
  BY <1>1, <1>3
<1> QED  BY <1>1, <1>2, <1>3 DEF NoOp

-----------------------------------------------------------------------------
(* What is found where several places are asked.                           *)

\* The last that has the key.
LEMMA LastFoundIs ==
    ASSUME NEW found, NEW n \in Nat, DOMAIN found \subseteq 0 .. n, NEW k \in Keys
    PROVE  /\ (\A i \in DOMAIN found : found[i][k].ver = 0) => LastFound(found)[k] = NoOp(k)
           /\ \A i \in DOMAIN found :
                 found[i][k].ver # 0 /\ (\A j \in DOMAIN found : i < j => found[j][k].ver = 0)
                 => LastFound(found)[k] = found[i][k]
           /\ (\E i \in DOMAIN found : found[i][k].ver # 0) =>
                 \E i \in DOMAIN found :
                    /\ found[i][k].ver # 0 /\ LastFound(found)[k] = found[i][k]
                    /\ \A j \in DOMAIN found : i < j => found[j][k].ver = 0
<1> DEFINE S == Having(found, k)
<1>1. \A i : i \in S <=> i \in DOMAIN found /\ found[i][k].ver # 0
  BY DEF Having
<1>2. LastFound(found)[k] = IF S = {} THEN NoOp(k) ELSE found[Max(S)][k]
  BY DEF LastFound
<1>3. S \subseteq 0 .. n /\ S \subseteq Nat
  BY <1>1
<1> HIDE DEF S
<1>4. ASSUME S # {} PROVE Max(S) \in S /\ \A j \in S : j <= Max(S)
  <2>1. PICK p \in S : \A q \in S : q <= p
    BY <1>3, <1>4, Greatest
  <2>2. \A q \in S : p >= q
    BY <1>3, <2>1
  <2>3. Max(S) \in S /\ \A q \in S : Max(S) >= q
    BY <2>2 DEF Max
  <2> QED  BY <1>3, <2>3
<1>5. ASSUME NEW i \in DOMAIN found, found[i][k].ver # 0, \A j \in DOMAIN found : i < j => found[j][k].ver = 0
      PROVE  S # {} /\ Max(S) = i
  <2>1. i \in S
    BY <1>1, <1>5
  <2>2. Max(S) \in S /\ i <= Max(S)
    BY <1>4, <2>1
  <2>3. ~ (i < Max(S))
    BY <1>1, <1>5, <2>2
  <2>4. i \in Nat /\ Max(S) \in Nat
    BY <1>3, <2>1, <2>2
  <2> QED  BY <2>1, <2>2, <2>3, <2>4
<1>6. ASSUME S # {}
      PROVE  Max(S) \in DOMAIN found /\ found[Max(S)][k].ver # 0
             /\ \A j \in DOMAIN found : Max(S) < j => found[j][k].ver = 0
  <2>1. Max(S) \in Nat /\ \A j \in S : j \in Nat /\ j <= Max(S)
    BY <1>3, <1>4, <1>6
  <2>2. \A j \in DOMAIN found : Max(S) < j => j \notin S
    BY <2>1
  <2> QED  BY <1>1, <1>4, <1>6, <2>2
<1> QED  BY <1>1, <1>2, <1>5, <1>6

\* The first that has the key.
LEMMA FirstFoundIs ==
    ASSUME NEW found, DOMAIN found \subseteq Nat, NEW k \in Keys
    PROVE  /\ (\A i \in DOMAIN found : found[i][k].ver = 0) => FirstFound(found)[k] = NoOp(k)
           /\ \A i \in DOMAIN found :
                 found[i][k].ver # 0 /\ (\A j \in DOMAIN found : j < i => found[j][k].ver = 0)
                 => FirstFound(found)[k] = found[i][k]
           /\ (\E i \in DOMAIN found : found[i][k].ver # 0) =>
                 \E i \in DOMAIN found :
                    /\ found[i][k].ver # 0 /\ FirstFound(found)[k] = found[i][k]
                    /\ \A j \in DOMAIN found : j < i => found[j][k].ver = 0
<1> DEFINE S == Having(found, k)
<1>1. \A i : i \in S <=> i \in DOMAIN found /\ found[i][k].ver # 0
  BY DEF Having
<1>2. FirstFound(found)[k] = IF S = {} THEN NoOp(k) ELSE found[Min(S)][k]
  BY DEF FirstFound
<1>3. S \subseteq Nat
  BY <1>1
<1> HIDE DEF S
<1>4. ASSUME S # {} PROVE Min(S) \in S /\ \A j \in S : Min(S) <= j
  <2>1. PICK p \in S : \A q \in S : p <= q
    BY <1>3, <1>4, Least
  <2> QED  BY <2>1 DEF Min
<1>5. ASSUME NEW i \in DOMAIN found, found[i][k].ver # 0, \A j \in DOMAIN found : j < i => found[j][k].ver = 0
      PROVE  S # {} /\ Min(S) = i
  <2>1. i \in S
    BY <1>1, <1>5
  <2>2. Min(S) \in S /\ Min(S) <= i
    BY <1>4, <2>1
  <2>3. ~ (Min(S) < i)
    BY <1>1, <1>5, <2>2
  <2>4. i \in Nat /\ Min(S) \in Nat
    BY <1>3, <2>1, <2>2
  <2> QED  BY <2>1, <2>2, <2>3, <2>4
<1>6. ASSUME S # {}
      PROVE  Min(S) \in DOMAIN found /\ found[Min(S)][k].ver # 0
             /\ \A j \in DOMAIN found : j < Min(S) => found[j][k].ver = 0
  <2>1. Min(S) \in Nat /\ \A j \in S : j \in Nat /\ Min(S) <= j
    BY <1>3, <1>4, <1>6
  <2>2. \A j \in DOMAIN found : j < Min(S) => j \notin S
    BY <2>1
  <2> QED  BY <1>1, <1>4, <1>6, <2>2
<1> QED  BY <1>1, <1>2, <1>5, <1>6

-----------------------------------------------------------------------------
(* The files and their readers.                                            *)

Fresh == "behind" \notin mishaps
Smooth == \A i \in 1 .. Len(imms) : imms[i].step # "failed"

\* A process whose readers are in the order in which their files were written.
Recent == starts <= 1 \/ \A i \in 1 .. Len(readers) : readers[i].name[1] = 0

Begun ==
    /\ starts \in Nat
    /\ starts = 0 => phase = "down" /\ Names = {}
    /\ phase = "replay" => done <= Len(active.recs)

\* Readers serve what is in the directory; a file without one is not whole, a reader
\* without a file was merged away.
Opened ==
    /\ \A i \in 1 .. Len(readers) :
          /\ readers[i].name \in Names =>
                files[readers[i].name].whole /\ readers[i].recs = files[readers[i].name].recs
          /\ readers[i].name \notin Names =>
                readers[i].name[1] = 0 /\ readers[i].name[2] <= gen /\ L0Names # Names
    /\ phase # "down" => \A n \in L0Names : files[n].whole => \E i \in 1 .. Len(readers) : readers[i].name = n
    /\ phase = "down" => readers = <<>>

\* A compaction is alone, and takes all there is.
Rounds ==
    /\ merge.step # "none" => merge.in = L0Names /\ \A n \in Names : n[2] <= gen
    /\ merge.step = "write" => ~ files[merge.out].whole
    /\ merge.step = "remove" => files[merge.out].whole

\* L0 files are asked first, the newest of them before the others.
Lined ==
    Recent /\ merge.step # "remove" =>
        \A i, j \in 1 .. Len(readers) : i < j /\ readers[j].name \in L0Names =>
            readers[i].name \in L0Names /\ readers[j].name[2] < readers[i].name[2]

\* What a compaction has written is what the readers find.
MergedFound ==
    Recent /\ merge.step = "remove" =>
        \A k \in Keys : LET found == InFile(files[merge.out].recs)[k]
                        IN found.ver = 0 \/ found = InReaders[k]

\* The log of a table that has been flushed: the file is the newest, and the log the oldest.
Flushed ==
    Smooth /\ doomed # {} /\ L0Names = Names =>
        \E w \in doomed :
            /\ doomed = {w}
            /\ 1 \in 1 .. Len(readers) /\ readers[1].recs = Survivors(wals[w])
            /\ \A i \in 1 .. Len(imms) : w < imms[i].wal

\* While the engine closes, the active table has its log or is the newest file.
Closed ==
    phase = "closing" /\ Smooth =>
        \/ active.wal \in DOMAIN wals \ doomed /\ wals[active.wal] = active.recs
        \/ /\ imms = <<>> /\ doomed \subseteq {active.wal} /\ active.wal \notin DOMAIN wals \ doomed
           /\ 1 \in 1 .. Len(readers) /\ readers[1].recs = Survivors(active.recs)

Served == Writing /\ Opened /\ Rounds /\ Lined /\ MergedFound /\ Flushed /\ Closed
Traced == Sound /\ LogsHeld /\ TableLogs /\ Begun
Told == Traced /\ (Fresh => Served)

LEMMA OneInFront ==
    ASSUME NEW S, NEW s \in Seq(S), NEW x
    PROVE  LET t == <<x>> \o s
           IN  /\ Len(t) = Len(s) + 1 /\ Len(s) \in Nat /\ t[1] = x
               /\ \A i \in 1 .. Len(s) : t[i + 1] = s[i]
               /\ \A i \in 1 .. Len(t) : i = 1 \/ (i - 1 \in 1 .. Len(s) /\ t[i] = s[i - 1])
<1> DEFINE t == <<x>> \o s
<1>1. /\ Len(t) = Len(s) + 1 /\ Len(s) \in Nat /\ t[1] = x
      /\ \A i \in 1 .. Len(s) : t[i + 1] = s[i]
  OBVIOUS
<1> HIDE DEF t
<1>2. ASSUME NEW i \in 1 .. Len(t), i # 1 PROVE i - 1 \in 1 .. Len(s) /\ t[i] = s[i - 1]
  <2>1. i - 1 \in 1 .. Len(s) /\ (i - 1) + 1 = i
    BY <1>1, <1>2
  <2> QED  BY <1>1, <2>1
<1> QED  BY <1>1, <1>2 DEF t

LEMMA FreshBefore ==
    ASSUME [Next]_vars, Fresh'
    PROVE  Fresh
<1>1. mishaps \subseteq mishaps'
  BY DEF Next, vars, history, Open, OpenThrows, ReplayStep, ReplayRecord, ReplayThrows, RemoveReplayedWal, Crash,
         ProcessEnds, PutOrRemove, Put, PutInNewTable, Store, FlushStep, FlushBegins, FlushFinishes, FlushThrows,
         DropWal, CreateFile, MergeBegins, MergeStep, MergeWrites, MergeRemoves, MergePublishes, Close, Exit
<1> QED  BY <1>1 DEF Fresh

LEMMA ReaderIs ==
    ASSUME Typed, NEW i \in 1 .. Len(readers)
    PROVE  /\ readers[i].name \in {0, 1} \X Nat /\ readers[i].name[1] \in {0, 1} /\ readers[i].name[2] \in Nat
           /\ readers[i].recs \in SUBSET Ops
<1> DEFINE S == [name : {0, 1} \X Nat, recs : SUBSET Ops]
<1>1. readers \in Seq(S)
  BY DEF Typed
<1> HIDE DEF S
<1>2. readers[i] \in S
  BY <1>1
<1> QED  BY <1>2 DEF S

\* A new file has no reader.
LEMMA ReadersStay ==
    ASSUME Typed, Opened, Fresh', NEW n \in {0, 1} \X Nat, n[2] = gen + 1, CreateFile(n)
    PROVE  readers' = readers /\ gen' = gen + 1
<1>1. n \notin Names
  BY CreateIs DEF Fresh
<1>2. gen \in Nat /\ readers \in Seq([name : {0, 1} \X Nat, recs : SUBSET Ops])
  BY DEF Typed
<1>3. \A i \in 1 .. Len(readers) : readers[i].name # n
  <2> TAKE i \in 1 .. Len(readers)
  <2>1. CASE readers[i].name \in Names
    BY <1>1, <2>1
  <2>2. CASE readers[i].name \notin Names
    BY <1>2, <2>2 DEF Opened
  <2> QED  BY <2>1, <2>2
<1>4. readers' = [i \in 1 .. Len(readers) |-> readers[i]]
  BY <1>3 DEF CreateFile
<1> QED  BY <1>2, <1>4 DEF CreateFile

LEMMA BeginFile ==
    ASSUME Typed, Opened, Fresh', NEW i \in 1 .. Len(imms), FlushBegins(i)
    PROVE  /\ readers' = readers /\ gen' = gen + 1
           /\ <<0, gen + 1>> \notin Names /\ DOMAIN files' = Names \cup {<<0, gen + 1>>}
           /\ ~ files'[<<0, gen + 1>>].whole
           /\ \A m \in Names : files'[m] = files[m] /\ m[2] < gen + 1
<1> DEFINE n == <<0, gen + 1>>
<1>1. n \in {0, 1} \X Nat /\ n[2] = gen + 1 /\ CreateFile(n)
  BY DEF FlushBegins, Typed
<1> HIDE DEF n
<1>2. readers' = readers /\ gen' = gen + 1
  BY <1>1, ReadersStay
<1>3. /\ n \notin Names /\ \A m \in Names : m[2] < n[2]
      /\ DOMAIN files' = DOMAIN files \cup {n} /\ ~ files'[n].whole
      /\ \A m \in Names : files'[m] = files[m]
  BY <1>1, CreateIs DEF Fresh
<1> QED  BY <1>1, <1>2, <1>3 DEF n, Names

LEMMA MergeFile ==
    ASSUME Typed, Opened, Fresh', MergeBegins
    PROVE  /\ readers' = readers /\ gen' = gen + 1
           /\ merge' = [step |-> "write", in |-> L0Names, out |-> <<1, gen + 1>>]
           /\ <<1, gen + 1>> \notin Names /\ DOMAIN files' = Names \cup {<<1, gen + 1>>}
           /\ ~ files'[<<1, gen + 1>>].whole
           /\ \A m \in Names : files'[m] = files[m] /\ m[2] < gen + 1
<1> DEFINE n == <<1, gen + 1>>
<1>1. n \in {0, 1} \X Nat /\ n[2] = gen + 1 /\ CreateFile(n)
      /\ merge' = [step |-> "write", in |-> L0Names, out |-> n]
  BY DEF MergeBegins, Typed
<1> HIDE DEF n
<1>2. readers' = readers /\ gen' = gen + 1
  BY <1>1, ReadersStay
<1>3. /\ n \notin Names /\ \A m \in Names : m[2] < n[2]
      /\ DOMAIN files' = DOMAIN files \cup {n} /\ ~ files'[n].whole
      /\ \A m \in Names : files'[m] = files[m]
  BY <1>1, CreateIs DEF Fresh
<1> QED  BY <1>1, <1>2, <1>3 DEF n, Names

\* A flush: the file was there, without a reader, and its number is the greatest.
LEMMA FinishFront ==
    ASSUME Typed, Writing, Opened, NEW i \in 1 .. Len(imms), FlushFinishes(i)
    PROVE  /\ readers' = <<Reader(imms[i].name, Survivors(imms[i].recs))>> \o readers
           /\ \A h \in 1 .. Len(readers) : readers[h].name # imms[i].name
           /\ \A m \in Names : m = imms[i].name \/ m[2] < imms[i].name[2]
           /\ UNCHANGED <<gen, phase, merge, starts>>
<1>1. imms[i].name \in L0Names /\ ~ files[imms[i].name].whole /\ imms[i].step = "write"
  BY FinishIs
<1> QED  BY <1>1 DEF FlushFinishes, FinishFile, Opened, Writing, L0Names, bounds

LEMMA BegunKept ==
    ASSUME LifecycleAssumption, Sound, Begun, [Next]_vars
    PROVE  Begun'
<1> USE DEF Begun, Sound
<1>1. CASE Open
  <2>1. phase = "down" /\ starts' = starts + 1 /\ done' = 0
    BY <1>1 DEF Open, Phases
  <2>2. active'.recs = <<>>
    BY <1>1, OpenIs
  <2> QED  BY <2>1, <2>2
<1>2. CASE OpenThrows
  BY <1>2 DEF OpenThrows
<1>3. CASE ReplayRecord
  <2>1. active'.recs = Append(active.recs, wals[todo[1]][done + 1]) /\ active.recs \in Seq(Ops)
        /\ wals[todo[1]][done + 1] \in Ops
    BY <1>3, ReplayIs DEF Typed
  <2>2. Len(active'.recs) = Len(active.recs) + 1 /\ Len(active.recs) \in Nat /\ done \in Nat
    BY <2>1 DEF Typed
  <2> QED  BY <1>3, <2>2 DEF ReplayRecord, bounds
<1>4. CASE RemoveReplayedWal
  <2>1. phase = "replay" /\ done' = 0 /\ UNCHANGED <<active, starts>> /\ Len(active.recs) \in Nat
    BY <1>4 DEF RemoveReplayedWal, memVars, bounds, Typed
  <2> QED  BY <2>1
<1>5. CASE PutOrRemove \/ ReplayThrows \/ Crash \/ Exit \/ Close
  <2>1. phase # "down" /\ starts' = starts /\ phase' # "replay"
    BY <1>5 DEF PutOrRemove, Put, PutInNewTable, Store, ReplayThrows, Crash, Exit, ProcessEnds, Close, bounds
  <2> QED  BY <2>1
<1>6. CASE FlushStep \/ MergeBegins
  <2>1. phase \in {"up", "closing"} /\ phase' = phase /\ starts' = starts
    BY <1>6 DEF FlushStep, FlushBegins, FlushFinishes, FlushThrows, DropWal, MergeBegins, Running, bounds
  <2> QED  BY <2>1
<1>7. CASE MergeStep
  <2>1. merge.step # "none" /\ phase' = phase /\ starts' = starts
    BY <1>7 DEF MergeStep, MergeWrites, MergeRemoves, MergePublishes, bounds
  <2>2. phase = "up"
    BY <2>1 DEF Phases, NoMerge
  <2> QED  BY <2>1, <2>2
<1>8. CASE UNCHANGED vars
  BY <1>8 DEF vars, dirVars, memVars, startVars, bounds, Names
<1> QED  BY <1>1, <1>2, <1>3, <1>4, <1>5, <1>6, <1>7, <1>8 DEF Next, ReplayStep

\* Steps that leave the files, their readers and the compaction alone.
Elsewhere == UNCHANGED <<files, readers, gen, merge, starts>> /\ (phase' = "down" <=> phase = "down")
Ends == ReplayThrows \/ Crash \/ Exit

LEMMA Steps ==
    ASSUME Sound, [Next]_vars
    PROVE  \/ Open \/ OpenThrows \/ Ends \/ Elsewhere
           \/ \E i \in 1 .. Len(imms) : FlushBegins(i) \/ FlushFinishes(i)
           \/ MergeBegins \/ MergeWrites \/ MergeRemoves \/ MergePublishes
<1>1. CASE ReplayRecord \/ RemoveReplayedWal
  BY <1>1 DEF ReplayRecord, RemoveReplayedWal, Elsewhere, memVars, bounds
<1>2. ASSUME PutOrRemove \/ Close PROVE Elsewhere
  <2>1. UNCHANGED <<files, readers, gen, merge, starts>> /\ phase = "up" /\ phase' \in {"up", "closing"}
    BY <1>2 DEF PutOrRemove, Put, PutInNewTable, Store, Close, dirVars, bounds
  <2> QED  BY <2>1 DEF Elsewhere
<1>3. ASSUME DropWal PROVE Elsewhere
  <2>1. UNCHANGED <<files, readers, gen, merge, bounds, phase>>
    BY <1>3 DEF DropWal
  <2> QED  BY <2>1 DEF Elsewhere, bounds
<1>4. CASE UNCHANGED vars
  BY <1>4 DEF vars, dirVars, memVars, bounds, Elsewhere
<1>5. CASE FlushStep
  <2>1. ASSUME NEW i \in 1 .. Len(imms), FlushThrows(i) PROVE Elsewhere
    BY <2>1 DEF FlushThrows, Running, Elsewhere, dirVars, bounds
  <2>2. (\E i \in 1 .. Len(imms) : FlushBegins(i) \/ FlushFinishes(i)) \/ Elsewhere \/ DropWal
    BY <1>5, <2>1 DEF FlushStep
  <2> QED  BY <1>3, <2>2
<1>6. CASE ReplayStep \/ Crash \/ Exit
  BY <1>1, <1>6 DEF ReplayStep, Ends
<1>7. CASE MergeBegins \/ MergeStep
  BY <1>7 DEF MergeStep
<1> QED  BY <1>2, <1>4, <1>5, <1>6, <1>7 DEF Next

LEMMA EndFiles ==
    ASSUME Ends
    PROVE  /\ phase' = "down" /\ phase # "down" /\ readers' = <<>> /\ imms' = <<>> /\ doomed' = {}
           /\ merge' = NoMerge /\ active'.recs = <<>> /\ UNCHANGED <<files, wals, starts, puts>>
BY DEF Ends, ReplayThrows, Crash, Exit, ProcessEnds, NoTable, dirVars, bounds

\* A start-up opens every file, in the order of the names.
LEMMA OpenFiles ==
    ASSUME LifecycleAssumption, Sound, Open
    PROVE  /\ phase = "down" /\ phase' # "down" /\ merge' = NoMerge /\ starts' = starts + 1 /\ files' = files
           /\ imms' = <<>> /\ doomed' = {}
           /\ \A n \in Names : files[n].whole
           /\ Len(readers') = Len(NamesInOrder) /\ NamesInOrder \in Seq(Names)
           /\ \A i \in 1 .. Len(NamesInOrder) :
                 /\ NamesInOrder[i] \in Names /\ readers'[i].name = NamesInOrder[i]
                 /\ readers'[i].recs = files[NamesInOrder[i]].recs
<1>1. NamesInOrder \in Seq(Names) /\ Len(NamesInOrder) \in Nat
  BY NamesInOrderIs DEF Sound
<1>2. readers' = [i \in 1 .. Len(NamesInOrder) |-> Reader(NamesInOrder[i], files[NamesInOrder[i]].recs)]
  BY DEF Open
<1>3. Len(readers') = Len(NamesInOrder)
  BY <1>1, <1>2
<1>4. phase = "down" /\ phase' # "down" /\ merge' = NoMerge /\ starts' = starts + 1 /\ files' = files
      /\ imms' = <<>> /\ doomed' = {}
      /\ \A n \in Names : files[n].whole
  BY DEF Open, Sound, Phases
<1> QED  BY <1>1, <1>2, <1>3, <1>4 DEF Reader

LEMMA OpenedKept ==
    ASSUME LifecycleAssumption, Sound, Writing, Opened, Rounds, [Next]_vars, Fresh'
    PROVE  Opened'
<1>1. CASE Open
  <2>1. /\ phase' # "down" /\ files' = files /\ \A n \in Names : files[n].whole
        /\ Len(readers') = Len(NamesInOrder)
        /\ \A i \in 1 .. Len(NamesInOrder) :
              /\ NamesInOrder[i] \in Names /\ readers'[i].name = NamesInOrder[i]
              /\ readers'[i].recs = files[NamesInOrder[i]].recs
    BY <1>1, OpenFiles
  <2>2. \A n \in Names : \E i \in 1 .. Len(NamesInOrder) : NamesInOrder[i] = n
    BY NamesInOrderIs DEF Sound
  <2> QED  BY <2>1, <2>2 DEF Opened, Names, L0Names
<1>2. CASE OpenThrows
  BY <1>2 DEF OpenThrows, dirVars, memVars, Opened, Names, L0Names
<1>3. CASE Ends
  BY <1>3, EndFiles DEF Opened
<1>4. CASE Elsewhere
  BY <1>4 DEF Elsewhere, Opened, Names, L0Names
<1>5. ASSUME NEW h \in 1 .. Len(imms), FlushBegins(h) PROVE Opened'
  <2>1. /\ readers' = readers /\ gen' = gen + 1 /\ gen \in Nat
        /\ <<0, gen + 1>> \notin Names /\ DOMAIN files' = Names \cup {<<0, gen + 1>>}
        /\ ~ files'[<<0, gen + 1>>].whole
        /\ \A m \in Names : files'[m] = files[m]
    BY <1>5, BeginFile DEF Sound, Typed
  <2>2. phase' = phase /\ phase # "down"
    BY <1>5 DEF FlushBegins, Running
  <2>3. \A i \in 1 .. Len(readers) : readers[i].name # <<0, gen + 1>> /\ readers[i].name[2] \in Nat
    <3> TAKE i \in 1 .. Len(readers)
    <3>1. readers[i].name[2] \in Nat
      BY ReaderIs DEF Sound
    <3>2. CASE readers[i].name \in Names
      BY <2>1, <3>1, <3>2
    <3>3. CASE readers[i].name \notin Names
      BY <2>1, <3>1, <3>3 DEF Opened
    <3> QED  BY <3>1, <3>2, <3>3
  <2>4. L0Names # Names => L0Names' # Names'
    BY <2>1 DEF L0Names, Names
  <2>5. ASSUME NEW i \in 1 .. Len(readers)
        PROVE  /\ readers[i].name \in DOMAIN files' =>
                     files'[readers[i].name].whole /\ readers[i].recs = files'[readers[i].name].recs
               /\ readers[i].name \notin DOMAIN files' =>
                     readers[i].name[1] = 0 /\ readers[i].name[2] <= gen + 1 /\ L0Names' # Names'
    <3>1. readers[i].name \in DOMAIN files' <=> readers[i].name \in Names
      BY <2>1, <2>3
    <3>2. CASE readers[i].name \in Names
      BY <2>1, <3>1, <3>2 DEF Opened
    <3>3. CASE readers[i].name \notin Names
      BY <2>1, <2>3, <2>4, <3>1, <3>3 DEF Opened
    <3> QED  BY <3>2, <3>3
  <2>6. \A n \in L0Names' : files'[n].whole => \E i \in 1 .. Len(readers) : readers[i].name = n
    BY <2>1, <2>2 DEF Opened, L0Names, Names
  <2> QED  BY <2>1, <2>2, <2>5, <2>6 DEF Opened, Names
<1>6. ASSUME NEW h \in 1 .. Len(imms), FlushFinishes(h) PROVE Opened'
  <2>1. PICK f : f = imms[h].name
    OBVIOUS
  <2>2. PICK t : t = Reader(f, Survivors(imms[h].recs))
    OBVIOUS
  <2>3. /\ readers' = <<t>> \o readers /\ t.name = f /\ t.recs = Survivors(imms[h].recs)
        /\ \A i \in 1 .. Len(readers) : readers[i].name # f
        /\ UNCHANGED <<gen, phase>>
    BY <1>6, <2>1, <2>2, FinishFront DEF Sound, Reader
  <2>4. /\ f \in L0Names /\ DOMAIN files' = DOMAIN files
        /\ files'[f].recs = Survivors(imms[h].recs) /\ files'[f].whole
        /\ \A m \in Names : m # f => files'[m] = files[m]
    BY <1>6, <2>1, FinishIs DEF Sound
  <2>5. /\ Len(readers') = Len(readers) + 1 /\ Len(readers) \in Nat /\ readers'[1] = t
        /\ \A i \in 1 .. Len(readers) : readers'[i + 1] = readers[i]
        /\ \A i \in 1 .. Len(readers') : i = 1 \/ (i - 1 \in 1 .. Len(readers) /\ readers'[i] = readers[i - 1])
    BY <2>3, OneInFront DEF Sound, Typed
  <2>6. Names' = Names /\ L0Names' = L0Names
    BY <2>4 DEF Names, L0Names
  <2>7. ASSUME NEW i \in 1 .. Len(readers')
        PROVE  /\ readers'[i].name \in Names =>
                     files'[readers'[i].name].whole /\ readers'[i].recs = files'[readers'[i].name].recs
               /\ readers'[i].name \notin Names =>
                     readers'[i].name[1] = 0 /\ readers'[i].name[2] <= gen /\ L0Names # Names
    <3>1. CASE i = 1
      BY <2>3, <2>4, <2>5, <3>1 DEF L0Names
    <3>2. CASE i # 1
      <4>1. i - 1 \in 1 .. Len(readers) /\ readers'[i] = readers[i - 1]
        BY <2>5, <3>2
      <4> QED  BY <2>3, <2>4, <4>1 DEF Opened
    <3> QED  BY <3>1, <3>2
  <2>8. ASSUME NEW n \in L0Names, files'[n].whole PROVE \E i \in 1 .. Len(readers') : readers'[i].name = n
    <3>1. CASE n = f
      <4>1. 1 \in 1 .. Len(readers')
        BY <2>5
      <4> QED  BY <2>3, <2>5, <3>1, <4>1
    <3>2. CASE n # f
      <4>1. phase # "down" /\ files[n].whole
        BY <1>6, <2>4, <2>8, <3>2 DEF FlushFinishes, Running, L0Names
      <4>2. PICK i \in 1 .. Len(readers) : readers[i].name = n
        BY <4>1 DEF Opened
      <4>3. i + 1 \in 1 .. Len(readers') /\ readers'[i + 1].name = n
        BY <2>5, <4>2
      <4> QED  BY <4>3
    <3> QED  BY <3>1, <3>2
  <2>9. phase' # "down"
    BY <1>6 DEF FlushFinishes, Running
  <2> QED  BY <2>3, <2>6, <2>7, <2>8, <2>9 DEF Opened
<1>7. CASE MergeBegins
  <2>1. /\ readers' = readers /\ gen' = gen + 1 /\ gen \in Nat
        /\ <<1, gen + 1>> \notin Names /\ DOMAIN files' = Names \cup {<<1, gen + 1>>}
        /\ \A m \in Names : files'[m] = files[m]
    BY <1>7, MergeFile DEF Sound, Typed
  <2>2. phase' = phase /\ phase # "down"
    BY <1>7 DEF MergeBegins
  <2>3. L0Names' # Names' /\ L0Names' = L0Names
    BY <2>1 DEF L0Names, Names
  <2>4. ASSUME NEW i \in 1 .. Len(readers)
        PROVE  /\ readers[i].name \in DOMAIN files' =>
                     files'[readers[i].name].whole /\ readers[i].recs = files'[readers[i].name].recs
               /\ readers[i].name \notin DOMAIN files' => readers[i].name[1] = 0 /\ readers[i].name[2] <= gen + 1
    <3>1. readers[i].name[2] \in Nat
      BY ReaderIs DEF Sound
    <3>2. CASE readers[i].name \in Names
      BY <2>1, <3>2 DEF Opened
    <3>3. CASE readers[i].name \notin Names
      <4>1. readers[i].name[1] = 0 /\ readers[i].name[2] <= gen
        BY <3>3 DEF Opened
      <4>2. readers[i].name \notin DOMAIN files'
        BY <2>1, <3>3, <4>1
      <4> QED  BY <2>1, <3>1, <4>1, <4>2
    <3> QED  BY <3>2, <3>3
  <2>5. \A n \in L0Names : files'[n].whole => \E i \in 1 .. Len(readers) : readers[i].name = n
    BY <2>1, <2>2 DEF Opened, L0Names
  <2> QED  BY <2>1, <2>2, <2>3, <2>4, <2>5 DEF Opened, Names
<1>8. CASE MergeWrites
  <2>1. /\ merge.out \in Names /\ merge.out[1] = 1 /\ DOMAIN files' = DOMAIN files /\ files'[merge.out].whole
        /\ \A m \in Names : m # merge.out => files'[m] = files[m]
    BY <1>8, WriteIs DEF Sound
  <2>2. UNCHANGED <<readers, gen, phase>> /\ ~ files[merge.out].whole
    BY <1>8 DEF MergeWrites, memVars, Rounds
  <2>3. \A i \in 1 .. Len(readers) : readers[i].name # merge.out
    BY <2>1, <2>2 DEF Opened
  <2>4. Names' = Names /\ L0Names' = L0Names
    BY <2>1 DEF Names, L0Names
  <2>5. \A n \in L0Names : files'[n] = files[n]
    BY <2>1 DEF L0Names
  <2> QED  BY <2>1, <2>2, <2>3, <2>4, <2>5 DEF Opened
<1>9. CASE MergeRemoves
  <2>1. PICK n \in merge.in :
              /\ n[1] = 0 /\ merge.out[1] = 1 /\ merge.out \in Names
              /\ DOMAIN files' = DOMAIN files \ {n} /\ \A m \in DOMAIN files' : files'[m] = files[m]
    BY <1>9, RemoveIs DEF Sound
  <2>2. UNCHANGED <<readers, gen, phase>> /\ merge.step = "remove" /\ n \in L0Names
    BY <1>9, <2>1 DEF MergeRemoves, memVars, Sound, Merging
  <2>3. L0Names' # Names' /\ n[2] <= gen
    BY <2>1, <2>2 DEF L0Names, Names, Rounds
  <2>4. L0Names' = L0Names \ {n}
    BY <2>1 DEF L0Names, Names
  <2>5. ASSUME NEW i \in 1 .. Len(readers)
        PROVE  /\ readers[i].name \in DOMAIN files' =>
                     files'[readers[i].name].whole /\ readers[i].recs = files'[readers[i].name].recs
               /\ readers[i].name \notin DOMAIN files' => readers[i].name[1] = 0 /\ readers[i].name[2] <= gen
    <3>1. CASE readers[i].name = n
      BY <2>1, <2>3, <3>1
    <3>2. CASE readers[i].name # n
      BY <2>1, <3>2 DEF Opened, Names
    <3> QED  BY <3>1, <3>2
  <2>6. phase # "down"
    BY <2>2 DEF Sound, Phases, NoMerge
  <2>7. \A m \in L0Names' : files'[m].whole => \E i \in 1 .. Len(readers) : readers[i].name = m
    BY <2>1, <2>4, <2>6 DEF Opened, L0Names, Names
  <2> QED  BY <2>2, <2>3, <2>5, <2>6, <2>7 DEF Opened, Names
<1>10. CASE MergePublishes
  <2>1. PICK t : t = Reader(merge.out, files[merge.out].recs)
    OBVIOUS
  <2>2. /\ readers' = <<t>> \o readers /\ t.name = merge.out /\ t.recs = files[merge.out].recs
        /\ UNCHANGED <<gen, phase, files>> /\ merge.step = "remove" /\ merge.in = {}
    BY <1>10, <2>1 DEF MergePublishes, Reader, dirVars
  <2>3. /\ Len(readers') = Len(readers) + 1 /\ Len(readers) \in Nat /\ readers'[1] = t
        /\ \A i \in 1 .. Len(readers) : readers'[i + 1] = readers[i]
        /\ \A i \in 1 .. Len(readers') : i = 1 \/ (i - 1 \in 1 .. Len(readers) /\ readers'[i] = readers[i - 1])
    BY <2>2, OneInFront DEF Sound, Typed
  <2>4. files[merge.out].whole /\ L0Names = {} /\ merge.out \in Names
    BY <2>2 DEF Rounds, Sound, Merging
  <2>5. Names' = Names /\ L0Names' = L0Names
    BY <2>2 DEF Names, L0Names
  <2>6. ASSUME NEW i \in 1 .. Len(readers')
        PROVE  /\ readers'[i].name \in Names =>
                     files[readers'[i].name].whole /\ readers'[i].recs = files[readers'[i].name].recs
               /\ readers'[i].name \notin Names =>
                     readers'[i].name[1] = 0 /\ readers'[i].name[2] <= gen /\ L0Names # Names
    <3>1. CASE i = 1
      BY <2>2, <2>3, <2>4, <3>1
    <3>2. CASE i # 1
      <4>1. i - 1 \in 1 .. Len(readers) /\ readers'[i] = readers[i - 1]
        BY <2>3, <3>2
      <4> QED  BY <4>1 DEF Opened
    <3> QED  BY <3>1, <3>2
  <2>7. phase # "down"
    BY <2>2 DEF Sound, Phases, NoMerge
  <2> QED  BY <2>2, <2>4, <2>5, <2>6, <2>7 DEF Opened
<1> QED  BY <1>1, <1>2, <1>3, <1>4, <1>5, <1>6, <1>7, <1>8, <1>9, <1>10, Steps

LEMMA RoundsKept ==
    ASSUME LifecycleAssumption, Sound, Writing, Opened, Rounds, [Next]_vars, Fresh'
    PROVE  Rounds'
<1>1. CASE Open \/ Ends
  BY <1>1, OpenFiles, EndFiles DEF Rounds, NoMerge
<1>2. CASE OpenThrows
  BY <1>2 DEF OpenThrows, dirVars, Rounds, Names, L0Names
<1>3. CASE Elsewhere
  BY <1>3 DEF Elsewhere, Rounds, Names, L0Names
<1>4. ASSUME NEW h \in 1 .. Len(imms), FlushBegins(h) \/ FlushFinishes(h) PROVE Rounds'
  <2>1. merge.step = "none" /\ merge' = merge
    BY <1>4, FinishIs DEF FlushBegins, FlushFinishes, Sound
  <2> QED  BY <2>1 DEF Rounds
<1>5. CASE MergeBegins
  <2>1. /\ gen' = gen + 1 /\ gen \in Nat
        /\ merge' = [step |-> "write", in |-> L0Names, out |-> <<1, gen + 1>>]
        /\ DOMAIN files' = Names \cup {<<1, gen + 1>>}
        /\ ~ files'[<<1, gen + 1>>].whole
        /\ \A m \in Names : m[2] < gen + 1
    BY <1>5, MergeFile DEF Sound, Typed
  <2>2. L0Names' = L0Names
    BY <2>1 DEF L0Names, Names
  <2>3. \A n \in DOMAIN files' : n[2] <= gen + 1
    <3> TAKE n \in DOMAIN files'
    <3>1. CASE n \in Names
      <4>1. n[2] \in Nat
        BY <3>1 DEF Sound, Typed, Names
      <4> QED  BY <2>1, <3>1, <4>1
    <3>2. CASE n = <<1, gen + 1>>
      BY <2>1, <3>2
    <3> QED  BY <2>1, <3>1, <3>2
  <2> QED  BY <2>1, <2>2, <2>3 DEF Rounds, Names
<1>6. CASE MergeWrites
  <2>1. /\ DOMAIN files' = DOMAIN files /\ files'[merge.out].whole
        /\ merge'.in = merge.in /\ merge'.out = merge.out /\ merge'.step = "remove"
    BY <1>6, WriteIs DEF Sound
  <2>2. gen' = gen /\ merge.step = "write"
    BY <1>6 DEF MergeWrites
  <2> QED  BY <2>1, <2>2 DEF Rounds, Names, L0Names
<1>7. CASE MergeRemoves
  <2>1. PICK n \in merge.in :
              /\ n[1] = 0 /\ merge.out[1] = 1 /\ merge.out \in Names
              /\ DOMAIN files' = DOMAIN files \ {n} /\ \A m \in DOMAIN files' : files'[m] = files[m]
              /\ merge'.in = merge.in \ {n} /\ merge'.out = merge.out /\ merge'.step = "remove"
              /\ merge.step = "remove"
    BY <1>7, RemoveIs DEF Sound
  <2>2. gen' = gen
    BY <1>7 DEF MergeRemoves
  <2>3. L0Names' = L0Names \ {n}
    BY <2>1 DEF L0Names, Names
  <2>4. files'[merge.out] = files[merge.out]
    BY <2>1 DEF Names
  <2> QED  BY <2>1, <2>2, <2>3, <2>4 DEF Rounds, Names
<1>8. CASE MergePublishes
  BY <1>8 DEF MergePublishes, NoMerge, Rounds
<1> QED  BY <1>1, <1>2, <1>3, <1>4, <1>5, <1>6, <1>7, <1>8, Steps

LEMMA LinedKept ==
    ASSUME LifecycleAssumption, Sound, Begun, Writing, Opened, Rounds, Lined, [Next]_vars, Fresh'
    PROVE  Lined'
<1>1. CASE Open
  <2>1. /\ starts' = starts + 1 /\ files' = files
        /\ Len(readers') = Len(NamesInOrder) /\ NamesInOrder \in Seq(Names)
        /\ \A i \in 1 .. Len(NamesInOrder) :
              NamesInOrder[i] \in Names /\ readers'[i].name = NamesInOrder[i]
    BY <1>1, OpenFiles
  <2> SUFFICES ASSUME Recent', NEW i \in 1 .. Len(NamesInOrder), NEW j \in 1 .. Len(NamesInOrder), i < j
               PROVE  NamesInOrder[i] \in L0Names /\ NamesInOrder[j][2] < NamesInOrder[i][2]
    BY <2>1 DEF Lined, L0Names, Names
  <2>2. starts \in Nat /\ starts # 0
    BY <2>1 DEF Begun
  <2>3. NamesInOrder[i][1] = 0 /\ NamesInOrder[j][1] = 0
    BY <2>1, <2>2 DEF Recent
  <2>4. NameGreater(NamesInOrder[i], NamesInOrder[j])
    BY NamesInOrderIs DEF Sound
  <2>5. NamesInOrder[i][2] > NamesInOrder[j][2]
    BY <2>3, <2>4 DEF NameGreater
  <2>6. NamesInOrder[i] \in {0, 1} \X Nat /\ NamesInOrder[j] \in {0, 1} \X Nat
    BY <2>1 DEF Sound, Typed, Names
  <2> QED  BY <2>1, <2>3, <2>5, <2>6 DEF L0Names
<1>2. CASE OpenThrows
  <2>1. readers' = <<>>
    BY <1>2 DEF OpenThrows, memVars, Opened
  <2> QED  BY <2>1 DEF Lined
<1>3. CASE Ends
  BY <1>3, EndFiles DEF Lined
<1>4. CASE Elsewhere
  BY <1>4 DEF Elsewhere, Lined, Recent, Names, L0Names
<1>5. ASSUME NEW h \in 1 .. Len(imms), FlushBegins(h) PROVE Lined'
  <2>1. /\ readers' = readers /\ gen \in Nat
        /\ <<0, gen + 1>> \notin Names /\ DOMAIN files' = Names \cup {<<0, gen + 1>>}
        /\ ~ files'[<<0, gen + 1>>].whole
    BY <1>5, BeginFile DEF Sound, Typed
  <2>2. UNCHANGED <<merge, starts>>
    BY <1>5 DEF FlushBegins, bounds
  <2>3. Opened'
    BY LifecycleAssumption, OpenedKept
  <2>4. \A i \in 1 .. Len(readers) : readers[i].name # <<0, gen + 1>>
    BY <2>1, <2>3 DEF Opened, Names
  <2>5. \A i \in 1 .. Len(readers) : readers[i].name \in L0Names' <=> readers[i].name \in L0Names
    BY <2>1, <2>4 DEF L0Names, Names
  <2> QED  BY <2>1, <2>2, <2>5 DEF Lined, Recent
<1>6. ASSUME NEW h \in 1 .. Len(imms), FlushFinishes(h) PROVE Lined'
  <2>1. PICK f : f = imms[h].name
    OBVIOUS
  <2>2. PICK t : t = Reader(f, Survivors(imms[h].recs))
    OBVIOUS
  <2>3. /\ readers' = <<t>> \o readers /\ t.name = f
        /\ \A i \in 1 .. Len(readers) : readers[i].name # f
        /\ \A m \in Names : m = f \/ m[2] < f[2]
        /\ UNCHANGED <<merge, starts>>
    BY <1>6, <2>1, <2>2, FinishFront DEF Sound, Reader
  <2>4. f \in L0Names /\ L0Names' = L0Names
    BY <1>6, <2>1, FinishIs DEF Sound, L0Names, Names
  <2>5. /\ Len(readers') = Len(readers) + 1 /\ Len(readers) \in Nat /\ readers'[1] = t
        /\ \A i \in 1 .. Len(readers) : readers'[i + 1] = readers[i]
        /\ \A i \in 1 .. Len(readers') : i = 1 \/ (i - 1 \in 1 .. Len(readers) /\ readers'[i] = readers[i - 1])
    BY <2>3, OneInFront DEF Sound, Typed
  <2> SUFFICES ASSUME Recent', merge.step # "remove",
                      NEW i \in 1 .. Len(readers'), NEW j \in 1 .. Len(readers'), i < j, readers'[j].name \in L0Names
               PROVE  readers'[i].name \in L0Names /\ readers'[j].name[2] < readers'[i].name[2]
    BY <2>3, <2>4 DEF Lined
  <2>6. Recent
    <3>1. \A l \in 1 .. Len(readers) : l + 1 \in 1 .. Len(readers') /\ readers'[l + 1] = readers[l]
      BY <2>5
    <3> QED  BY <2>3, <3>1 DEF Recent
  <2>7. j - 1 \in 1 .. Len(readers) /\ readers'[j] = readers[j - 1]
    BY <2>5
  <2>8. CASE i = 1
    BY <2>3, <2>4, <2>5, <2>7, <2>8 DEF L0Names
  <2>9. CASE i # 1
    <3>1. i - 1 \in 1 .. Len(readers) /\ readers'[i] = readers[i - 1] /\ i - 1 < j - 1
      BY <2>5, <2>9
    <3> QED  BY <2>6, <2>7, <3>1 DEF Lined
  <2> QED  BY <2>8, <2>9
<1>7. CASE MergeBegins
  <2>1. readers' = readers /\ DOMAIN files' = Names \cup {<<1, gen + 1>>} /\ starts' = starts
        /\ merge.step = "none"
    BY <1>7, MergeFile DEF Sound, MergeBegins
  <2>2. L0Names' = L0Names
    BY <2>1 DEF L0Names, Names
  <2> QED  BY <2>1, <2>2 DEF Lined, Recent
<1>8. CASE MergeWrites \/ MergeRemoves
  <2>1. merge'.step = "remove"
    BY <1>8, WriteIs, RemoveIs DEF Sound
  <2> QED  BY <2>1 DEF Lined
<1>9. CASE MergePublishes
  <2>1. L0Names = {} /\ files' = files
    BY <1>9 DEF MergePublishes, Rounds, dirVars
  <2>2. L0Names' = {}
    BY <2>1 DEF L0Names, Names
  <2> QED  BY <2>2 DEF Lined
<1> QED  BY <1>1, <1>2, <1>3, <1>4, <1>5, <1>6, <1>7, <1>8, <1>9, Steps

\* The first reader that has the key.
LEMMA ReadersFound ==
    ASSUME Typed, NEW k \in Keys
    PROVE  /\ (\A i \in 1 .. Len(readers) : InFile(readers[i].recs)[k].ver = 0) => InReaders[k] = NoOp(k)
           /\ \A i \in 1 .. Len(readers) :
                 /\ InFile(readers[i].recs)[k].ver # 0
                 /\ \A j \in 1 .. Len(readers) : j < i => InFile(readers[j].recs)[k].ver = 0
                 => InReaders[k] = InFile(readers[i].recs)[k]
<1> DEFINE found == [i \in 1 .. Len(readers) |-> InFile(readers[i].recs)]
<1>1. InReaders = FirstFound(found) /\ DOMAIN found = 1 .. Len(readers) /\ DOMAIN found \subseteq Nat
  BY DEF InReaders
<1>2. \A i \in 1 .. Len(readers) : found[i] = InFile(readers[i].recs)
  OBVIOUS
<1> HIDE DEF found
<1> QED  BY <1>1, <1>2, FirstFoundIs

\* What a compaction writes is what queries find already, in the newest file that has the key.
LEMMA WrittenFound ==
    ASSUME Sound, Writing, Opened, Rounds, Lined, MergeWrites, Recent, NEW k \in Keys
    PROVE  InFile(Merged)[k].ver = 0 \/ InFile(Merged)[k] = InReaders[k]
<1> SUFFICES ASSUME InFile(Merged)[k].ver # 0 PROVE InFile(Merged)[k] = InReaders[k]
  OBVIOUS
<1>1. Merged \in SUBSET Ops /\ \A r \in Merged : r = Winner(r.key) /\ \E n \in merge.in : r \in files[n].recs
  BY MergedAre DEF Sound
<1>2. InFile(Merged)[k] \in Merged /\ InFile(Merged)[k].key = k
  BY <1>1, InFileIs
<1>3. InFile(Merged)[k] = Winner(k)
  BY <1>1, <1>2
<1>4. PICK o \in merge.in : InFile(Merged)[k] \in files[o].recs
  BY <1>1, <1>2
<1>5. PICK n \in merge.in :
          /\ Winner(k) = CHOOSE r \in files[n].recs : r.key = k
          /\ Winner(k) \in files[n].recs /\ Winner(k).key = k
          /\ \A m \in merge.in : (\E r \in files[m].recs : r.key = k) => m[2] <= n[2]
  BY <1>2, <1>4, WinnerFrom DEF Sound
<1>6. InFile(files[n].recs)[k] = Winner(k)
  BY <1>5 DEF InFile
<1>7. merge.step = "write" /\ merge.in = L0Names /\ phase # "down"
  BY DEF MergeWrites, Rounds, Sound, Phases, NoMerge
<1>8. n \in L0Names /\ n \in Names /\ files[n].whole
  BY <1>5, <1>7 DEF L0Names, Writing
<1>9. PICK i \in 1 .. Len(readers) : readers[i].name = n
  BY <1>7, <1>8 DEF Opened
<1>10. readers[i].recs = files[n].recs
  BY <1>8, <1>9 DEF Opened
<1>11. ASSUME NEW j \in 1 .. Len(readers), j < i PROVE InFile(readers[j].recs)[k].ver = 0
  <2>1. readers[j].name \in L0Names /\ n[2] < readers[j].name[2]
    BY <1>7, <1>8, <1>9, <1>11 DEF Lined
  <2>2. readers[j].recs = files[readers[j].name].recs
    BY <2>1 DEF Opened, L0Names
  <2>3. ~ (readers[j].name[2] <= n[2])
    BY <2>1, <1>9, ReaderIs DEF Sound
  <2>4. ~ \E r \in readers[j].recs : r.key = k
    BY <1>5, <1>7, <2>1, <2>2, <2>3
  <2> QED  BY <2>4, InFileIs, ReaderIs DEF Sound
<1>12. InReaders[k] = InFile(readers[i].recs)[k]
  BY <1>3, <1>6, <1>10, <1>11, ReadersFound DEF Sound
<1> QED  BY <1>3, <1>6, <1>10, <1>12

LEMMA MergedFoundKept ==
    ASSUME LifecycleAssumption, Sound, Writing, Opened, Rounds, Lined, MergedFound, [Next]_vars, Fresh'
    PROVE  MergedFound'
<1>1. CASE Open \/ Ends
  BY <1>1, OpenFiles, EndFiles DEF MergedFound, NoMerge
<1>2. CASE OpenThrows
  <2>1. phase = "down" /\ merge' = merge
    BY <1>2 DEF OpenThrows
  <2>2. merge'.step = "none"
    BY <2>1 DEF Sound, Phases, NoMerge
  <2> QED  BY <2>2 DEF MergedFound
<1>3. CASE Elsewhere
  BY <1>3 DEF Elsewhere, MergedFound, Recent, InReaders
<1>4. ASSUME NEW h \in 1 .. Len(imms), FlushBegins(h) \/ FlushFinishes(h) PROVE MergedFound'
  <2>1. merge.step = "none" /\ merge' = merge
    BY <1>4, FinishIs DEF FlushBegins, FlushFinishes, Sound
  <2> QED  BY <2>1 DEF MergedFound
<1>5. CASE MergeBegins \/ MergePublishes
  <2>1. merge'.step # "remove"
    BY <1>5 DEF MergeBegins, MergePublishes, NoMerge
  <2> QED  BY <2>1 DEF MergedFound
<1>6. CASE MergeWrites
  <2>1. files'[merge.out].recs = Merged /\ merge'.out = merge.out
    BY <1>6, WriteIs DEF Sound
  <2>2. readers' = readers /\ starts' = starts
    BY <1>6 DEF MergeWrites, memVars, bounds
  <2>3. InReaders' = InReaders /\ (Recent' <=> Recent)
    BY <2>2 DEF InReaders, Recent
  <2>4. \A k \in Keys : Recent => InFile(Merged)[k].ver = 0 \/ InFile(Merged)[k] = InReaders[k]
    BY <1>6, WrittenFound
  <2> QED  BY <2>1, <2>3, <2>4 DEF MergedFound
<1>7. CASE MergeRemoves
  <2>1. PICK n \in merge.in :
              /\ n[1] = 0 /\ merge.out[1] = 1 /\ merge.out \in Names
              /\ DOMAIN files' = DOMAIN files \ {n} /\ \A m \in DOMAIN files' : files'[m] = files[m]
              /\ merge'.out = merge.out /\ merge.step = "remove"
    BY <1>7, RemoveIs DEF Sound
  <2>2. readers' = readers /\ starts' = starts
    BY <1>7 DEF MergeRemoves, memVars, bounds
  <2>3. InReaders' = InReaders /\ (Recent' <=> Recent)
    BY <2>2 DEF InReaders, Recent
  <2>4. files'[merge.out] = files[merge.out]
    BY <2>1 DEF Names
  <2> QED  BY <2>1, <2>3, <2>4 DEF MergedFound
<1> QED  BY <1>1, <1>2, <1>3, <1>4, <1>5, <1>6, <1>7, Steps

\* The flush that finishes while none has failed is that of the oldest table.
LEMMA OldestFinishes ==
    ASSUME Sound, LogsHeld, TableLogs, Writing, Opened, NEW h \in 1 .. Len(imms), FlushFinishes(h), Smooth'
    PROVE  /\ h = 1 /\ Smooth /\ doomed = {}
           /\ Len(imms') = Len(imms) - 1 /\ \A i \in 1 .. Len(imms') : imms'[i] = imms[i + 1]
           /\ doomed' = {imms[1].wal} /\ UNCHANGED <<wals, phase, active, merge>>
           /\ wals[imms[1].wal] = imms[1].recs /\ imms[1].recs \in Seq(Ops)
           /\ Len(readers') = Len(readers) + 1 /\ readers'[1].recs = Survivors(imms[1].recs)
           /\ \A i \in 1 .. Len(readers) : readers'[i + 1] = readers[i]
           /\ \A i \in 1 .. Len(imms') : imms[1].wal < imms'[i].wal
<1>1. /\ imms[h].wal \in Nat /\ imms[h].recs \in Seq(Ops)
      /\ imms[h].step = "write" /\ doomed = {}
      /\ \A j \in 1 .. Len(imms) : (j < h => imms[j].step = "failed") /\ (j > h => imms[j].step = "new")
      /\ wals' = wals
  BY FinishIs DEF Sound
<1>2. imms' = RemoveAt(imms, h) /\ doomed' = doomed \cup {imms[h].wal} /\ UNCHANGED <<phase, active, merge>>
  BY DEF FlushFinishes
<1>3. /\ Len(imms') = Len(imms) - 1 /\ Len(imms) \in Nat
      /\ \A j \in 1 .. Len(imms') : imms'[j] = IF j < h THEN imms[j] ELSE imms[j + 1]
  <2>1. imms \in Seq(Tables)
    BY DEF Sound, Typed
  <2>2. Len(imms) \in Nat
    BY <2>1
  <2> QED  BY <1>2, <2>2, OneLess DEF Sound
<1>4. h = 1
  <2> SUFFICES ASSUME h # 1 PROVE FALSE
    OBVIOUS
  <2>1. 1 \in 1 .. Len(imms') /\ 1 < h /\ 1 \in 1 .. Len(imms)
    BY <1>3
  <2>2. imms'[1] = imms[1] /\ imms[1].step = "failed"
    BY <1>1, <1>3, <2>1
  <2> QED  BY <2>1, <2>2 DEF Smooth
<1>5. \A i \in 1 .. Len(imms') : imms'[i] = imms[i + 1] /\ i + 1 \in 1 .. Len(imms)
  BY <1>3, <1>4
<1>6. Smooth
  <2> SUFFICES ASSUME NEW j \in 1 .. Len(imms) PROVE imms[j].step # "failed"
    BY DEF Smooth
  <2>1. CASE j = 1
    BY <1>1, <1>4, <2>1
  <2>2. CASE j # 1
    BY <1>1, <1>4, <2>2
  <2> QED  BY <2>1, <2>2
<1>7. readers' = <<Reader(imms[1].name, Survivors(imms[1].recs))>> \o readers
  BY <1>4, FinishFront DEF Sound
<1>8. /\ Len(readers') = Len(readers) + 1 /\ readers'[1] = Reader(imms[1].name, Survivors(imms[1].recs))
      /\ \A i \in 1 .. Len(readers) : readers'[i + 1] = readers[i]
  <2>1. PICK S : readers \in Seq(S)
    BY DEF Sound, Typed
  <2> QED  BY <1>7, <2>1, OneInFront
<1>9. \A i \in 1 .. Len(imms') : imms[1].wal < imms'[i].wal
  <2> TAKE i \in 1 .. Len(imms')
  <2>1. i + 1 \in 1 .. Len(imms) /\ 1 < i + 1 /\ 1 \in 1 .. Len(imms)
    BY <1>3, <1>5
  <2> QED  BY <1>5, <2>1 DEF LogsHeld
<1>10. wals[imms[1].wal] = imms[1].recs
  BY <1>4 DEF TableLogs
<1> QED  BY <1>1, <1>2, <1>3, <1>4, <1>5, <1>6, <1>8, <1>9, <1>10 DEF Reader

LEMMA FlushedKept ==
    ASSUME LifecycleAssumption, Paced, Traced, Served, [Next]_vars, Fresh'
    PROVE  Flushed'
<1> USE DEF Traced, Served
<1>1. CASE Open \/ Ends
  BY <1>1, OpenFiles, EndFiles DEF Flushed
<1>2. CASE OpenThrows \/ ReplayRecord \/ RemoveReplayedWal
  <2>1. doomed' = {}
    BY <1>2 DEF OpenThrows, ReplayRecord, RemoveReplayedWal, memVars, Sound, Phases
  <2> QED  BY <2>1 DEF Flushed
<1>3. CASE PutOrRemove \/ Close
  <2>1. /\ UNCHANGED <<files, doomed, readers>> /\ phase = "up"
        /\ imms' = imms \/ imms' = Append(imms, Unflushed(active))
    BY <1>3 DEF PutOrRemove, Put, PutInNewTable, Store, Close, dirVars
  <2>2. \A w \in doomed : w \in DOMAIN wals /\ w < active.wal /\ w \in Nat /\ active.wal \in Nat
    BY <2>1 DEF LogsHeld, Sound, Typed
  <2>3. \A w \in doomed : wals'[w] = wals[w]
    <3>1. CASE Close
      BY <3>1 DEF Close, dirVars
    <3>2. CASE PutOrRemove
      <4>1. \A w \in DOMAIN wals : w # active.wal /\ (now' \in WalNames => w # now') => wals'[w] = wals[w]
        BY <3>2, PutLogs
      <4>2. now' \in WalNames => now' = now + 1
        BY DEF WalNames, Paced
      <4>3. \A w \in DOMAIN wals : w <= now /\ w \in Nat /\ now \in Nat
        BY DEF Sound, Clocked, Typed
      <4> QED  BY <2>2, <4>1, <4>2, <4>3
    <3> QED  BY <1>3, <3>1, <3>2
  <2>4. /\ Smooth' => Smooth
        /\ \A w \in doomed : (\A i \in 1 .. Len(imms) : w < imms[i].wal) => \A i \in 1 .. Len(imms') : w < imms'[i].wal
    <3>1. CASE imms' = imms
      BY <3>1 DEF Smooth
    <3>2. CASE imms' = Append(imms, Unflushed(active))
      <4>1. /\ Len(imms') = Len(imms) + 1 /\ Len(imms) \in Nat
            /\ \A j \in 1 .. Len(imms) : imms'[j] = imms[j]
            /\ imms'[Len(imms) + 1].wal = active.wal
        BY <3>2, SwitchIs DEF Sound
      <4>2. \A j \in 1 .. Len(imms) : j \in 1 .. Len(imms')
        BY <4>1
      <4>3. \A j \in 1 .. Len(imms') : j \in 1 .. Len(imms) \/ j = Len(imms) + 1
        BY <4>1
      <4> QED  BY <2>2, <4>1, <4>2, <4>3 DEF Smooth
    <3> QED  BY <2>1, <3>1, <3>2
  <2> QED  BY <2>1, <2>3, <2>4 DEF Flushed, Names, L0Names
<1>4. ASSUME NEW h \in 1 .. Len(imms), FlushBegins(h) PROVE Flushed'
  <2>1. doomed = {} /\ doomed' = doomed
    BY <1>4, NothingUnderWay DEF FlushBegins, Sound
  <2> QED  BY <2>1 DEF Flushed
<1>5. ASSUME NEW h \in 1 .. Len(imms), FlushFinishes(h) PROVE Flushed'
  <2> SUFFICES ASSUME Smooth'
               PROVE  \E w \in doomed' :
                         /\ doomed' = {w}
                         /\ 1 \in 1 .. Len(readers') /\ readers'[1].recs = Survivors(wals'[w])
                         /\ \A i \in 1 .. Len(imms') : w < imms'[i].wal
    BY DEF Flushed
  <2>1. /\ doomed' = {imms[1].wal} /\ wals' = wals /\ wals[imms[1].wal] = imms[1].recs
        /\ Len(readers') = Len(readers) + 1 /\ readers'[1].recs = Survivors(imms[1].recs)
        /\ \A i \in 1 .. Len(imms') : imms[1].wal < imms'[i].wal
    BY <1>5, OldestFinishes
  <2>2. 1 \in 1 .. Len(readers')
    BY <2>1 DEF Sound, Typed
  <2> QED  BY <2>1, <2>2
<1>6. ASSUME NEW h \in 1 .. Len(imms), FlushThrows(h) PROVE Flushed'
  <2>1. Len(imms') = Len(imms) /\ imms'[h].step = "failed"
    BY <1>6, ThrowIs DEF Sound
  <2>2. ~ Smooth'
    BY <2>1 DEF Smooth
  <2> QED  BY <2>2 DEF Flushed
<1>7. CASE DropWal
  <2>1. PICK w \in doomed : doomed' = doomed \ {w}
    BY <1>7 DEF DropWal
  <2>2. UNCHANGED <<files, imms, readers>>
    BY <1>7 DEF DropWal
  <2>3. Smooth /\ doomed # {} /\ L0Names = Names => doomed' = {}
    BY <2>1 DEF Flushed
  <2> QED  BY <2>1, <2>2, <2>3 DEF Flushed, Smooth, Names, L0Names
<1>8. CASE MergeBegins
  <2>1. DOMAIN files' = Names \cup {<<1, gen + 1>>}
    BY <1>8, MergeFile DEF Sound
  <2>2. <<1, gen + 1>> \in Names' /\ <<1, gen + 1>> \notin L0Names'
    BY <2>1 DEF L0Names, Names
  <2> QED  BY <2>2 DEF Flushed
<1>9. CASE MergeStep
  <2>1. merge.out \in DOMAIN files' /\ merge.out[1] = 1
    <3>1. merge.out \in Names /\ merge.out[1] = 1
      <4>1. merge.step # "none" /\ merge.out \in {1} \X Nat
        BY <1>9 DEF MergeStep, MergeWrites, MergeRemoves, MergePublishes, Sound, Typed
      <4> QED  BY <4>1 DEF Sound, Merging
    <3>2. CASE MergeWrites
      BY <3>1, <3>2, WriteIs DEF Sound, Names
    <3>3. CASE MergeRemoves
      <4>1. PICK n \in merge.in : n[1] = 0 /\ DOMAIN files' = DOMAIN files \ {n}
        BY <3>3, RemoveIs DEF Sound
      <4> QED  BY <3>1, <4>1 DEF Names
    <3>4. CASE MergePublishes
      BY <3>1, <3>4 DEF MergePublishes, dirVars, Names
    <3> QED  BY <1>9, <3>2, <3>3, <3>4 DEF MergeStep
  <2>2. L0Names' # Names'
    BY <2>1 DEF L0Names, Names
  <2> QED  BY <2>2 DEF Flushed
<1>10. CASE UNCHANGED vars
  BY <1>10 DEF vars, dirVars, memVars, Flushed, Smooth, Names, L0Names
<1> QED  BY <1>1, <1>2, <1>3, <1>4, <1>5, <1>6, <1>7, <1>8, <1>9, <1>10 DEF Next, ReplayStep, FlushStep, Ends

LEMMA ClosedKept ==
    ASSUME LifecycleAssumption, Paced, Traced, Served, [Next]_vars, Fresh'
    PROVE  Closed'
<1> USE DEF Traced, Served
<1>1. CASE phase' # "closing"
  BY <1>1 DEF Closed
<1>2. CASE Close
  <2>1. phase = "up" /\ active'.wal = active.wal /\ active'.recs = active.recs /\ UNCHANGED <<wals, doomed>>
    BY <1>2 DEF Close, dirVars, Sound, Typed
  <2> QED  BY <2>1 DEF Closed, LogsHeld, TableLogs
<1>3. ASSUME NEW h \in 1 .. Len(imms), FlushBegins(h) PROVE Closed'
  <2>1. UNCHANGED <<wals, phase, active, doomed>> /\ Len(imms') = Len(imms) /\ imms[h].step = "new"
        /\ \A j \in 1 .. Len(imms) : j # h => imms'[j] = imms[j]
    BY <1>3, BeginIs DEF FlushBegins, Sound
  <2>2. imms # <<>> /\ (Smooth' => Smooth)
    BY <2>1 DEF Smooth
  <2> QED  BY <2>1, <2>2 DEF Closed
<1>4. ASSUME NEW h \in 1 .. Len(imms), FlushThrows(h) PROVE Closed'
  <2>1. Len(imms') = Len(imms) /\ imms'[h].step = "failed"
    BY <1>4, ThrowIs DEF Sound
  <2>2. ~ Smooth'
    BY <2>1 DEF Smooth
  <2> QED  BY <2>2 DEF Closed
<1>5. ASSUME NEW h \in 1 .. Len(imms), FlushFinishes(h), phase' = "closing" PROVE Closed'
  <2> SUFFICES ASSUME Smooth'
               PROVE  \/ active.wal \in DOMAIN wals \ doomed' /\ wals[active.wal] = active.recs
                      \/ /\ imms' = <<>> /\ doomed' \subseteq {active.wal} /\ active.wal \notin DOMAIN wals \ doomed'
                         /\ 1 \in 1 .. Len(readers') /\ readers'[1].recs = Survivors(active.recs)
    BY <1>5, OldestFinishes DEF Closed
  <2>1. /\ h = 1 /\ Smooth /\ doomed' = {imms[1].wal} /\ UNCHANGED <<wals, phase, active>>
        /\ wals[imms[1].wal] = imms[1].recs
        /\ Len(imms') = Len(imms) - 1 /\ \A i \in 1 .. Len(imms') : imms'[i] = imms[i + 1]
        /\ Len(readers') = Len(readers) + 1 /\ readers'[1].recs = Survivors(imms[1].recs)
        /\ \A i \in 1 .. Len(imms') : imms[1].wal < imms'[i].wal
    BY <1>5, OldestFinishes
  <2>2. active.wal \in DOMAIN wals \ doomed /\ wals[active.wal] = active.recs
    <3>1. imms # <<>>
      BY <2>1
    <3> QED  BY <1>5, <2>1, <3>1 DEF Closed
  <2>3. CASE imms[1].wal # active.wal
    BY <2>1, <2>2, <2>3
  <2>4. CASE imms[1].wal = active.wal
    <3>1. imms' \in Seq(Tables)
      BY LifecycleAssumption, TypedKept DEF Typed
    <3>2. ASSUME imms' # <<>> PROVE FALSE
      <4>1. 1 \in 1 .. Len(imms') /\ 2 \in 1 .. Len(imms) /\ imms'[1] = imms[2]
        BY <2>1, <3>1, <3>2 DEF Sound, Typed
      <4>2. active.wal < imms[2].wal /\ imms[2].wal \in DOMAIN wals
        BY <2>1, <2>4, <4>1 DEF LogsHeld
      <4>3. imms[2].wal <= active.wal
        BY <1>5, <2>1, <4>2 DEF LogsHeld
      <4>4. imms[2].wal \in Nat /\ active.wal \in Nat
        BY <4>2 DEF Sound, Typed
      <4> QED  BY <4>2, <4>3, <4>4
    <3>3. 1 \in 1 .. Len(readers')
      BY <2>1 DEF Sound, Typed
    <3> QED  BY <2>1, <2>2, <2>4, <3>2, <3>3
  <2> QED  BY <2>3, <2>4
<1>6. CASE DropWal
  <2>1. PICK w \in doomed : wals' = Without(wals, w) /\ doomed' = doomed \ {w}
    BY <1>6 DEF DropWal
  <2>2. UNCHANGED <<phase, active, imms, readers>>
    BY <1>6 DEF DropWal
  <2>3. DOMAIN wals' = DOMAIN wals \ {w} /\ \A v \in DOMAIN wals' : wals'[v] = wals[v]
    BY <2>1 DEF Without
  <2>4. Smooth' => Smooth
    BY <2>2 DEF Smooth
  <2> QED  BY <2>1, <2>2, <2>3, <2>4 DEF Closed
<1>7. CASE Open \/ OpenThrows \/ ReplayStep \/ PutOrRemove \/ Crash \/ Exit \/ MergeBegins \/ MergeStep
  <2>1. phase' # "closing"
    <3>1. CASE MergeStep
      <4>1. merge.step # "none" /\ phase' = phase
        BY <3>1 DEF MergeStep, MergeWrites, MergeRemoves, MergePublishes
      <4> QED  BY <4>1 DEF Sound, Phases, NoMerge
    <3>2. CASE Open \/ OpenThrows \/ ReplayStep \/ PutOrRemove \/ Crash \/ Exit \/ MergeBegins
      BY <3>2 DEF Open, OpenThrows, ReplayStep, ReplayRecord, ReplayThrows, RemoveReplayedWal, PutOrRemove, Put,
                  PutInNewTable, Store, Crash, Exit, ProcessEnds, MergeBegins
    <3> QED  BY <1>7, <3>1, <3>2
  <2> QED  BY <2>1 DEF Closed
<1>8. CASE UNCHANGED vars
  BY <1>8 DEF vars, dirVars, memVars, Closed, Smooth
<1> QED  BY <1>1, <1>2, <1>3, <1>4, <1>5, <1>6, <1>7, <1>8 DEF Next, FlushStep

LEMMA ToldAtStart ==
    ASSUME LifecycleAssumption, Init
    PROVE  Told
<1>1. Sound /\ LogsHeld /\ TableLogs /\ Writing
  BY SoundAtStart, StoredAtStart DEF Stored
<1>2. /\ phase = "down" /\ Names = {} /\ starts = 0 /\ readers = <<>> /\ merge.step = "none"
      /\ doomed = {}
  BY DEF Init, Names, NoMerge
<1>3. Begun /\ Opened /\ Rounds
  BY <1>2 DEF Begun, Opened, Rounds, L0Names
<1>4. Lined /\ MergedFound /\ Flushed /\ Closed
  BY <1>2 DEF Lined, MergedFound, Flushed, Closed
<1> QED  BY <1>1, <1>3, <1>4 DEF Told, Traced, Served

LEMMA ToldKept ==
    ASSUME LifecycleAssumption, Paced, Told, [Next]_vars
    PROVE  Told'
<1>1. Traced'
  BY SoundKept, LogsHeldKept, TableLogsKept, BegunKept DEF Told, Traced, Paced
<1>2. ASSUME Fresh' PROVE Served'
  <2>1. Traced /\ Served
    BY <1>2, FreshBefore DEF Told
  <2>2. Writing' /\ Opened' /\ Rounds'
    BY <1>2, <2>1, WritingKept, OpenedKept, RoundsKept DEF Traced, Served, Fresh
  <2>3. Lined' /\ MergedFound'
    BY <1>2, <2>1, LinedKept, MergedFoundKept DEF Traced, Served
  <2>4. Flushed' /\ Closed'
    BY <1>2, <2>1, FlushedKept, ClosedKept
  <2> QED  BY <2>2, <2>3, <2>4 DEF Served
<1> QED  BY <1>1, <1>2 DEF Told

\* As long as no file has a number below that of another: the readers serve what is in the
\* directory, the newest file first, a finished compaction has written only what the readers find, and
\* the log of a flushed table is older than the tables in memory.
THEOREM InductiveServed ==
    ASSUME Paced
    PROVE  Spec => []Told
<1>1. Init => Told
  BY LifecycleAssumption, ToldAtStart
<1>2. Told /\ [Next]_vars => Told'
  BY LifecycleAssumption, ToldKept
<1> QED  BY <1>1, <1>2, PTL DEF Spec

-----------------------------------------------------------------------------
(* What several places find together.                                      *)

LEMMA NoOpIs == \A k \in Keys : NoOp(k).ver = 0
BY DEF NoOp

LEMMA OverIs ==
    ASSUME NEW upper, NEW lower, NEW k \in Keys
    PROVE  Over(upper, lower)[k] = IF upper[k].ver # 0 THEN upper[k] ELSE lower[k]
BY DEF Over

LEMMA LastFoundAt ==
    ASSUME NEW found, NEW n \in Nat, DOMAIN found \subseteq 0 .. n, NEW k \in Keys, NEW i \in DOMAIN found,
           found[i][k].ver # 0, \A j \in DOMAIN found : i < j => found[j][k].ver = 0
    PROVE  LastFound(found)[k] = found[i][k]
BY LastFoundIs

LEMMA LastFoundNone ==
    ASSUME NEW found, NEW n \in Nat, DOMAIN found \subseteq 0 .. n, NEW k \in Keys,
           \A i \in DOMAIN found : found[i][k].ver = 0
    PROVE  LastFound(found)[k] = NoOp(k)
BY LastFoundIs

LEMMA FirstFoundAt ==
    ASSUME NEW found, DOMAIN found \subseteq Nat, NEW k \in Keys, NEW i \in DOMAIN found,
           found[i][k].ver # 0, \A j \in DOMAIN found : j < i => found[j][k].ver = 0
    PROVE  FirstFound(found)[k] = found[i][k]
BY FirstFoundIs

LEMMA LastFoundHas ==
    ASSUME NEW found, NEW n \in Nat, DOMAIN found \subseteq 0 .. n, NEW k \in Keys,
           NEW i \in DOMAIN found, found[i][k].ver # 0
    PROVE  \E h \in DOMAIN found : /\ found[h][k].ver # 0 /\ LastFound(found)[k] = found[h][k]
                                   /\ \A j \in DOMAIN found : h < j => found[j][k].ver = 0
BY LastFoundIs

\* One more place in front of those that are asked from the last to the first.
LEMMA FoundBehind ==
    ASSUME NEW n \in Nat, NEW f, DOMAIN f = 1 .. n, NEW g, DOMAIN g = 1 .. n + 1,
           \A i \in 1 .. n : g[i] = f[i], NEW k \in Keys
    PROVE  LastFound(g)[k] = IF g[n + 1][k].ver # 0 THEN g[n + 1][k] ELSE LastFound(f)[k]
<1> PICK m \in Nat : m = n + 1
  OBVIOUS
<1>1. DOMAIN f \subseteq 0 .. m /\ DOMAIN g \subseteq 0 .. m /\ n + 1 \in DOMAIN g
  OBVIOUS
<1>2. \A i \in DOMAIN g : i \in DOMAIN f \/ i = n + 1
  OBVIOUS
<1>3. CASE g[n + 1][k].ver # 0
  <2>1. \A j \in DOMAIN g : ~ (n + 1 < j)
    OBVIOUS
  <2>2. LastFound(g)[k] = g[n + 1][k]
    BY <1>1, <1>3, <2>1, LastFoundAt
  <2> QED  BY <1>3, <2>2
<1>4. CASE g[n + 1][k].ver = 0
  <2>1. CASE \A i \in DOMAIN f : f[i][k].ver = 0
    <3>1. \A i \in DOMAIN g : g[i][k].ver = 0
      BY <1>2, <1>4, <2>1
    <3>2. LastFound(g)[k] = NoOp(k)
      BY <1>1, <3>1, LastFoundNone
    <3>3. LastFound(f)[k] = NoOp(k)
      BY <1>1, <2>1, LastFoundNone
    <3> QED  BY <1>4, <3>2, <3>3
  <2>2. CASE \E i \in DOMAIN f : f[i][k].ver # 0
    <3>1. PICK i \in DOMAIN f : /\ f[i][k].ver # 0 /\ LastFound(f)[k] = f[i][k]
                                /\ \A j \in DOMAIN f : i < j => f[j][k].ver = 0
      <4> PICK h \in DOMAIN f : f[h][k].ver # 0
        BY <2>2
      <4> QED  BY <1>1, LastFoundHas
    <3>2. i \in DOMAIN g /\ g[i] = f[i] /\ g[i][k].ver # 0
      BY <3>1
    <3>3. \A j \in DOMAIN g : i < j => g[j][k].ver = 0
      BY <1>2, <1>4, <3>1
    <3>4. LastFound(g)[k] = g[i][k]
      BY <1>1, <3>2, <3>3, LastFoundAt
    <3> QED  BY <1>4, <3>1, <3>2, <3>4
  <2> QED  BY <2>1, <2>2
<1> QED  BY <1>3, <1>4

\* The last of those places is taken away.
LEMMA FoundTaken ==
    ASSUME NEW a \in Nat, NEW n \in Nat, a <= n, NEW f, DOMAIN f = a .. n, NEW g, DOMAIN g = a .. n - 1,
           \A i \in a .. n - 1 : g[i] = f[i + 1], NEW k \in Keys, f[a][k].ver = 0 => f[a][k] = NoOp(k)
    PROVE  LastFound(f)[k] = IF LastFound(g)[k].ver # 0 THEN LastFound(g)[k] ELSE f[a][k]
<1>1. DOMAIN f \subseteq 0 .. n /\ DOMAIN g \subseteq 0 .. n /\ a \in DOMAIN f
  OBVIOUS
<1>2. \A i \in DOMAIN f : i = a \/ (i - 1 \in DOMAIN g /\ f[i] = g[i - 1] /\ i \in Nat)
  <2> TAKE i \in DOMAIN f
  <2>1. i = a \/ (i - 1 \in a .. n - 1 /\ (i - 1) + 1 = i)
    OBVIOUS
  <2> QED  BY <2>1
<1>3. \A i \in DOMAIN g : i + 1 \in DOMAIN f /\ f[i + 1] = g[i] /\ i \in Nat
  OBVIOUS
<1>4. CASE \A i \in DOMAIN g : g[i][k].ver = 0
  <2>1. LastFound(g)[k] = NoOp(k) /\ NoOp(k).ver = 0
    BY <1>1, <1>4, LastFoundNone, NoOpIs
  <2>2. \A i \in DOMAIN f : a < i => f[i][k].ver = 0
    <3> SUFFICES ASSUME NEW i \in DOMAIN f, a < i PROVE f[i][k].ver = 0
      OBVIOUS
    <3>1. i - 1 \in DOMAIN g /\ f[i] = g[i - 1]
      BY <1>2
    <3> QED  BY <1>4, <3>1
  <2>3. CASE f[a][k].ver # 0
    <3>1. LastFound(f)[k] = f[a][k]
      BY <1>1, <2>2, <2>3, LastFoundAt
    <3> QED  BY <2>1, <3>1
  <2>4. CASE f[a][k].ver = 0
    <3>1. \A i \in DOMAIN f : f[i][k].ver = 0
      <4> TAKE i \in DOMAIN f
      <4>1. i = a \/ a < i
        BY <1>2
      <4> QED  BY <2>2, <2>4, <4>1
    <3>2. LastFound(f)[k] = NoOp(k)
      BY <1>1, <3>1, LastFoundNone
    <3> QED  BY <2>1, <2>4, <3>2
  <2> QED  BY <2>3, <2>4
<1>5. CASE \E i \in DOMAIN g : g[i][k].ver # 0
  <2>1. PICK i \in DOMAIN g : /\ g[i][k].ver # 0 /\ LastFound(g)[k] = g[i][k]
                              /\ \A j \in DOMAIN g : i < j => g[j][k].ver = 0
    <3> PICK h \in DOMAIN g : g[h][k].ver # 0
      BY <1>5
    <3> QED  BY <1>1, LastFoundHas
  <2>2. \A j \in DOMAIN f : i + 1 < j => f[j][k].ver = 0
    <3> SUFFICES ASSUME NEW j \in DOMAIN f, i + 1 < j PROVE f[j][k].ver = 0
      OBVIOUS
    <3>1. j # a /\ i < j - 1
      BY <1>2
    <3>2. j - 1 \in DOMAIN g /\ f[j] = g[j - 1]
      BY <1>2, <3>1
    <3> QED  BY <2>1, <3>1, <3>2
  <2>3. i + 1 \in DOMAIN f /\ f[i + 1] = g[i]
    BY <1>3
  <2>4. LastFound(f)[k] = f[i + 1][k]
    BY <1>1, <2>1, <2>2, <2>3, LastFoundAt
  <2> QED  BY <2>1, <2>3, <2>4
<1> QED  BY <1>4, <1>5

\* A reader in front of the others.
LEMMA FoundInFront ==
    ASSUME NEW n \in Nat, NEW f, DOMAIN f = 1 .. n, NEW g, DOMAIN g = 1 .. n + 1,
           \A i \in 1 .. n : g[i + 1] = f[i], NEW k \in Keys
    PROVE  FirstFound(g)[k] = IF g[1][k].ver # 0 THEN g[1][k] ELSE FirstFound(f)[k]
<1>1. DOMAIN f \subseteq Nat /\ DOMAIN g \subseteq Nat /\ 1 \in DOMAIN g
  OBVIOUS
<1>2. \A i \in DOMAIN g : i = 1 \/ (i - 1 \in DOMAIN f /\ g[i] = f[i - 1] /\ i \in Nat)
  <2> TAKE i \in DOMAIN g
  <2>1. i = 1 \/ (i - 1 \in 1 .. n /\ (i - 1) + 1 = i)
    OBVIOUS
  <2> QED  BY <2>1
<1>3. CASE g[1][k].ver # 0
  <2>1. \A j \in DOMAIN g : ~ (j < 1)
    OBVIOUS
  <2>2. FirstFound(g)[k] = g[1][k]
    BY <1>1, <1>3, <2>1, FirstFoundAt
  <2> QED  BY <1>3, <2>2
<1>4. CASE g[1][k].ver = 0
  <2>1. CASE \A i \in DOMAIN f : f[i][k].ver = 0
    <3>1. \A i \in DOMAIN g : g[i][k].ver = 0
      BY <1>2, <1>4, <2>1
    <3>2. FirstFound(g)[k] = NoOp(k) /\ FirstFound(f)[k] = NoOp(k)
      BY <1>1, <2>1, <3>1, FirstFoundIs
    <3> QED  BY <1>4, <3>2
  <2>2. CASE \E i \in DOMAIN f : f[i][k].ver # 0
    <3>1. PICK i \in DOMAIN f : /\ f[i][k].ver # 0 /\ FirstFound(f)[k] = f[i][k]
                                /\ \A j \in DOMAIN f : j < i => f[j][k].ver = 0
      BY <1>1, <2>2, FirstFoundIs
    <3>2. i + 1 \in DOMAIN g /\ g[i + 1] = f[i] /\ i \in Nat
      OBVIOUS
    <3>3. \A j \in DOMAIN g : j < i + 1 => g[j][k].ver = 0
      <4> SUFFICES ASSUME NEW j \in DOMAIN g, j < i + 1 PROVE g[j][k].ver = 0
        OBVIOUS
      <4>1. CASE j = 1
        BY <1>4, <4>1
      <4>2. CASE j # 1
        <5>1. j - 1 \in DOMAIN f /\ g[j] = f[j - 1] /\ j - 1 < i
          BY <1>2, <3>2, <4>2
        <5> QED  BY <3>1, <5>1
      <4> QED  BY <4>1, <4>2
    <3>4. g[i + 1][k].ver # 0
      BY <3>1, <3>2
    <3>5. FirstFound(g)[k] = g[i + 1][k]
      BY <1>1, <3>2, <3>3, <3>4, FirstFoundAt
    <3> QED  BY <1>4, <3>1, <3>2, <3>5
  <2> QED  BY <2>1, <2>2
<1> QED  BY <1>3, <1>4

\* The tables of s, the last of them asked first, and the readers of s, asked in turn.
TablesOf(s) == LastFound([i \in 1 .. Len(s) |-> InTable(s[i].recs)])
ReadersOf(s) == FirstFound([i \in 1 .. Len(s) |-> InFile(s[i].recs)])

LEMMA InMemory ==
    /\ InTables = TablesOf(imms) /\ InTables' = TablesOf(imms')
    /\ InReaders = ReadersOf(readers) /\ InReaders' = ReadersOf(readers')
BY DEF InTables, InReaders, TablesOf, ReadersOf

LEMMA TablesFound ==
    ASSUME NEW s, Len(s) \in Nat, NEW k \in Keys
    PROVE  /\ (\A i \in 1 .. Len(s) : InTable(s[i].recs)[k].ver = 0) => TablesOf(s)[k] = NoOp(k)
           /\ (\E i \in 1 .. Len(s) : InTable(s[i].recs)[k].ver # 0) =>
                 \E i \in 1 .. Len(s) :
                    /\ InTable(s[i].recs)[k].ver # 0 /\ TablesOf(s)[k] = InTable(s[i].recs)[k]
                    /\ \A j \in 1 .. Len(s) : i < j => InTable(s[j].recs)[k].ver = 0
<1> DEFINE f == [i \in 1 .. Len(s) |-> InTable(s[i].recs)]
<1>1. DOMAIN f = 1 .. Len(s) /\ DOMAIN f \subseteq 0 .. Len(s) /\ TablesOf(s) = LastFound(f)
      /\ \A i \in 1 .. Len(s) : f[i] = InTable(s[i].recs)
  BY DEF TablesOf
<1> HIDE DEF f
<1>2. ASSUME \A i \in DOMAIN f : f[i][k].ver = 0 PROVE LastFound(f)[k] = NoOp(k)
  BY <1>1, <1>2, LastFoundNone
<1>3. ASSUME NEW h \in DOMAIN f, f[h][k].ver # 0
      PROVE  \E i \in DOMAIN f : /\ f[i][k].ver # 0 /\ LastFound(f)[k] = f[i][k]
                                  /\ \A j \in DOMAIN f : i < j => f[j][k].ver = 0
  BY <1>1, <1>3, LastFoundHas
<1> QED  BY <1>1, <1>2, <1>3

LEMMA TablesAlike ==
    ASSUME NEW s, NEW t, Len(s) = Len(t), \A i \in 1 .. Len(s) : s[i].recs = t[i].recs
    PROVE  TablesOf(s) = TablesOf(t)
<1>1. [i \in 1 .. Len(s) |-> InTable(s[i].recs)] = [i \in 1 .. Len(t) |-> InTable(t[i].recs)]
  OBVIOUS
<1> QED  BY <1>1 DEF TablesOf

LEMMA TableBehind ==
    ASSUME NEW s, NEW t, Len(s) \in Nat, Len(t) = Len(s) + 1, \A i \in 1 .. Len(s) : t[i] = s[i], NEW k \in Keys
    PROVE  TablesOf(t)[k] = IF InTable(t[Len(t)].recs)[k].ver # 0 THEN InTable(t[Len(t)].recs)[k] ELSE TablesOf(s)[k]
<1> DEFINE f == [i \in 1 .. Len(s) |-> InTable(s[i].recs)]
           g == [i \in 1 .. Len(t) |-> InTable(t[i].recs)]
<1>1. DOMAIN f = 1 .. Len(s) /\ DOMAIN g = 1 .. Len(s) + 1 /\ \A i \in 1 .. Len(s) : g[i] = f[i]
  OBVIOUS
<1>2. TablesOf(s) = LastFound(f) /\ TablesOf(t) = LastFound(g) /\ g[Len(s) + 1] = InTable(t[Len(t)].recs)
  BY DEF TablesOf
<1> HIDE DEF f, g
<1> PICK n \in Nat : n = Len(s)
  OBVIOUS
<1>3. LastFound(g)[k] = IF g[n + 1][k].ver # 0 THEN g[n + 1][k] ELSE LastFound(f)[k]
  <2>1. DOMAIN f = 1 .. n /\ DOMAIN g = 1 .. n + 1 /\ \A i \in 1 .. n : g[i] = f[i]
    BY <1>1
  <2> QED  BY <2>1, FoundBehind
<1> QED  BY <1>2, <1>3

LEMMA TableTaken ==
    ASSUME NEW s, NEW t, Len(s) \in Nat \ {0}, Len(t) = Len(s) - 1, \A i \in 1 .. Len(t) : t[i] = s[i + 1],
           s[1].recs \in Seq(Ops), NEW k \in Keys
    PROVE  TablesOf(s)[k] = IF TablesOf(t)[k].ver # 0 THEN TablesOf(t)[k] ELSE InTable(s[1].recs)[k]
<1> DEFINE f == [i \in 1 .. Len(s) |-> InTable(s[i].recs)]
           g == [i \in 1 .. Len(t) |-> InTable(t[i].recs)]
<1>1. DOMAIN f = 1 .. Len(s) /\ DOMAIN g = 1 .. Len(s) - 1 /\ \A i \in 1 .. Len(s) - 1 : g[i] = f[i + 1]
  OBVIOUS
<1>2. TablesOf(s) = LastFound(f) /\ TablesOf(t) = LastFound(g) /\ f[1] = InTable(s[1].recs)
  BY DEF TablesOf
<1> HIDE DEF f, g
<1>3. f[1][k].ver = 0 => f[1][k] = NoOp(k)
  BY <1>2, NotFound
<1> PICK n \in Nat : n = Len(s)
  OBVIOUS
<1>4. 1 \in Nat /\ 1 <= n /\ DOMAIN f = 1 .. n /\ DOMAIN g = 1 .. n - 1 /\ \A i \in 1 .. n - 1 : g[i] = f[i + 1]
  BY <1>1
<1>5. LastFound(f)[k] = IF LastFound(g)[k].ver # 0 THEN LastFound(g)[k] ELSE f[1][k]
  BY <1>3, <1>4, FoundTaken
<1> QED  BY <1>2, <1>5

LEMMA ReaderInFront ==
    ASSUME NEW s, NEW t, Len(s) \in Nat, Len(t) = Len(s) + 1, \A i \in 1 .. Len(s) : t[i + 1] = s[i], NEW k \in Keys
    PROVE  ReadersOf(t)[k] = IF InFile(t[1].recs)[k].ver # 0 THEN InFile(t[1].recs)[k] ELSE ReadersOf(s)[k]
<1> DEFINE f == [i \in 1 .. Len(s) |-> InFile(s[i].recs)]
           g == [i \in 1 .. Len(t) |-> InFile(t[i].recs)]
<1>1. DOMAIN f = 1 .. Len(s) /\ DOMAIN g = 1 .. Len(s) + 1 /\ \A i \in 1 .. Len(s) : g[i + 1] = f[i]
  OBVIOUS
<1>2. ReadersOf(s) = FirstFound(f) /\ ReadersOf(t) = FirstFound(g) /\ g[1] = InFile(t[1].recs)
  BY DEF ReadersOf
<1> HIDE DEF f, g
<1>3. FirstFound(g)[k] = IF g[1][k].ver # 0 THEN g[1][k] ELSE FirstFound(f)[k]
  BY <1>1, FoundInFront
<1> QED  BY <1>2, <1>3

\* What a query finds.
LEMMA LookupIs ==
    ASSUME NEW k \in Keys
    PROVE  /\ Lookup[k] = IF InTable(active.recs)[k].ver # 0 THEN InTable(active.recs)[k]
                          ELSE IF TablesOf(imms)[k].ver # 0 THEN TablesOf(imms)[k] ELSE ReadersOf(readers)[k]
           /\ Lookup'[k] = IF InTable(active'.recs)[k].ver # 0 THEN InTable(active'.recs)[k]
                           ELSE IF TablesOf(imms')[k].ver # 0 THEN TablesOf(imms')[k] ELSE ReadersOf(readers')[k]
<1>1. Lookup = Over(InTable(active.recs), Over(TablesOf(imms), ReadersOf(readers)))
  BY InMemory DEF Lookup
<1>2. Lookup' = Over(InTable(active'.recs), Over(TablesOf(imms'), ReadersOf(readers')))
  BY InMemory DEF Lookup
<1> QED  BY <1>1, <1>2, OverIs

-----------------------------------------------------------------------------
(* The end of a process: what the next start-up will find.                 *)

\* The newest log that has the key.
LEMMA LogsFound ==
    ASSUME Sound, NEW k \in Keys
    PROVE  /\ (\A w \in DOMAIN wals : InTable(wals[w])[k].ver = 0) => InLogs[k] = NoOp(k)
           /\ \A w \in DOMAIN wals :
                 /\ InTable(wals[w])[k].ver # 0
                 /\ \A v \in DOMAIN wals : w < v => InTable(wals[v])[k].ver = 0
                 => InLogs[k] = InTable(wals[w])[k]
<1> DEFINE f == [w \in DOMAIN wals |-> InTable(wals[w])]
<1>1. InLogs = LastFound(f) /\ DOMAIN f = DOMAIN wals /\ \A w \in DOMAIN wals : f[w] = InTable(wals[w])
  BY DEF InLogs
<1> HIDE DEF f
<1>2. now \in Nat /\ DOMAIN f \subseteq 0 .. now
  BY <1>1 DEF Sound, Clocked, Typed
<1> QED  BY <1>1, <1>2, LastFoundIs, LastFoundAt

\* Every record in memory is in a log or, for the last flushed table, in the newest file.
LEMMA LogsAnswer ==
    ASSUME Traced, Served, phase \in {"up", "closing"}, Smooth, L0Names = Names, NEW k \in Keys
    PROVE  Over(InLogs, InReaders)[k] = Lookup[k]
<1> USE DEF Traced, Served
<1>1. /\ active.wal \in Nat /\ active.recs \in Seq(Ops) /\ Len(imms) \in Nat
      /\ \A w \in DOMAIN wals : w \in Nat /\ wals[w] \in Seq(Ops) /\ w <= active.wal
      /\ Len(readers) \in Nat
  BY DEF Sound, Typed, LogsHeld
<1>2. \A i \in 1 .. Len(imms) :
         imms[i].wal \in DOMAIN wals /\ imms[i].wal \notin doomed /\ wals[imms[i].wal] = imms[i].recs
  BY DEF LogsHeld, TableLogs
<1>3. \A w \in DOMAIN wals : w = active.wal \/ w \in doomed \/ \E i \in 1 .. Len(imms) : imms[i].wal = w
  BY DEF Sound, Accounted
<1>4. Over(InLogs, InReaders)[k] = IF InLogs[k].ver # 0 THEN InLogs[k] ELSE InReaders[k]
  BY OverIs
<1>5. Lookup[k] = IF InTable(active.recs)[k].ver # 0 THEN InTable(active.recs)[k]
                  ELSE IF TablesOf(imms)[k].ver # 0 THEN TablesOf(imms)[k] ELSE InReaders[k]
  BY LookupIs, InMemory
\* The active table and its log, or its file.
<1>6. \/ active.wal \in DOMAIN wals \ doomed /\ wals[active.wal] = active.recs
      \/ /\ imms = <<>> /\ doomed \subseteq {active.wal} /\ active.wal \notin DOMAIN wals \ doomed
         /\ 1 \in 1 .. Len(readers) /\ readers[1].recs = Survivors(active.recs)
  BY DEF Closed, LogsHeld, TableLogs
\* The log of a flushed table and its file.
<1>7. ASSUME NEW w \in doomed
      PROVE  /\ InReaders[k] = IF InTable(wals[w])[k].ver # 0 THEN InTable(wals[w])[k] ELSE InReaders[k]
             /\ \A v \in doomed : v = w
             /\ \A i \in 1 .. Len(imms) : w < imms[i].wal
             /\ w \in DOMAIN wals /\ readers[1].recs = Survivors(wals[w])
  <2>1. /\ 1 \in 1 .. Len(readers) /\ readers[1].recs = Survivors(wals[w]) /\ w \in DOMAIN wals
        /\ \A v \in doomed : v = w
        /\ \A i \in 1 .. Len(imms) : w < imms[i].wal
    BY <1>7 DEF Flushed, LogsHeld
  <2>2. InFile(readers[1].recs)[k] = InTable(wals[w])[k]
    BY <1>1, <2>1, FlushedIsFound
  <2>3. InFile(readers[1].recs)[k].ver # 0 => InReaders[k] = InFile(readers[1].recs)[k]
    <3>1. \A j \in 1 .. Len(readers) : ~ (j < 1)
      OBVIOUS
    <3> QED  BY <2>1, <3>1, ReadersFound DEF Sound
  <2> QED  BY <2>1, <2>2, <2>3
<1>8. CASE active.wal \in DOMAIN wals \ doomed /\ wals[active.wal] = active.recs
  <2>1. CASE InTable(active.recs)[k].ver # 0
    <3>1. \A v \in DOMAIN wals : ~ (active.wal < v)
      BY <1>1
    <3>2. InLogs[k] = InTable(active.recs)[k]
      BY <1>8, <2>1, <3>1, LogsFound
    <3> QED  BY <1>4, <1>5, <2>1, <3>2
  <2>2. CASE InTable(active.recs)[k].ver = 0 /\ \E i \in 1 .. Len(imms) : InTable(imms[i].recs)[k].ver # 0
    <3>1. PICK i \in 1 .. Len(imms) :
                /\ InTable(imms[i].recs)[k].ver # 0 /\ TablesOf(imms)[k] = InTable(imms[i].recs)[k]
                /\ \A j \in 1 .. Len(imms) : i < j => InTable(imms[j].recs)[k].ver = 0
      BY <1>1, <2>2, TablesFound
    <3>2. ASSUME NEW v \in DOMAIN wals, imms[i].wal < v PROVE InTable(wals[v])[k].ver = 0
      <4>1. CASE v = active.wal
        BY <1>8, <2>2, <4>1
      <4>2. CASE v \in doomed
        <5>1. v < imms[i].wal /\ v \in Nat /\ imms[i].wal \in Nat
          BY <1>1, <1>2, <1>7, <4>2
        <5> QED  BY <3>2, <5>1
      <4>3. ASSUME NEW j \in 1 .. Len(imms), imms[j].wal = v PROVE InTable(wals[v])[k].ver = 0
        <5>1. i < j
          <6>1. j < i => imms[j].wal < imms[i].wal
            BY DEF LogsHeld
          <6>2. imms[i].wal \in Nat /\ imms[j].wal \in Nat
            BY <1>1, <1>2
          <6> QED  BY <3>2, <4>3, <6>1, <6>2
        <5> QED  BY <1>2, <3>1, <4>3, <5>1
      <4> QED  BY <1>3, <4>1, <4>2, <4>3
    <3>3. InLogs[k] = InTable(imms[i].recs)[k]
      BY <1>2, <3>1, <3>2, LogsFound
    <3> QED  BY <1>4, <1>5, <2>2, <3>1, <3>3
  <2>3. CASE InTable(active.recs)[k].ver = 0 /\ \A i \in 1 .. Len(imms) : InTable(imms[i].recs)[k].ver = 0
    <3>1. Lookup[k] = InReaders[k]
      BY <1>1, <1>5, <2>3, TablesFound, NoOpIs
    <3>2. CASE \A w \in DOMAIN wals : InTable(wals[w])[k].ver = 0
      BY <1>4, <3>1, <3>2, LogsFound, NoOpIs
    <3>3. ASSUME NEW w \in DOMAIN wals, InTable(wals[w])[k].ver # 0 PROVE Over(InLogs, InReaders)[k] = InReaders[k]
      <4>1. w \in doomed
        BY <1>2, <1>3, <1>8, <2>3, <3>3
      <4>2. \A v \in DOMAIN wals : w < v => InTable(wals[v])[k].ver = 0
        <5> SUFFICES ASSUME NEW v \in DOMAIN wals, w < v PROVE InTable(wals[v])[k].ver = 0
          OBVIOUS
        <5>1. v \notin doomed
          BY <1>1, <1>7, <4>1
        <5> QED  BY <1>2, <1>3, <1>8, <2>3, <5>1
      <4>3. InLogs[k] = InTable(wals[w])[k]
        BY <3>3, <4>2, LogsFound
      <4> QED  BY <1>4, <1>7, <3>3, <4>1, <4>3
    <3> QED  BY <3>1, <3>2, <3>3
  <2> QED  BY <2>1, <2>2, <2>3
<1>9. CASE /\ imms = <<>> /\ doomed \subseteq {active.wal} /\ active.wal \notin DOMAIN wals \ doomed
           /\ 1 \in 1 .. Len(readers) /\ readers[1].recs = Survivors(active.recs)
  <2>1. InFile(readers[1].recs)[k] = InTable(active.recs)[k]
    BY <1>1, <1>9, FlushedIsFound
  <2>2. InFile(readers[1].recs)[k].ver # 0 => InReaders[k] = InFile(readers[1].recs)[k]
    <3>1. \A j \in 1 .. Len(readers) : ~ (j < 1)
      OBVIOUS
    <3> QED  BY <1>9, <3>1, ReadersFound DEF Sound
  <2>3. TablesOf(imms)[k].ver = 0
    BY <1>1, <1>9, TablesFound, NoOpIs
  <2>4. Lookup[k] = InReaders[k]
    BY <1>5, <2>1, <2>2, <2>3
  <2>5. \A w \in DOMAIN wals : w = active.wal
    BY <1>3, <1>9
  <2>6. ASSUME NEW w \in DOMAIN wals, InTable(wals[w])[k].ver # 0 PROVE Over(InLogs, InReaders)[k] = InReaders[k]
    <3>1. \A v \in DOMAIN wals : ~ (w < v)
      BY <1>1, <2>5
    <3>2. InLogs[k] = InTable(wals[w])[k]
      BY <2>6, <3>1, LogsFound
    <3>3. w \in doomed
      BY <1>9, <2>5
    <3> QED  BY <1>4, <1>7, <2>6, <3>2, <3>3
  <2>7. CASE \A w \in DOMAIN wals : InTable(wals[w])[k].ver = 0
    BY <1>4, <2>4, <2>7, LogsFound, NoOpIs
  <2> QED  BY <2>4, <2>6, <2>7
<1> QED  BY <1>6, <1>8, <1>9

\* Without a compaction behind it, a process asks the files in the order in which the next one will.
LEMMA DirectoryAnswers ==
    ASSUME Sound, Opened, Lined, phase # "down", L0Names = Names, NEW k \in Keys
    PROVE  InReaders[k] = InDirectory[k]
<1> DEFINE W == {n \in Names : files[n].whole}
           s == InOrder(W, NameGreater)
           f == [i \in 1 .. Len(s) |-> InFile(files[s[i]].recs)]
<1>1. InDirectory = FirstFound(f)
  BY DEF InDirectory, WholeInOrder
<1>2. W \subseteq {0, 1} \X Nat /\ IsFiniteSet(W) /\ \A n \in W : n \in Names /\ files[n].whole /\ n[1] = 0 /\ n[2] \in Nat
  <2>1. IsFiniteSet(Names) /\ W \subseteq Names /\ Names \subseteq {0, 1} \X Nat
    BY DEF Sound, Typed, Names
  <2>2. IsFiniteSet(W)
    BY <2>1, FS_Subset
  <2>3. \A n \in W : n \in Names /\ files[n].whole /\ n[1] = 0 /\ n[2] \in Nat
    BY <2>1 DEF L0Names
  <2> QED  BY <2>1, <2>2, <2>3
<1>3. \A n \in Names : files[n].whole => n \in W
  OBVIOUS
<1> HIDE DEF W
<1>4. /\ s \in Seq(W)
      /\ \A x \in W : \E i \in 1 .. Len(s) : s[i] = x
      /\ \A i, j \in 1 .. Len(s) : i < j => NameGreater(s[i], s[j])
  BY <1>2, InNameOrder
<1> HIDE DEF s
<1>5. DOMAIN f \subseteq Nat /\ DOMAIN f = 1 .. Len(s) /\ \A i \in 1 .. Len(s) : s[i] \in W /\ f[i] = InFile(files[s[i]].recs)
  BY <1>4
<1> HIDE DEF f
\* Readers and whole files, one for one; both in the order of the numbers.
<1>6. ASSUME NEW j \in 1 .. Len(readers)
      PROVE  readers[j].name \in W /\ readers[j].recs = files[readers[j].name].recs /\ readers[j].name \in L0Names
  BY <1>3 DEF Opened
<1>7. ASSUME NEW i \in 1 .. Len(s)
      PROVE  \E j \in 1 .. Len(readers) : readers[j].name = s[i] /\ f[i] = InFile(readers[j].recs)
  <2>1. PICK j \in 1 .. Len(readers) : readers[j].name = s[i]
    BY <1>2, <1>5 DEF Opened
  <2> QED  BY <1>5, <1>6, <2>1
<1>8. merge.step # "remove" /\ Recent
  <2>1. merge.step # "none" => merge.out \in Names /\ merge.out[1] = 1
    BY DEF Sound, Merging, Typed
  <2>2. merge.step = "none"
    BY <2>1 DEF L0Names
  <2>3. \A j \in 1 .. Len(readers) : readers[j].name[1] = 0
    BY <1>2, <1>6
  <2> QED  BY <2>2, <2>3 DEF Recent
<1>9. \A h, j \in 1 .. Len(readers) : h < j => readers[j].name[2] < readers[h].name[2]
  BY <1>6, <1>8 DEF Lined
<1>10. \A h, i \in 1 .. Len(s) : h < i => s[i][2] < s[h][2]
  <2> SUFFICES ASSUME NEW h \in 1 .. Len(s), NEW i \in 1 .. Len(s), h < i PROVE s[i][2] < s[h][2]
    OBVIOUS
  <2>1. NameGreater(s[h], s[i]) /\ s[h] \in W /\ s[i] \in W
    BY <1>4, <1>5
  <2> QED  BY <1>2, <2>1 DEF NameGreater
<1>11. CASE \A i \in 1 .. Len(s) : f[i][k].ver = 0
  <2>1. InDirectory[k] = NoOp(k)
    BY <1>1, <1>5, <1>11, FirstFoundIs
  <2>2. \A j \in 1 .. Len(readers) : InFile(readers[j].recs)[k].ver = 0
    <3> TAKE j \in 1 .. Len(readers)
    <3>1. PICK i \in 1 .. Len(s) : s[i] = readers[j].name
      BY <1>4, <1>6
    <3>2. f[i] = InFile(readers[j].recs)
      BY <1>5, <1>6, <3>1
    <3> QED  BY <1>11, <3>2
  <2> QED  BY <2>1, <2>2, ReadersFound DEF Sound
<1>12. CASE \E i \in 1 .. Len(s) : f[i][k].ver # 0
  <2>1. PICK i \in 1 .. Len(s) : /\ f[i][k].ver # 0 /\ InDirectory[k] = f[i][k]
                                 /\ \A h \in 1 .. Len(s) : h < i => f[h][k].ver = 0
    BY <1>1, <1>5, <1>12, FirstFoundIs
  <2>2. PICK j \in 1 .. Len(readers) : readers[j].name = s[i] /\ f[i] = InFile(readers[j].recs)
    BY <1>7
  <2>3. ASSUME NEW l \in 1 .. Len(readers), l < j PROVE InFile(readers[l].recs)[k].ver = 0
    <3>1. PICK h \in 1 .. Len(s) : s[h] = readers[l].name
      BY <1>4, <1>6
    <3>2. s[i][2] < s[h][2] /\ s[i][2] \in Nat /\ s[h][2] \in Nat
      BY <1>2, <1>5, <1>9, <2>2, <2>3, <3>1
    <3>3. h < i
      <4>1. ~ (i < h) /\ h # i
        BY <1>10, <3>2
      <4> QED  BY <4>1
    <3>4. f[h] = InFile(readers[l].recs)
      BY <1>5, <1>6, <3>1
    <3> QED  BY <2>1, <3>3, <3>4
  <2>4. InReaders[k] = InFile(readers[j].recs)[k]
    BY <2>1, <2>2, <2>3, ReadersFound DEF Sound
  <2> QED  BY <2>1, <2>2, <2>4
<1> QED  BY <1>11, <1>12

-----------------------------------------------------------------------------
(* The replay of the logs, in order.                                       *)

\* Logs, asked from the last to the second and then the first, find what their set finds.
LEMMA LogsInTurn ==
    ASSUME NEW k \in Keys, NEW ws, NEW top \in Nat, DOMAIN ws \subseteq 0 .. top,
           \A w \in DOMAIN ws : ws[w] \in Seq(Ops),
           NEW t \in Seq(Nat), Len(t) # 0, \A i \in 1 .. Len(t) : t[i] \in DOMAIN ws,
           \A i, j \in 1 .. Len(t) : i < j => t[i] < t[j],
           \A w \in DOMAIN ws : (\E i \in 1 .. Len(t) : t[i] = w) \/ InTable(ws[w])[k].ver = 0
    PROVE  LET all == LastFound([w \in DOMAIN ws |-> InTable(ws[w])])[k]
               later == LastFound([i \in 2 .. Len(t) |-> InTable(ws[t[i]])])[k]
           IN  all = IF later.ver # 0 THEN later ELSE InTable(ws[t[1]])[k]
<1> DEFINE f == [w \in DOMAIN ws |-> InTable(ws[w])]
           g == [i \in 2 .. Len(t) |-> InTable(ws[t[i]])]
<1>1. /\ DOMAIN f = DOMAIN ws /\ DOMAIN f \subseteq 0 .. top /\ \A w \in DOMAIN ws : f[w] = InTable(ws[w])
      /\ DOMAIN g = 2 .. Len(t) /\ DOMAIN g \subseteq 0 .. Len(t) /\ \A i \in 2 .. Len(t) : g[i] = InTable(ws[t[i]])
      /\ Len(t) \in Nat /\ 1 \in 1 .. Len(t)
  OBVIOUS
<1> HIDE DEF f, g
<1>2. \A i \in 1 .. Len(t) : i = 1 \/ i \in 2 .. Len(t)
  OBVIOUS
<1>3. CASE \E i \in 2 .. Len(t) : g[i][k].ver # 0
  <2>1. PICK i \in 2 .. Len(t) : /\ g[i][k].ver # 0 /\ LastFound(g)[k] = g[i][k]
                                 /\ \A j \in 2 .. Len(t) : i < j => g[j][k].ver = 0
    <3>1. \E i \in DOMAIN g : g[i][k].ver # 0
      BY <1>1, <1>3
    <3>2. PICK i \in DOMAIN g : /\ g[i][k].ver # 0 /\ LastFound(g)[k] = g[i][k]
                                /\ \A j \in DOMAIN g : i < j => g[j][k].ver = 0
      <4> PICK n \in Nat : n = Len(t)
        BY <1>1
      <4>1. DOMAIN g \subseteq 0 .. n
        BY <1>1
      <4> PICK h \in DOMAIN g : g[h][k].ver # 0
        BY <3>1
      <4> QED  BY <4>1, LastFoundHas
    <3> QED  BY <1>1, <3>2
  <2>2. i \in 1 .. Len(t) /\ t[i] \in DOMAIN ws /\ f[t[i]] = g[i]
    <3>1. i \in 1 .. Len(t)
      BY <1>1
    <3> QED  BY <1>1, <3>1
  <2>3. \A w \in DOMAIN f : t[i] < w => f[w][k].ver = 0
    <3> SUFFICES ASSUME NEW w \in DOMAIN ws, t[i] < w, NEW j \in 1 .. Len(t), t[j] = w PROVE f[w][k].ver = 0
      BY <1>1
    <3>1. ~ (j < i) /\ j # i
      <4>1. t[i] \in Nat /\ t[j] \in Nat /\ (j < i => t[j] < t[i])
        BY <2>2
      <4> QED  BY <4>1
    <3>2. i < j /\ j \in 2 .. Len(t)
      <4>1. i \in Nat /\ 2 <= i /\ j \in Nat /\ j <= Len(t) /\ Len(t) \in Nat
        BY <1>1
      <4> QED  BY <3>1, <4>1
    <3>3. f[w] = g[j]
      BY <1>1, <3>2
    <3> QED  BY <2>1, <3>2, <3>3
  <2>4. LastFound(f)[k] = f[t[i]][k]
    <3> PICK w \in DOMAIN f : w = t[i]
      BY <1>1, <2>2
    <3>1. f[w][k].ver # 0 /\ \A v \in DOMAIN f : w < v => f[v][k].ver = 0
      BY <2>1, <2>2, <2>3
    <3>2. LastFound(f)[k] = f[w][k]
      BY <1>1, <3>1, LastFoundAt
    <3> QED  BY <3>2
  <2>5. LastFound(f)[k] = IF LastFound(g)[k].ver # 0 THEN LastFound(g)[k] ELSE InTable(ws[t[1]])[k]
    BY <2>1, <2>2, <2>4
  <2> QED  BY <2>5 DEF f, g
<1>4. CASE \A i \in 2 .. Len(t) : g[i][k].ver = 0
  <2>1. LastFound(g)[k].ver = 0
    <3> PICK n \in Nat : n = Len(t)
      BY <1>1
    <3>1. DOMAIN g \subseteq 0 .. n /\ \A i \in DOMAIN g : g[i][k].ver = 0
      BY <1>1, <1>4
    <3>2. LastFound(g)[k] = NoOp(k)
      BY <3>1, LastFoundNone
    <3> QED  BY <3>2, NoOpIs
  <2>2. ASSUME NEW w \in DOMAIN f, w # t[1] PROVE f[w][k].ver = 0
    <3>1. CASE InTable(ws[w])[k].ver = 0
      BY <1>1, <3>1
    <3>2. ASSUME NEW j \in 1 .. Len(t), t[j] = w PROVE f[w][k].ver = 0
      <4>1. j \in 2 .. Len(t)
        BY <1>2, <2>2, <3>2
      <4>2. f[w] = g[j]
        BY <1>1, <3>2, <4>1
      <4> QED  BY <1>4, <4>1, <4>2
    <3> QED  BY <1>1, <3>1, <3>2
  <2>3. t[1] \in DOMAIN f /\ f[t[1]] = InTable(ws[t[1]]) /\ t[1] \in Nat
    BY <1>1
  <2>4. CASE InTable(ws[t[1]])[k].ver # 0
    <3> PICK w \in DOMAIN f : w = t[1]
      BY <2>3
    <3>1. w \in Nat /\ f[w][k].ver # 0
      BY <2>3, <2>4
    <3>2. LastFound(f)[k] = f[w][k]
      <4>1. \A v \in DOMAIN f : w < v => f[v][k].ver = 0
        BY <2>2, <3>1
      <4>2. DOMAIN f \subseteq 0 .. top
        BY <1>1
      <4> QED  BY <3>1, <4>1, <4>2, LastFoundAt
    <3>3. LastFound(f)[k] = IF LastFound(g)[k].ver # 0 THEN LastFound(g)[k] ELSE InTable(ws[t[1]])[k]
      BY <2>1, <2>3, <3>2
    <3> QED  BY <3>3 DEF f, g
  <2>5. CASE InTable(ws[t[1]])[k].ver = 0
    <3>1. \A w \in DOMAIN f : f[w][k].ver = 0
      BY <2>2, <2>3, <2>5
    <3>2. LastFound(f)[k] = NoOp(k)
      BY <1>1, <3>1, LastFoundNone
    <3>3. InTable(ws[t[1]])[k] = NoOp(k)
      BY <1>1, <2>3, <2>5, NotFound
    <3>4. LastFound(f)[k] = IF LastFound(g)[k].ver # 0 THEN LastFound(g)[k] ELSE InTable(ws[t[1]])[k]
      BY <2>1, <3>2, <3>3
    <3> QED  BY <3>4 DEF f, g
  <2> QED  BY <2>4, <2>5
<1> QED  BY <1>1, <1>3, <1>4

\* The part of a log that has not been replayed.
LEMMA RestOfLog ==
    ASSUME NEW u \in Seq(Ops), NEW k \in Keys, NEW d \in 0 .. Len(u)
    PROVE  LET rest == SubSeq(u, d + 1, Len(u))
           IN  /\ rest \in Seq(Ops) /\ Len(rest) = Len(u) - d /\ \A i \in 1 .. Len(rest) : rest[i] = u[d + i]
               /\ d = 0 => rest = u
               /\ d = Len(u) => InTable(rest)[k] = NoOp(k)
<1> DEFINE rest == SubSeq(u, d + 1, Len(u))
<1>1. rest \in Seq(Ops) /\ Len(rest) = Len(u) - d /\ \A i \in 1 .. Len(rest) : rest[i] = u[d + i]
  <2>1. Len(u) \in Nat /\ d + 1 \in 1 .. Len(u) + 1
    OBVIOUS
  <2>2. \A i \in d + 1 .. Len(u) : i \in 1 .. Len(u)
    BY <2>1
  <2> QED  BY <2>1, <2>2, SubSeqProperties
<1> HIDE DEF rest
<1>2. ASSUME d = 0 PROVE rest = u
  BY <1>1, <1>2
<1>3. ASSUME d = Len(u) PROVE InTable(rest)[k] = NoOp(k)
  <2>1. \A h \in 1 .. Len(rest) : rest[h].key # k
    BY <1>1, <1>3
  <2> QED  BY <1>1, <2>1, InTableIs
<1> QED  BY <1>1, <1>2, <1>3 DEF rest

\* What is replayed next is found when the rest of the log does not have its key.
LEMMA NextOfLog ==
    ASSUME NEW u \in Seq(Ops), NEW k \in Keys, NEW d \in Nat, d < Len(u)
    PROVE  LET rest == InTable(SubSeq(u, d + 2, Len(u)))[k]
           IN  InTable(SubSeq(u, d + 1, Len(u)))[k] =
                   IF rest.ver # 0 THEN rest ELSE IF u[d + 1].key = k THEN u[d + 1] ELSE NoOp(k)
<1> DEFINE s == SubSeq(u, d + 1, Len(u))
           t == SubSeq(u, d + 2, Len(u))
<1>1. s \in Seq(Ops) /\ Len(s) = Len(u) - d /\ \A i \in 1 .. Len(s) : s[i] = u[d + i]
  <2>1. d \in 0 .. Len(u)
    OBVIOUS
  <2> QED  BY <2>1, RestOfLog
<1>2. t \in Seq(Ops) /\ Len(t) = Len(u) - (d + 1) /\ \A i \in 1 .. Len(t) : t[i] = u[(d + 1) + i]
  <2>1. d + 1 \in 0 .. Len(u) /\ (d + 1) + 1 = d + 2
    OBVIOUS
  <2> QED  BY <2>1, RestOfLog
<1> HIDE DEF s, t
<1>3. Len(s) = Len(t) + 1 /\ Len(t) \in Nat /\ s[1] = u[d + 1] /\ \A i \in 1 .. Len(t) : s[i + 1] = t[i]
  BY <1>1, <1>2
<1>4. \A i \in 1 .. Len(s) : i = 1 \/ (i - 1 \in 1 .. Len(t) /\ s[i] = t[i - 1])
  <2> TAKE i \in 1 .. Len(s)
  <2>1. i = 1 \/ (i - 1 \in 1 .. Len(t) /\ (i - 1) + 1 = i)
    BY <1>3
  <2> QED  BY <1>3, <2>1
<1>5. CASE \E h \in 1 .. Len(t) : t[h].key = k
  <2>1. PICK h \in 1 .. Len(t) : /\ t[h].key = k /\ InTable(t)[k] = t[h] /\ t[h].ver # 0
                                 /\ \A i \in 1 .. Len(t) : t[i].key = k => i <= h
    BY <1>2, <1>5, InTableIs
  <2>2. h + 1 \in 1 .. Len(s) /\ s[h + 1] = t[h]
    BY <1>3
  <2>3. \A i \in 1 .. Len(s) : s[i].key = k => i <= h + 1
    <3> SUFFICES ASSUME NEW i \in 1 .. Len(s), s[i].key = k PROVE i <= h + 1
      OBVIOUS
    <3>1. i = 1 \/ i - 1 <= h
      BY <1>4, <2>1
    <3> QED  BY <3>1
  <2>4. InTable(s)[k] = s[h + 1]
    BY <1>1, <2>1, <2>2, <2>3, InTableIs
  <2>5. InTable(s)[k] = InTable(t)[k] /\ InTable(t)[k].ver # 0
    BY <2>1, <2>2, <2>4
  <2> QED  BY <2>5 DEF s, t
<1>6. CASE \A h \in 1 .. Len(t) : t[h].key # k
  <2>1. InTable(t)[k].ver = 0
    BY <1>2, <1>6, NotFound
  <2>2. ASSUME NEW i \in 1 .. Len(s), i # 1 PROVE s[i].key # k
    BY <1>4, <1>6, <2>2
  <2>3. CASE u[d + 1].key = k
    <3>1. 1 \in 1 .. Len(s) /\ s[1].key = k /\ \A i \in 1 .. Len(s) : s[i].key = k => i <= 1
      BY <1>3, <2>2, <2>3
    <3>2. InTable(s)[k] = u[d + 1]
      BY <1>1, <1>3, <3>1, InTableIs
    <3> QED  BY <2>1, <2>3, <3>2 DEF s, t
  <2>4. CASE u[d + 1].key # k
    <3>1. \A i \in 1 .. Len(s) : s[i].key # k
      BY <1>3, <2>2, <2>4
    <3>2. InTable(s)[k] = NoOp(k)
      BY <1>1, <3>1, InTableIs
    <3> QED  BY <2>1, <2>4, <3>2 DEF s, t
  <2> QED  BY <2>3, <2>4
<1> QED  BY <1>5, <1>6

-----------------------------------------------------------------------------
(* Step by step: nothing but put and remove changes what a query answers.  *)

LEMMA ViewIs ==
    ASSUME NEW k \in Keys
    PROVE  /\ phase = "down" => View[k] = IF InLogs[k].ver # 0 THEN InLogs[k] ELSE InDirectory[k]
           /\ phase = "replay" => View[k] = IF InTodo[k].ver # 0 THEN InTodo[k] ELSE Lookup[k]
           /\ phase \notin {"down", "replay"} => View[k] = Lookup[k]
           /\ phase' = "down" => View'[k] = IF InLogs'[k].ver # 0 THEN InLogs'[k] ELSE InDirectory'[k]
           /\ phase' = "replay" => View'[k] = IF InTodo'[k].ver # 0 THEN InTodo'[k] ELSE Lookup'[k]
           /\ phase' \notin {"down", "replay"} => View'[k] = Lookup'[k]
<1>1. /\ phase = "down" => View = Over(InLogs, InDirectory)
      /\ phase = "replay" => View = Over(InTodo, Lookup)
      /\ phase \notin {"down", "replay"} => View = Lookup
  BY DEF View
<1>2. /\ phase' = "down" => View' = Over(InLogs', InDirectory')
      /\ phase' = "replay" => View' = Over(InTodo', Lookup')
      /\ phase' \notin {"down", "replay"} => View' = Lookup'
  BY DEF View
<1> QED  BY <1>1, <1>2, OverIs

\* The logs behind the first.
LaterLogs(t, ws) == LastFound([i \in 2 .. Len(t) |-> InTable(ws[t[i]])])
RestOfFirst(t, ws, d) == InTable(SubSeq(ws[t[1]], d + 1, Len(ws[t[1]])))

LEMMA TodoIs ==
    ASSUME NEW k \in Keys
    PROVE  /\ InTodo[k] = IF LaterLogs(todo, wals)[k].ver # 0 THEN LaterLogs(todo, wals)[k]
                          ELSE RestOfFirst(todo, wals, done)[k]
           /\ InTodo'[k] = IF LaterLogs(todo', wals')[k].ver # 0 THEN LaterLogs(todo', wals')[k]
                           ELSE RestOfFirst(todo', wals', done')[k]
<1>1. InTodo = Over(LaterLogs(todo, wals), RestOfFirst(todo, wals, done))
  BY DEF InTodo, LaterLogs, RestOfFirst
<1>2. InTodo' = Over(LaterLogs(todo', wals'), RestOfFirst(todo', wals', done'))
  BY DEF InTodo, LaterLogs, RestOfFirst
<1> QED  BY <1>1, <1>2, OverIs

\* Before the first record has been replayed the logs are found as they are found when the
\* engine is down.
LEMMA TodoComplete ==
    ASSUME Sound, NEW t \in Seq(DOMAIN wals), t # <<>>, \A i, j \in 1 .. Len(t) : i < j => t[i] < t[j],
           NEW k \in Keys, \A w \in DOMAIN wals : wals[w] = <<>> \/ \E i \in 1 .. Len(t) : t[i] = w
    PROVE  InLogs[k] = IF LaterLogs(t, wals)[k].ver # 0 THEN LaterLogs(t, wals)[k] ELSE RestOfFirst(t, wals, 0)[k]
<1>1. now \in Nat /\ DOMAIN wals \subseteq 0 .. now /\ \A w \in DOMAIN wals : wals[w] \in Seq(Ops) /\ w \in Nat
  BY DEF Sound, Clocked, Typed
<1>2. t \in Seq(Nat) /\ Len(t) # 0 /\ \A i \in 1 .. Len(t) : t[i] \in DOMAIN wals
  <2>1. t \in Seq(Nat)
    BY <1>1
  <2> QED  BY <2>1
<1>3. \A w \in DOMAIN wals : (\E i \in 1 .. Len(t) : t[i] = w) \/ InTable(wals[w])[k].ver = 0
  BY NothingInside
<1>4. InLogs[k] = IF LaterLogs(t, wals)[k].ver # 0 THEN LaterLogs(t, wals)[k] ELSE InTable(wals[t[1]])[k]
  BY <1>1, <1>2, <1>3, LogsInTurn DEF InLogs, LaterLogs
<1>5. RestOfFirst(t, wals, 0) = InTable(wals[t[1]])
  <2>1. wals[t[1]] \in Seq(Ops) /\ 0 \in 0 .. Len(wals[t[1]])
    BY <1>1, <1>2
  <2>2. SubSeq(wals[t[1]], 0 + 1, Len(wals[t[1]])) = wals[t[1]]
    BY <2>1, RestOfLog
  <2> QED  BY <2>2 DEF RestOfFirst
<1> QED  BY <1>4, <1>5

\* The constructor reads the directory.
LEMMA OpenServes ==
    ASSUME LifecycleAssumption, Sound, Open, NEW k \in Keys
    PROVE  View'[k] = View[k]
<1>1. /\ phase = "down" /\ files' = files /\ imms' = <<>> /\ \A n \in Names : files[n].whole
      /\ Len(readers') = Len(NamesInOrder) /\ NamesInOrder \in Seq(Names)
      /\ \A i \in 1 .. Len(NamesInOrder) : readers'[i].recs = files[NamesInOrder[i]].recs
  BY OpenFiles
<1>2. /\ \A w \in DOMAIN wals : w \in DOMAIN wals' /\ wals'[w] = wals[w]
      /\ active'.recs = <<>> /\ todo' \in Seq(DOMAIN wals)
      /\ \A w \in DOMAIN wals : \E i \in 1 .. Len(todo') : todo'[i] = w
      /\ \A i, j \in 1 .. Len(todo') : i < j => todo'[i] < todo'[j]
      /\ phase' = (IF todo' = <<>> THEN "up" ELSE "replay")
  BY OpenIs
<1>3. done' = 0
  BY <1>1 DEF Open, Sound, Phases
<1>4. View[k] = IF InLogs[k].ver # 0 THEN InLogs[k] ELSE InDirectory[k]
  BY <1>1, ViewIs
<1>5. ReadersOf(readers') = InDirectory
  <2>1. {n \in Names : files[n].whole} = Names
    BY <1>1
  <2>2. WholeInOrder = NamesInOrder
    <3> PICK S : S = {n \in Names : files[n].whole}
      OBVIOUS
    <3>1. WholeInOrder = InOrder(S, NameGreater)
      BY Zenon DEF WholeInOrder
    <3> QED  BY <2>1, <3>1, Zenon DEF NamesInOrder
  <2>3. [i \in 1 .. Len(readers') |-> InFile(readers'[i].recs)]
            = [i \in 1 .. Len(NamesInOrder) |-> InFile(files[NamesInOrder[i]].recs)]
    BY <1>1
  <2> QED  BY <2>2, <2>3 DEF ReadersOf, InDirectory
<1>6. Lookup'[k] = InDirectory[k]
  <2>1. InTable(active'.recs)[k].ver = 0
    BY <1>2, NothingInside
  <2>2. TablesOf(imms')[k].ver = 0
    <3>1. Len(imms') = 0
      BY <1>1
    <3> QED  BY <3>1, TablesFound, NoOpIs
  <2> QED  BY <1>5, <2>1, <2>2, LookupIs
<1>7. CASE todo' = <<>>
  <2>1. Len(todo') = 0
    BY <1>7
  <2>2. ASSUME NEW w \in DOMAIN wals PROVE FALSE
    <3>1. \E i \in 1 .. Len(todo') : todo'[i] = w
      BY <1>2
    <3> QED  BY <2>1, <3>1
  <2>3. InLogs[k].ver = 0
    BY <2>2, LogsFound, NoOpIs
  <2> QED  BY <1>2, <1>4, <1>6, <1>7, <2>3, ViewIs
<1>8. CASE todo' # <<>>
  <2>1. LaterLogs(todo', wals') = LaterLogs(todo', wals) /\ RestOfFirst(todo', wals', 0) = RestOfFirst(todo', wals, 0)
    <3>1. \A i \in 1 .. Len(todo') : wals'[todo'[i]] = wals[todo'[i]]
      <4>1. \A i \in 1 .. Len(todo') : todo'[i] \in DOMAIN wals
        BY <1>2
      <4> QED  BY <1>2, <4>1
    <3>2. [i \in 2 .. Len(todo') |-> InTable(wals'[todo'[i]])] = [i \in 2 .. Len(todo') |-> InTable(wals[todo'[i]])]
      <4>1. \A i \in 2 .. Len(todo') : i \in 1 .. Len(todo')
        BY <1>2
      <4> QED  BY <3>1, <4>1
    <3>3. 1 \in 1 .. Len(todo')
      BY <1>2, <1>8
    <3> QED  BY <3>1, <3>2, <3>3 DEF LaterLogs, RestOfFirst
  <2>2. InTodo'[k] = InLogs[k]
    <3> PICK t \in Seq(DOMAIN wals) : t = todo'
      BY <1>2
    <3>1. InLogs[k] = IF LaterLogs(t, wals)[k].ver # 0 THEN LaterLogs(t, wals)[k] ELSE RestOfFirst(t, wals, 0)[k]
      <4>1. t # <<>> /\ \A i, j \in 1 .. Len(t) : i < j => t[i] < t[j]
        BY <1>2, <1>8
      <4>2. \A w \in DOMAIN wals : wals[w] = <<>> \/ \E i \in 1 .. Len(t) : t[i] = w
        BY <1>2
      <4> QED  BY <4>1, <4>2, TodoComplete
    <3> QED  BY <1>3, <2>1, <3>1, TodoIs
  <2>3. phase' = "replay"
    BY <1>2, <1>8
  <2> QED  BY <1>4, <1>6, <2>2, <2>3, ViewIs
<1> QED  BY <1>7, <1>8

\* Crash, exit and a constructor that throws before it has replayed anything.
LEMMA EndServes ==
    ASSUME Traced, Served, Ends, Smooth, L0Names = Names, phase = "replay" => active.recs = <<>>, NEW k \in Keys
    PROVE  View'[k] = View[k]
<1> USE DEF Traced, Served
<1>1. phase' = "down" /\ phase # "down" /\ UNCHANGED <<files, wals>>
  BY EndFiles
<1>2. InLogs' = InLogs /\ InDirectory' = InDirectory
  BY <1>1 DEF InLogs, InDirectory, WholeInOrder, Names
<1>3. View'[k] = IF InLogs[k].ver # 0 THEN InLogs[k] ELSE InReaders[k]
  BY <1>1, <1>2, ViewIs, DirectoryAnswers
<1>4. CASE phase \in {"up", "closing"}
  <2>1. View[k] = Lookup[k]
    BY <1>4, ViewIs
  <2>2. Over(InLogs, InReaders)[k] = Lookup[k]
    BY <1>4, LogsAnswer
  <2> QED  BY <1>3, <2>1, <2>2, OverIs
<1>5. CASE phase = "replay"
  <2>1. active.recs = <<>> /\ imms = <<>> /\ done = 0 /\ todo # <<>> /\ wals[active.wal] = <<>>
    <3>1. active.recs = <<>> /\ done \in Nat
      BY <1>5 DEF Sound, Typed
    <3>2. done <= Len(active.recs)
      BY <1>5 DEF Begun
    <3>3. done = 0
      BY <3>1, <3>2
    <3> QED  BY <1>5, <3>1, <3>3 DEF Sound, Phases, TableLogs
  <2>2. Lookup[k] = InReaders[k]
    <3>1. InTable(active.recs)[k].ver = 0
      BY <2>1, NothingInside
    <3>2. TablesOf(imms)[k].ver = 0
      <4>1. Len(imms) = 0
        BY <2>1
      <4> QED  BY <4>1, TablesFound, NoOpIs
    <3> QED  BY <3>1, <3>2, LookupIs, InMemory
  <2>3. PICK t \in Seq(DOMAIN wals) : t = todo
    <3>1. todo \in Seq(Nat) /\ \A i \in 1 .. Len(todo) : todo[i] \in DOMAIN wals
      BY <1>5 DEF Sound, Typed, Clocked
    <3> QED  BY <3>1
  <2>4. t # <<>> /\ \A i, j \in 1 .. Len(t) : i < j => t[i] < t[j]
    BY <1>5, <2>1, <2>3 DEF Sound, Clocked
  <2>5. \A w \in DOMAIN wals : wals[w] = <<>> \/ \E i \in 1 .. Len(t) : t[i] = w
    BY <1>5, <2>1, <2>3 DEF Sound, Accounted
  <2>6. InLogs[k] = InTodo[k]
    BY <2>1, <2>3, <2>4, <2>5, TodoComplete, TodoIs
  <2> QED  BY <1>3, <1>5, <2>2, <2>6, ViewIs
<1> QED  BY <1>1, <1>4, <1>5 DEF Sound, Typed

\* A record goes from the rest of the first log to the table.
LEMMA ReplayServes ==
    ASSUME LifecycleAssumption, Sound, ReplayRecord, NEW k \in Keys
    PROVE  View'[k] = View[k]
<1> PICK u : u = wals[todo[1]]
  OBVIOUS
<1>1. /\ 1 \in 1 .. Len(todo) /\ todo[1] # active.wal /\ u \in Seq(Ops) /\ u[done + 1] \in Ops
      /\ active'.recs = Append(active.recs, u[done + 1])
      /\ \A w \in DOMAIN wals : w # active.wal => wals'[w] = wals[w]
      /\ todo[1] \in DOMAIN wals
  <2>1. todo[1] < active.wal /\ todo[1] \in Nat /\ active.wal \in Nat
    BY ReplayIs DEF Sound, Typed
  <2> QED  BY <2>1, ReplayIs
<1>2. /\ phase = "replay" /\ phase' = "replay" /\ done' = done + 1 /\ done < Len(u) /\ done \in Nat
      /\ UNCHANGED <<todo, imms, readers>>
  BY DEF ReplayRecord, Sound, Typed
<1>3. LaterLogs(todo', wals') = LaterLogs(todo, wals)
  <2>1. \A i \in 1 .. Len(todo) : todo[i] \in DOMAIN wals /\ todo[i] # active.wal
    <3> TAKE i \in 1 .. Len(todo)
    <3>1. todo[i] \in DOMAIN wals /\ todo[i] < active.wal /\ active.wal \in Nat /\ todo[i] \in Nat
      BY <1>2 DEF Sound, Clocked, Typed
    <3> QED  BY <3>1
  <2>2. \A i \in 2 .. Len(todo) : i \in 1 .. Len(todo)
    OBVIOUS
  <2>3. [i \in 2 .. Len(todo') |-> InTable(wals'[todo'[i]])] = [i \in 2 .. Len(todo) |-> InTable(wals[todo[i]])]
    BY <1>1, <1>2, <2>1, <2>2
  <2> QED  BY <2>3 DEF LaterLogs
<1>4. /\ RestOfFirst(todo, wals, done) = InTable(SubSeq(u, done + 1, Len(u)))
      /\ RestOfFirst(todo', wals', done') = InTable(SubSeq(u, done + 2, Len(u)))
  <2>1. wals'[todo'[1]] = u /\ (done + 1) + 1 = done + 2
    BY <1>1, <1>2
  <2> QED  BY <1>2, <2>1 DEF RestOfFirst
<1> DEFINE rest == InTable(SubSeq(u, done + 2, Len(u)))[k]
<1>5. InTable(SubSeq(u, done + 1, Len(u)))[k] =
          IF rest.ver # 0 THEN rest ELSE IF u[done + 1].key = k THEN u[done + 1] ELSE NoOp(k)
  BY <1>1, <1>2, NextOfLog
<1>6. InTable(active'.recs)[k] = IF u[done + 1].key = k THEN u[done + 1] ELSE InTable(active.recs)[k]
  <2>1. active.recs \in Seq(Ops)
    BY DEF Sound, Typed
  <2> QED  BY <1>1, <2>1, InsertedIsFound
<1>7. /\ InTodo[k] = IF LaterLogs(todo, wals)[k].ver # 0 THEN LaterLogs(todo, wals)[k]
                     ELSE IF rest.ver # 0 THEN rest ELSE IF u[done + 1].key = k THEN u[done + 1] ELSE NoOp(k)
      /\ InTodo'[k] = IF LaterLogs(todo, wals)[k].ver # 0 THEN LaterLogs(todo, wals)[k] ELSE rest
  BY <1>3, <1>4, <1>5, TodoIs
<1>8. View[k] = (IF InTodo[k].ver # 0 THEN InTodo[k] ELSE Lookup[k])
      /\ View'[k] = IF InTodo'[k].ver # 0 THEN InTodo'[k] ELSE Lookup'[k]
  BY <1>2, ViewIs
<1> HIDE DEF rest
<1>9. CASE LaterLogs(todo, wals)[k].ver # 0 \/ rest.ver # 0
  BY <1>7, <1>8, <1>9
<1>10. CASE LaterLogs(todo, wals)[k].ver = 0 /\ rest.ver = 0
  <2>1. View'[k] = Lookup'[k]
    BY <1>7, <1>8, <1>10
  <2>2. CASE u[done + 1].key = k
    <3>1. u[done + 1].ver # 0
      BY <1>1 DEF Ops
    <3>2. Lookup'[k] = u[done + 1]
      BY <1>6, <2>2, <3>1, LookupIs
    <3> QED  BY <1>7, <1>8, <1>10, <2>1, <2>2, <3>1, <3>2
  <2>3. CASE u[done + 1].key # k
    <3>1. Lookup'[k] = Lookup[k]
      BY <1>2, <1>6, <2>3, LookupIs
    <3>2. InTodo[k] = NoOp(k)
      BY <1>7, <1>10, <2>3
    <3> QED  BY <1>8, <2>1, <3>1, <3>2, NoOpIs
  <2> QED  BY <2>2, <2>3
<1> QED  BY <1>9, <1>10

\* A log that has been replayed goes.
LEMMA ReplayedServes ==
    ASSUME Sound, RemoveReplayedWal, NEW k \in Keys
    PROVE  View'[k] = View[k]
<1>1. /\ todo \in Seq(Nat) /\ 1 \in 1 .. Len(todo) /\ todo[1] \in DOMAIN wals
      /\ Len(todo') = Len(todo) - 1 /\ \A i \in 1 .. Len(todo) - 1 : todo'[i] = todo[i + 1]
      /\ DOMAIN wals' = DOMAIN wals \ {todo[1]} /\ \A w \in DOMAIN wals' : wals'[w] = wals[w]
      /\ phase' = (IF todo' = <<>> THEN "up" ELSE "replay")
      /\ \A i \in 2 .. Len(todo) : todo[i] \in DOMAIN wals'
  BY ReplayedIs
<1>2. /\ phase = "replay" /\ done = Len(wals[todo[1]]) /\ done' = 0 /\ todo' = Tail(todo)
      /\ UNCHANGED <<active, imms, readers>>
  BY DEF RemoveReplayedWal, memVars
<1>3. Lookup'[k] = Lookup[k]
  BY <1>2, LookupIs
<1>4. RestOfFirst(todo, wals, done)[k] = NoOp(k)
  <2>1. wals[todo[1]] \in Seq(Ops)
    BY <1>1 DEF Sound, Typed
  <2>2. done \in 0 .. Len(wals[todo[1]])
    BY <1>2, <2>1
  <2> QED  BY <1>2, <2>1, <2>2, RestOfLog DEF RestOfFirst
<1>5. InTodo[k] = IF LaterLogs(todo, wals)[k].ver # 0 THEN LaterLogs(todo, wals)[k] ELSE NoOp(k)
  BY <1>4, TodoIs
<1>6. View[k] = IF LaterLogs(todo, wals)[k].ver # 0 THEN LaterLogs(todo, wals)[k] ELSE Lookup[k]
  BY <1>2, <1>5, ViewIs, NoOpIs
<1>7. CASE todo' = <<>>
  <2>1. Len(todo) = 1
    <3>1. Len(todo') = 0 /\ Len(todo) \in Nat
      BY <1>1, <1>7
    <3> QED  BY <1>1, <3>1
  <2> DEFINE f == [i \in 2 .. Len(todo) |-> InTable(wals[todo[i]])]
  <2>2. DOMAIN f = 2 .. 1 /\ LaterLogs(todo, wals) = LastFound(f)
    BY <2>1 DEF LaterLogs
  <2> HIDE DEF f
  <2>3. DOMAIN f \subseteq 0 .. 1 /\ \A i \in DOMAIN f : f[i][k].ver = 0
    BY <2>2
  <2>4. LastFound(f)[k] = NoOp(k)
    BY <2>3, LastFoundIs
  <2> QED  BY <1>1, <1>3, <1>6, <1>7, <2>2, <2>4, ViewIs, NoOpIs
<1>8. CASE todo' # <<>>
  <2> PICK n \in Nat : n = Len(todo)
    BY <1>1
  <2>1. 2 <= n /\ 2 \in 2 .. n /\ 1 \in 1 .. n - 1
    <3>1. Len(todo') # 0
      BY <1>1, <1>2, <1>8
    <3> QED  BY <1>1, <3>1
  <2> DEFINE f == [i \in 2 .. Len(todo) |-> InTable(wals[todo[i]])]
             g == [i \in 2 .. Len(todo') |-> InTable(wals'[todo'[i]])]
  <2>2. DOMAIN f = 2 .. n /\ DOMAIN g = 2 .. n - 1 /\ LaterLogs(todo, wals) = LastFound(f)
        /\ LaterLogs(todo', wals') = LastFound(g)
        /\ f[2] = InTable(wals[todo[2]])
    BY <1>1, <2>1 DEF LaterLogs
  <2>3. \A i \in 2 .. n - 1 : g[i] = f[i + 1]
    <3> TAKE i \in 2 .. n - 1
    <3>1. i \in 1 .. n - 1 /\ i + 1 \in 2 .. n
      OBVIOUS
    <3>2. todo'[i] = todo[i + 1] /\ wals'[todo[i + 1]] = wals[todo[i + 1]]
      BY <1>1, <3>1
    <3> QED  BY <1>1, <3>1, <3>2
  <2> HIDE DEF f, g
  <2>4. todo'[1] = todo[2] /\ wals'[todo[2]] = wals[todo[2]] /\ wals[todo[2]] \in Seq(Ops)
    <3>1. todo'[1] = todo[1 + 1] /\ todo[2] \in DOMAIN wals'
      BY <1>1, <2>1
    <3> QED  BY <1>1, <3>1 DEF Sound, Typed
  <2>5. f[2][k].ver = 0 => f[2][k] = NoOp(k)
    BY <2>2, <2>4, NotFound
  <2>6. LastFound(f)[k] = IF LastFound(g)[k].ver # 0 THEN LastFound(g)[k] ELSE f[2][k]
    <3> PICK a \in Nat : a = 2
      OBVIOUS
    <3>1. a <= n /\ DOMAIN f = a .. n /\ DOMAIN g = a .. n - 1
      BY <2>1, <2>2
    <3>2. \A i \in a .. n - 1 : g[i] = f[i + 1]
      BY <2>3
    <3>3. f[a][k].ver = 0 => f[a][k] = NoOp(k)
      BY <2>5
    <3>4. LastFound(f)[k] = IF LastFound(g)[k].ver # 0 THEN LastFound(g)[k] ELSE f[a][k]
      BY <3>1, <3>2, <3>3, FoundTaken
    <3> QED  BY <3>4
  <2>7. RestOfFirst(todo', wals', done') = f[2]
    <3>1. SubSeq(wals[todo[2]], 0 + 1, Len(wals[todo[2]])) = wals[todo[2]]
      <4>1. 0 \in 0 .. Len(wals[todo[2]])
        BY <2>4
      <4> QED  BY <2>4, <4>1, RestOfLog
    <3>2. RestOfFirst(todo', wals', 0) = InTable(wals[todo[2]])
      BY <2>4, <3>1 DEF RestOfFirst
    <3> QED  BY <1>2, <2>2, <3>2
  <2>8. InTodo'[k] = LastFound(f)[k]
    BY <2>2, <2>6, <2>7, TodoIs
  <2> QED  BY <1>1, <1>3, <1>6, <1>8, <2>2, <2>8, ViewIs
<1> QED  BY <1>7, <1>8

\* Steps that leave alone what is asked.
LEMMA AskedAlike ==
    ASSUME UNCHANGED <<active, readers>>, Len(imms') = Len(imms), \A i \in 1 .. Len(imms) : imms'[i].recs = imms[i].recs,
           phase \notin {"down", "replay"}, phase' = phase, NEW k \in Keys
    PROVE  View'[k] = View[k]
<1>1. TablesOf(imms) = TablesOf(imms')
  BY TablesAlike
<1>2. Lookup'[k] = Lookup[k]
  BY <1>1, LookupIs
<1> QED  BY <1>2, ViewIs

\* The file of a flushed table serves what the table did, as it was the oldest.
LEMMA FinishServes ==
    ASSUME Traced, Served, Smooth, NEW h \in 1 .. Len(imms), FlushFinishes(h), NEW k \in Keys
    PROVE  View'[k] = View[k]
<1> USE DEF Traced, Served
<1>1. imms \in Seq(Tables) /\ Len(imms) \in Nat /\ readers \in Seq([name : {0, 1} \X Nat, recs : SUBSET Ops])
  BY DEF Sound, Typed
<1>2. Smooth'
  <2>1. \A j \in 1 .. Len(imms') : \E i \in 1 .. Len(imms) : imms'[j] = imms[i]
    <3>1. imms' = RemoveAt(imms, h)
      BY DEF FlushFinishes
    <3> QED  BY <3>1, OneLess DEF Sound
  <2> QED  BY <2>1 DEF Smooth
<1>3. /\ Len(imms') = Len(imms) - 1 /\ \A i \in 1 .. Len(imms') : imms'[i] = imms[i + 1]
      /\ UNCHANGED <<phase, active>>
      /\ imms[1].recs \in Seq(Ops)
      /\ Len(readers') = Len(readers) + 1 /\ readers'[1].recs = Survivors(imms[1].recs)
      /\ \A i \in 1 .. Len(readers) : readers'[i + 1] = readers[i]
  BY <1>2, OldestFinishes
<1>4. TablesOf(imms)[k] = IF TablesOf(imms')[k].ver # 0 THEN TablesOf(imms')[k] ELSE InTable(imms[1].recs)[k]
  <2>1. Len(imms) \in Nat \ {0}
    BY <1>1
  <2> QED  BY <1>3, <2>1, TableTaken
<1>5. ReadersOf(readers')[k] = IF InTable(imms[1].recs)[k].ver # 0 THEN InTable(imms[1].recs)[k] ELSE ReadersOf(readers)[k]
  <2>1. InFile(readers'[1].recs)[k] = InTable(imms[1].recs)[k]
    BY <1>3, FlushedIsFound
  <2>2. Len(readers) \in Nat
    BY <1>1
  <2>3. ReadersOf(readers')[k] =
            IF InFile(readers'[1].recs)[k].ver # 0 THEN InFile(readers'[1].recs)[k] ELSE ReadersOf(readers)[k]
    BY <1>3, <2>2, ReaderInFront
  <2> QED  BY <2>1, <2>3
<1>6. Lookup'[k] = Lookup[k]
  BY <1>3, <1>4, <1>5, LookupIs
<1>7. phase \notin {"down", "replay"}
  BY DEF FlushFinishes, Running
<1> QED  BY <1>3, <1>6, <1>7, ViewIs

\* So does the file of a compaction.
LEMMA PublishServes ==
    ASSUME Sound, MergedFound, Recent, MergePublishes, NEW k \in Keys
    PROVE  View'[k] = View[k]
<1> PICK t : t = Reader(merge.out, files[merge.out].recs)
  OBVIOUS
<1>1. /\ readers' = <<t>> \o readers /\ t.recs = files[merge.out].recs /\ merge.step = "remove"
      /\ UNCHANGED <<phase, active, imms>>
  BY DEF MergePublishes, Reader
<1>2. phase \notin {"down", "replay"}
  BY <1>1 DEF Sound, Phases, NoMerge
<1>3. /\ Len(readers') = Len(readers) + 1 /\ Len(readers) \in Nat /\ readers'[1] = t
      /\ \A i \in 1 .. Len(readers) : readers'[i + 1] = readers[i]
  BY <1>1, OneInFront DEF Sound, Typed
<1>4. ReadersOf(readers')[k] = IF InFile(t.recs)[k].ver # 0 THEN InFile(t.recs)[k] ELSE ReadersOf(readers)[k]
  <2>1. ReadersOf(readers')[k] =
            IF InFile(readers'[1].recs)[k].ver # 0 THEN InFile(readers'[1].recs)[k] ELSE ReadersOf(readers)[k]
    BY <1>3, ReaderInFront
  <2> QED  BY <1>3, <2>1
<1>5. ReadersOf(readers')[k] = ReadersOf(readers)[k]
  BY <1>1, <1>4, InMemory DEF MergedFound
<1>6. Lookup'[k] = Lookup[k]
  BY <1>1, <1>5, LookupIs
<1> QED  BY <1>1, <1>2, <1>6, ViewIs

\* The table that close hands over is the one that is asked first.
LEMMA CloseServes ==
    ASSUME Sound, Close, NEW k \in Keys
    PROVE  View'[k] = View[k]
<1>1. /\ phase = "up" /\ phase' = "closing" /\ readers' = readers /\ active'.recs = active.recs
      /\ imms' = imms \/ imms' = Append(imms, Unflushed(active))
  BY DEF Close, Sound, Typed
<1>2. Lookup'[k] = Lookup[k]
  <2>1. CASE imms' = imms
    BY <1>1, <2>1, LookupIs
  <2>2. CASE imms' = Append(imms, Unflushed(active))
    <3>1. /\ Len(imms') = Len(imms) + 1 /\ Len(imms) \in Nat
          /\ \A j \in 1 .. Len(imms) : imms'[j] = imms[j]
          /\ imms'[Len(imms')].recs = active.recs
      BY <2>2, SwitchIs DEF Sound
    <3>2. TablesOf(imms')[k] =
              IF InTable(imms'[Len(imms')].recs)[k].ver # 0 THEN InTable(imms'[Len(imms')].recs)[k] ELSE TablesOf(imms)[k]
      BY <3>1, TableBehind
    <3>3. TablesOf(imms')[k] = IF InTable(active.recs)[k].ver # 0 THEN InTable(active.recs)[k] ELSE TablesOf(imms)[k]
      BY <3>1, <3>2
    <3> QED  BY <1>1, <3>3, LookupIs
  <2> QED  BY <1>1, <2>1, <2>2
<1> QED  BY <1>1, <1>2, ViewIs

\* A put or remove takes effect at once, for its key alone.
LEMMA PutServes ==
    ASSUME LifecycleAssumption, Sound, PutOrRemove
    PROVE  \E r \in Ops : r.ver = puts + 1 /\ puts' = puts + 1
              /\ \A k \in Keys : View'[k] = IF r.key = k THEN r ELSE View[k]
<1>1. PICK r \in Ops :
          /\ r.ver = puts + 1 /\ Store(r) /\ phase = "up"
          /\ \/ active'.recs = Append(active.recs, r) /\ imms' = imms
             \/ active'.recs = <<r>> /\ imms' = Append(imms, Unflushed(active))
  BY PutLogs
<1>2. puts' = puts + 1 /\ phase' = phase /\ readers' = readers /\ active.recs \in Seq(Ops) /\ r.ver # 0
  BY <1>1 DEF Store, Sound, Typed, Ops
<1>3. ASSUME NEW k \in Keys PROVE View'[k] = IF r.key = k THEN r ELSE View[k]
  <2>1. View'[k] = Lookup'[k] /\ View[k] = Lookup[k]
    BY <1>1, <1>2, ViewIs
  <2>2. CASE active'.recs = Append(active.recs, r) /\ imms' = imms
    <3>1. InTable(active'.recs)[k] = IF r.key = k THEN r ELSE InTable(active.recs)[k]
      BY <1>2, <2>2, InsertedIsFound
    <3>2. Lookup'[k] = IF r.key = k THEN r ELSE Lookup[k]
      BY <1>2, <2>2, <3>1, LookupIs
    <3> QED  BY <2>1, <3>2
  <2>3. CASE active'.recs = <<r>> /\ imms' = Append(imms, Unflushed(active))
    <3>1. InTable(active'.recs)[k] = IF r.key = k THEN r ELSE NoOp(k)
      <4>1. <<>> \in Seq(Ops) /\ active'.recs = Append(<<>>, r)
        BY <2>3
      <4>2. InTable(Append(<<>>, r))[k] = IF r.key = k THEN r ELSE InTable(<<>>)[k]
        BY <4>1, InsertedIsFound
      <4> QED  BY <4>1, <4>2, NothingInside
    <3>2. /\ Len(imms') = Len(imms) + 1 /\ Len(imms) \in Nat
          /\ \A j \in 1 .. Len(imms) : imms'[j] = imms[j]
          /\ imms'[Len(imms')].recs = active.recs
      BY <2>3, SwitchIs DEF Sound
    <3>3. TablesOf(imms')[k] =
              IF InTable(imms'[Len(imms')].recs)[k].ver # 0 THEN InTable(imms'[Len(imms')].recs)[k] ELSE TablesOf(imms)[k]
      BY <3>2, TableBehind
    <3>4. TablesOf(imms')[k] = IF InTable(active.recs)[k].ver # 0 THEN InTable(active.recs)[k] ELSE TablesOf(imms)[k]
      BY <3>2, <3>3
    <3>5. Lookup'[k] = IF r.key = k THEN r ELSE Lookup[k]
      BY <1>2, <3>1, <3>4, LookupIs, NoOpIs
    <3> QED  BY <2>1, <3>5
  <2> QED  BY <1>1, <2>2, <2>3
<1> QED  BY <1>1, <1>2, <1>3

\* Every other step, Disturbed apart, leaves each answer as it was.
LEMMA OthersServe ==
    ASSUME LifecycleAssumption, Paced, Told, [Next]_vars, ~ PutOrRemove, ~ Disturbed
    PROVE  puts' = puts /\ \A k \in Keys : View'[k] = View[k]
<1>1. Fresh' /\ Smooth
  BY DEF Disturbed, Fresh, Smooth
<1>2. Traced /\ Served
  BY <1>1, FreshBefore DEF Told
<1> USE <1>2 DEF Traced, Served
<1>3. puts' = puts
  BY DEF Next, vars, bounds, Open, OpenThrows, ReplayStep, ReplayRecord, ReplayThrows, RemoveReplayedWal, Crash,
         FlushStep, FlushBegins, FlushFinishes, FlushThrows, DropWal, MergeBegins, MergeStep, MergeWrites,
         MergeRemoves, MergePublishes, Close, Exit
<1> SUFFICES ASSUME NEW k \in Keys PROVE View'[k] = View[k]
  BY <1>3
<1>4. CASE Open
  BY <1>4, OpenServes
<1>5. CASE OpenThrows \/ UNCHANGED vars
  <2>1. UNCHANGED <<files, wals, phase, active, imms, readers, todo, done>>
    BY <1>5 DEF OpenThrows, vars, dirVars, memVars, startVars
  <2> QED  BY <2>1 DEF View, InTodo, Lookup, InTables, InReaders, InLogs, InDirectory, WholeInOrder, Names
<1>6. CASE ReplayRecord
  BY <1>6, ReplayServes
<1>7. CASE RemoveReplayedWal
  BY <1>7, ReplayedServes
<1>8. CASE Ends
  <2>1. L0Names = Names /\ (phase = "replay" => active.recs = <<>>)
    BY <1>8, EndFiles DEF Disturbed
  <2> QED  BY <1>1, <1>8, <2>1, EndServes
<1>9. CASE FlushStep
  <2>1. phase \notin {"down", "replay"}
    BY <1>9 DEF FlushStep, FlushBegins, FlushFinishes, FlushThrows, DropWal, Running
  <2>2. ASSUME NEW h \in 1 .. Len(imms), FlushBegins(h) PROVE View'[k] = View[k]
    <3>1. Len(imms') = Len(imms) /\ \A i \in 1 .. Len(imms) : imms'[i].recs = imms[i].recs
      BY <2>2, BeginIs DEF Sound
    <3>2. readers' = readers
      BY <1>1, <2>2, BeginFile DEF Sound
    <3>3. active' = active /\ phase' = phase
      BY <2>2 DEF FlushBegins
    <3> QED  BY <2>1, <3>1, <3>2, <3>3, AskedAlike
  <2>3. ASSUME NEW h \in 1 .. Len(imms), FlushThrows(h) PROVE View'[k] = View[k]
    <3>1. Len(imms') = Len(imms) /\ \A i \in 1 .. Len(imms) : imms'[i].recs = imms[i].recs
      BY <2>3, ThrowIs DEF Sound
    <3>2. UNCHANGED <<active, readers, phase>>
      BY <2>3 DEF FlushThrows
    <3> QED  BY <2>1, <3>1, <3>2, AskedAlike
  <2>4. CASE DropWal
    <3>1. UNCHANGED <<active, readers, phase, imms>>
      BY <2>4 DEF DropWal
    <3> QED  BY <2>1, <3>1, AskedAlike
  <2> QED  BY <1>1, <1>9, <2>2, <2>3, <2>4, FinishServes DEF FlushStep
<1>10. CASE MergeBegins
  <2>1. readers' = readers
    BY <1>1, <1>10, MergeFile DEF Sound
  <2>2. UNCHANGED <<active, imms, phase>> /\ phase = "up"
    BY <1>10 DEF MergeBegins
  <2> QED  BY <2>1, <2>2, AskedAlike
<1>11. CASE MergeWrites \/ MergeRemoves
  <2>1. UNCHANGED <<active, imms, phase, readers>> /\ merge.step # "none"
    BY <1>11 DEF MergeWrites, MergeRemoves, memVars
  <2>2. phase \notin {"down", "replay"}
    BY <2>1 DEF Sound, Phases, NoMerge
  <2> QED  BY <2>1, <2>2, AskedAlike
<1>12. CASE MergePublishes
  <2>1. merge.step = "remove"
    BY <1>12 DEF MergePublishes
  <2>2. starts \in Nat /\ \A i \in 1 .. Len(readers) : readers[i].name[1] \in {0, 1}
    BY ReaderIs DEF Begun, Sound
  <2>3. Recent
    BY <2>1, <2>2 DEF Disturbed, Recent
  <2> QED  BY <1>12, <2>3, PublishServes
<1>13. CASE Close
  BY <1>13, CloseServes
<1> QED  BY <1>4, <1>5, <1>6, <1>7, <1>8, <1>9, <1>10, <1>11, <1>12, <1>13 DEF Next, ReplayStep, Ends, MergeStep

\* carina_engine.hpp as a whole, from one process to the next: what its clients are told is
\* what the map KVStore would tell them. put and remove take effect in one step and for one key; start-up,
\* replay, flush, compaction, close and crash change no answer, unless Disturbed says so.
THEOREM StoreImplemented ==
    ASSUME Paced
    PROVE  Spec => ImplementsStore
<1>1. ASSUME Init PROVE Store_!Init
  <2>1. /\ phase = "down" /\ puts = 0 /\ DOMAIN wals = {} /\ Names = {}
    BY <1>1 DEF Init, Names
  <2>2. Sound
    BY <1>1, LifecycleAssumption, SoundAtStart
  <2>3. ASSUME NEW k \in Keys PROVE View[k] = NoOp(k)
    <3>1. InLogs[k] = NoOp(k)
      BY <2>1, <2>2, LogsFound
    <3>2. InDirectory[k] = NoOp(k)
      <4> DEFINE f == [i \in 1 .. Len(WholeInOrder) |-> InFile(files[WholeInOrder[i]].recs)]
      <4>1. InDirectory = FirstFound(f)
        BY DEF InDirectory
      <4>2. DOMAIN f = {}
        <5>1. {n \in Names : files[n].whole} = {}
          BY <2>1
        <5>2. WholeInOrder \in Seq({})
          <6> PICK S : S = {n \in Names : files[n].whole}
            OBVIOUS
          <6>1. WholeInOrder = InOrder(S, NameGreater)
            BY Zenon DEF WholeInOrder
          <6>2. S \subseteq {0, 1} \X Nat /\ IsFiniteSet(S) /\ S = {}
            BY <5>1, FS_EmptySet
          <6>3. InOrder(S, NameGreater) \in Seq(S)
            BY <6>2, InNameOrder
          <6> QED  BY <6>1, <6>2, <6>3
        <5>3. Len(WholeInOrder) = 0
          BY <5>2
        <5> QED  BY <5>3
      <4> HIDE DEF f
      <4>3. DOMAIN f \subseteq Nat /\ \A i \in DOMAIN f : f[i][k].ver = 0
        BY <4>2
      <4>4. FirstFound(f)[k] = NoOp(k)
        BY <4>3, FirstFoundIs
      <4> QED  BY <4>1, <4>4
    <3> QED  BY <2>1, <3>1, <3>2, ViewIs, NoOpIs
  <2>4. \A k \in Keys : View[k].del
    <3>1. \A k \in Keys : NoOp(k).del
      BY DEF NoOp
    <3> QED  BY <2>3, <3>1
  <2> QED  BY <2>1, <2>4 DEF Store_!Init, Store_!Absent, Answers
<1>2. ASSUME Told, [Next]_vars PROVE [Store_!Next \/ Disturbed]_<<Answers, puts>>
  <2>1. CASE PutOrRemove
    <3>1. PICK r \in Ops : /\ r.ver = puts + 1 /\ puts' = puts + 1
                           /\ \A k \in Keys : View'[k] = IF r.key = k THEN r ELSE View[k]
      BY <1>2, <2>1, LifecycleAssumption, PutServes DEF Told, Traced
    <3>2. Answers' = [k \in Keys |-> IF View'[k].del THEN 0 ELSE View'[k].ver]
      BY DEF Answers
    <3>3. Answers = [k \in Keys |-> IF View[k].del THEN 0 ELSE View[k].ver]
      BY DEF Answers
    <3>4. r.key \in Keys /\ r.del \in BOOLEAN
      BY DEF Ops
    <3>5. CASE r.del
      <4>1. Answers' = [Answers EXCEPT ![r.key] = 0]
        BY <3>1, <3>2, <3>3, <3>5
      <4> QED  BY <3>1, <3>4, <4>1 DEF Store_!Next, Store_!Remove, Store_!Absent
    <3>6. CASE ~ r.del
      <4>1. Answers' = [Answers EXCEPT ![r.key] = puts']
        BY <3>1, <3>2, <3>3, <3>6
      <4> QED  BY <3>1, <3>4, <4>1 DEF Store_!Next, Store_!Put
    <3> QED  BY <3>4, <3>5, <3>6
  <2>2. CASE ~ PutOrRemove /\ ~ Disturbed
    <3>1. puts' = puts /\ \A k \in Keys : View'[k] = View[k]
      BY <1>2, <2>2, LifecycleAssumption, OthersServe
    <3>2. Answers' = Answers
      BY <3>1 DEF Answers
    <3> QED  BY <3>1, <3>2
  <2> QED  BY <2>1, <2>2
<1>3. Spec => []Told
  BY InductiveServed
<1> QED  BY <1>1, <1>2, <1>3, PTL DEF Spec, ImplementsStore

=============================================================================
