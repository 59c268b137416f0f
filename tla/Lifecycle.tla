----------------------------- MODULE Lifecycle ------------------------------
(***************************************************************************)
(* The engine from one process to the next (engine/carina_engine.hpp): the *)
(* constructor with loadSSTables and recoverFromOldWals, puts that switch  *)
(* tables, flushes and compactions as far as the directory sees them,      *)
(* close, and crashes of the machine between any two changes of the        *)
(* directory.  Clients call one after the other; what their overlap does   *)
(* is the subject of Engine.                                               *)
(*                                                                         *)
(* Abstractions: a file keeps for each key the version a search in it      *)
(* finds; creating and removing a file is durable at once; a record is in  *)
(* the WAL as a whole or not at all (Wal covers torn tails).               *)
(***************************************************************************)
EXTENDS Integers, Sequences, FiniteSets, SequencesExt, FiniteSetsExt

CONSTANTS
    Keys,
    Deletes,           \* BOOLEAN or {FALSE}: whether clients also remove
    Threshold,         \* memoryThreshold_ of a table, in records
    Capacity,          \* capacity_ of its arena, in records
    L0Trigger,         \* L0_COMPACTION_TRIGGER
    Faults,            \* see FaultKinds
    \* Bounds.
    MaxPuts,           \* puts and removes of all processes together
    MaxStarts,         \* processes
    MaxCompactions,    \* compactions of all processes together
    MaxFlushing        \* flushes under way at a time

\* "crash": the machine fails while the engine runs or closes; "relapse": while
\* it replays; "clock": a table is created in the millisecond of the last one;
\* "sst": a write of a flush fails.
FaultKinds == {"crash", "relapse", "clock", "sst"}

ASSUME LifecycleAssumption ==
    /\ Deletes \subseteq BOOLEAN
    /\ Threshold \in Nat \ {0} /\ Capacity \in Nat /\ Threshold <= Capacity
    /\ L0Trigger \in Nat \ {0}
    /\ Faults \subseteq FaultKinds
    /\ MaxPuts \in Nat /\ MaxStarts \in Nat /\ MaxCompactions \in Nat
    /\ MaxFlushing \in Nat \ {0}

VARIABLES
    \* the directory
    files,    \* the .sst files by name: their records, and whether they are whole
    wals,     \* the wal_*.log files by name: their records
    \* the process
    phase,    \* "down", "replay" (the constructor), "up" or "closing"
    active,   \* activeMemTable_ with the name of its WAL
    imms,     \* immutableMemTables_, oldest first, each with the state of its flush
    doomed,   \* WALs that flushes have still to remove
    readers,  \* ssTables_, the first is asked first
    gen,      \* sstFileIdGenerator_
    todo,     \* the old WALs to be replayed, and how many
    done,     \*   records of the first have been
    merge,    \* the compaction under way
    \* history and bounds
    latest,   \* the last acknowledged operation of each key, or NoOp
    mishaps,  \* "behind": a file was created whose number is not above all others;
              \* "cut": a replay ended after its first record, before its last
    puts, starts, rounds, now

dirVars == <<files, wals>>
memVars == <<active, imms, doomed, readers>>
startVars == <<todo, done>>
history == <<latest, mishaps>>
bounds == <<puts, starts, rounds, now>>
vars == <<dirVars, phase, memVars, gen, startVars, merge, history, bounds>>

Ops == [key : Keys, ver : 1 .. MaxPuts, del : BOOLEAN]
NoOp(k) == [key |-> k, ver |-> 0, del |-> TRUE]
Table(wal, recs) == [wal |-> wal, recs |-> recs, full |-> Len(recs) >= Threshold]
NoTable == [wal |-> 0, recs |-> <<>>, full |-> FALSE]
NoMerge == [step |-> "none", in |-> {}, out |-> <<1, 0>>]

Init ==
    /\ files = <<>>
    /\ wals = <<>>
    /\ phase = "down"
    /\ active = NoTable
    /\ imms = <<>>
    /\ doomed = {}
    /\ readers = <<>>
    /\ gen = 0
    /\ todo = <<>> /\ done = 0
    /\ merge = NoMerge
    /\ latest = [k \in Keys |-> NoOp(k)] /\ mishaps = {}
    /\ puts = 0 /\ starts = 0 /\ rounds = 0 /\ now = 0

-----------------------------------------------------------------------------
(* File names: <<0, 14>> is L0-000014.sst and <<1, 14>> is L1-14.sst.      *)

Names == DOMAIN files
L0Names == {n \in Names : n[1] = 0}

TenTo[i \in Nat] == IF i = 0 THEN 1 ELSE 10 * TenTo[i - 1]
\* How many digits n has.
Digits(n) == CHOOSE d \in 1 .. n + 1 : n < TenTo[d] /\ (d = 1 \/ TenTo[d - 1] <= n)

\* Numbers as text, without leading zeros, compare like the fractions 0.m and 0.n; of
\* two that differ in zeros at the end the longer is the greater.
TextGreater(m, n) ==
    LET a == m * TenTo[Digits(n)]
        b == n * TenTo[Digits(m)]
    IN a > b \/ (a = b /\ m > n)

\* The order of loadSSTables: names as text, descending.  L0 numbers have
\* leading zeros, L1 numbers have none.
NameGreater(m, n) ==
    \/ m[1] > n[1]
    \/ m[1] = n[1] /\ IF m[1] = 0 THEN m[2] > n[2] ELSE TextGreater(m[2], n[2])

\* S as a sequence: the i-th element is the one with i - 1 before it.
InOrder(S, Before(_, _)) ==
    [i \in 1 .. Cardinality(S) |-> CHOOSE x \in S : Cardinality({y \in S : Before(y, x)}) = i - 1]

\* A mutant of the next one: the oldest file first.
NamesAscending == InOrder(Names, LAMBDA m, n : NameGreater(n, m))
NamesInOrder == InOrder(Names, NameGreater)

\* loadMaxSSTableId: all digits of the first name, that of the level included.
NumberOf(n) == n[1] * TenTo[Digits(n[2])] + n[2]
MaxSSTableId == IF Names = {} THEN 0 ELSE NumberOf(NamesInOrder[1])

With(f, x, y) == [z \in DOMAIN f \cup {x} |-> IF z = x THEN y ELSE f[z]]
Without(f, x) == [y \in DOMAIN f \ {x} |-> f[y]]

-----------------------------------------------------------------------------
(* What a query finds.                                                     *)

\* The version inserted last, from a table or a log.
OfKey(recs, k) == {i \in DOMAIN recs : recs[i].key = k}
LastOf(recs, k) == IF OfKey(recs, k) = {} THEN NoOp(k) ELSE recs[Max(OfKey(recs, k))]
Survivors(recs) == {LastOf(recs, k) : k \in {r.key : r \in Range(recs)}}

\* What a search in a table, and in a file, returns for each key; NoOp if it has none.
InTable(recs) == [k \in Keys |-> LastOf(recs, k)]
InFile(recs) ==
    [k \in Keys |-> IF \E r \in recs : r.key = k THEN CHOOSE r \in recs : r.key = k ELSE NoOp(k)]

\* What is found where several are asked in turn; found gives what each finds.
Having(found, k) == {i \in DOMAIN found : found[i][k].ver # 0}
FirstFound(found) ==
    [k \in Keys |-> IF Having(found, k) = {} THEN NoOp(k) ELSE found[Min(Having(found, k))][k]]
LastFound(found) ==
    [k \in Keys |-> IF Having(found, k) = {} THEN NoOp(k) ELSE found[Max(Having(found, k))][k]]
Over(upper, lower) == [k \in Keys |-> IF upper[k].ver # 0 THEN upper[k] ELSE lower[k]]

InTables == LastFound([i \in 1 .. Len(imms) |-> InTable(imms[i].recs)])
InReaders == FirstFound([i \in 1 .. Len(readers) |-> InFile(readers[i].recs)])
Lookup == Over(InTable(active.recs), Over(InTables, InReaders))

-----------------------------------------------------------------------------
(* The constructor.                                                        *)

WalsInOrder == InOrder(DOMAIN wals, <)
Reader(n, recs) == [name |-> n, recs |-> recs]

\* createNewMemTable: the WAL is named by the clock, in milliseconds.
WalNames == {now + 1} \cup (IF "clock" \in Faults THEN {now} ELSE {})
WithWal(w, recs) == With(wals, w, IF w \in DOMAIN wals THEN wals[w] \o recs ELSE recs)

Open ==
    /\ phase = "down"
    /\ starts < MaxStarts
    /\ \A n \in Names : files[n].whole
    /\ starts' = starts + 1
    /\ now' = now + 1
    /\ readers' = [i \in 1 .. Len(NamesInOrder) |-> Reader(NamesInOrder[i], files[NamesInOrder[i]].recs)]
    /\ gen' = MaxSSTableId
    /\ active' = Table(now', <<>>)
    /\ wals' = WithWal(now', <<>>)
    /\ todo' = WalsInOrder
    /\ phase' = IF todo' = <<>> THEN "up" ELSE "replay"
    /\ UNCHANGED <<files, imms, doomed, done, merge, history, puts, rounds>>

\* SSTableReader throws when the magic number is missing, and the constructor
\* with it: the process ends.
OpenThrows ==
    /\ phase = "down"
    /\ starts < MaxStarts
    /\ \E n \in Names : ~ files[n].whole
    /\ starts' = starts + 1
    /\ UNCHANGED <<dirVars, phase, memVars, gen, startVars, merge, history, puts, rounds, now>>

\* The process ends; what is in memory goes with it.
ProcessEnds ==
    /\ phase' = "down"
    /\ mishaps' = mishaps \cup (IF phase = "replay" /\ active.recs # <<>> THEN {"cut"} ELSE {})
    /\ active' = NoTable /\ imms' = <<>> /\ doomed' = {} /\ readers' = <<>>
    /\ gen' = 0
    /\ todo' = <<>> /\ done' = 0
    /\ merge' = NoMerge

\* restoreFromWal, which does not ask whether the table is full, then
\* appendToWal: the record is in the old log and in the new one.
ReplayBeyondCapacity ==  \* a mutant of the next one: restoreFromWal does not see that the arena is full
    /\ phase = "replay"
    /\ done < Len(wals[todo[1]])
    /\ LET r == wals[todo[1]][done + 1]
       IN /\ active' = Table(active.wal, Append(active.recs, r))
          /\ wals' = [wals EXCEPT ![active.wal] = Append(@, r)]
    /\ done' = done + 1
    /\ UNCHANGED <<files, phase, imms, doomed, readers, gen, todo, merge, history, bounds>>
ReplayRecord ==
    /\ phase = "replay"
    /\ done < Len(wals[todo[1]])
    /\ Len(active.recs) < Capacity
    /\ LET r == wals[todo[1]][done + 1]
       IN /\ active' = Table(active.wal, Append(active.recs, r))
          /\ wals' = [wals EXCEPT ![active.wal] = Append(@, r)]
    /\ done' = done + 1
    /\ UNCHANGED <<files, phase, imms, doomed, readers, gen, todo, merge, history, bounds>>

\* The arena throws, and the constructor with it.
ReplayThrows ==
    /\ phase = "replay"
    /\ done < Len(wals[todo[1]])
    /\ Len(active.recs) >= Capacity
    /\ ProcessEnds
    /\ UNCHANGED <<dirVars, latest, bounds>>

\* A mutant of the next one: the log is removed before it has been replayed.
RemoveWalEarly ==
    /\ phase = "replay"
    /\ done <= Len(wals[todo[1]])
    /\ wals' = Without(wals, todo[1])
    /\ todo' = Tail(todo)
    /\ done' = 0
    /\ phase' = IF todo' = <<>> THEN "up" ELSE "replay"
    /\ UNCHANGED <<files, memVars, gen, merge, history, bounds>>

RemoveReplayedWal ==
    /\ phase = "replay"
    /\ done = Len(wals[todo[1]])
    /\ wals' = Without(wals, todo[1])
    /\ todo' = Tail(todo)
    /\ done' = 0
    /\ phase' = IF todo' = <<>> THEN "up" ELSE "replay"
    /\ UNCHANGED <<files, memVars, gen, merge, history, bounds>>

ReplayStep == ReplayRecord \/ ReplayThrows \/ RemoveReplayedWal

Crash ==
    /\ phase # "down"
    /\ (IF phase = "replay" THEN "relapse" ELSE "crash") \in Faults
    /\ ProcessEnds
    /\ UNCHANGED <<dirVars, latest, bounds>>

-----------------------------------------------------------------------------
(* put and remove, one at a time.                                          *)

Store(r) ==
    /\ puts' = r.ver
    /\ latest' = [latest EXCEPT ![r.key] = r]
    /\ UNCHANGED <<files, phase, doomed, readers, gen, startVars, merge, starts, rounds, mishaps>>

\* The record is durable in the WAL before the table has it.
Put(r) ==
    /\ phase = "up" /\ ~ active.full
    /\ active' = Table(active.wal, Append(active.recs, r))
    /\ wals' = IF active.wal \in DOMAIN wals THEN WithWal(active.wal, <<r>>) ELSE wals
    /\ UNCHANGED <<imms, now>>
    /\ Store(r)

Unflushed(table) == [wal |-> table.wal, recs |-> table.recs, step |-> "new", name |-> <<0, 0>>]

\* switchMemTable on the way.
PutInNewTable(r) ==
    /\ phase = "up" /\ active.full
    /\ imms' = Append(imms, Unflushed(active))
    /\ \E w \in WalNames :
          /\ active' = Table(w, <<r>>)
          /\ wals' = WithWal(w, <<r>>)
          /\ now' = w
    /\ Store(r)

PutOrRemove ==
    /\ puts < MaxPuts
    /\ \E k \in Keys, d \in Deletes :
          LET r == [key |-> k, ver |-> puts + 1, del |-> d] IN Put(r) \/ PutInNewTable(r)

-----------------------------------------------------------------------------
(* Flushes.                                                                *)

Running == phase \in {"up", "closing"}
UnderWay == {i \in 1 .. Len(imms) : imms[i].step = "write"}

\* O_CREAT | O_TRUNC: a file of that name loses what it held, also for the
\* readers that have it open.
CreateFile(n) ==
    /\ gen' = n[2]
    /\ mishaps' = mishaps \cup (IF \E m \in Names : m[2] >= n[2] THEN {"behind"} ELSE {})
    /\ files' = With(files, n, [recs |-> {}, whole |-> FALSE])
    /\ readers' = [i \in 1 .. Len(readers) |->
                      IF readers[i].name = n THEN Reader(n, {}) ELSE readers[i]]
FinishFile(n, recs) ==
    /\ files' = [files EXCEPT ![n] = [recs |-> recs, whole |-> TRUE]]
    /\ readers' = <<Reader(n, recs)>> \o readers

\* Flushes start in the order of the tables and, here, take turns with the
\* compaction.
FlushBegins(i) ==
    /\ Running
    /\ imms[i].step = "new"
    /\ \A j \in 1 .. i - 1 : imms[j].step # "new"
    /\ Cardinality(UnderWay) + Cardinality(doomed) < MaxFlushing
    /\ merge.step = "none"
    /\ CreateFile(<<0, gen + 1>>)
    /\ imms' = [imms EXCEPT ![i].step = "write", ![i].name = <<0, gen + 1>>]
    /\ UNCHANGED <<wals, phase, active, doomed, startVars, merge, latest, bounds>>

\* finish() with its fsync, the reader at the front of ssTables_, the table out
\* of immutableMemTables_.
FlushForgetsWal(i) ==  \* a mutant of the next one: the WAL stays
    /\ Running
    /\ imms[i].step = "write"
    /\ FinishFile(imms[i].name, Survivors(imms[i].recs))
    /\ imms' = RemoveAt(imms, i)
    /\ UNCHANGED <<wals, phase, active, doomed, gen, startVars, merge, history, bounds>>
FlushFinishes(i) ==
    /\ Running
    /\ imms[i].step = "write"
    /\ FinishFile(imms[i].name, Survivors(imms[i].recs))
    /\ imms' = RemoveAt(imms, i)
    /\ doomed' = doomed \cup {imms[i].wal}
    /\ UNCHANGED <<wals, phase, active, gen, startVars, merge, history, bounds>>

FlushThrows(i) ==
    /\ "sst" \in Faults
    /\ Running
    /\ imms[i].step = "write"
    /\ imms' = [imms EXCEPT ![i].step = "failed"]
    /\ UNCHANGED <<dirVars, phase, active, doomed, readers, gen, startVars, merge, history, bounds>>

DropWal ==
    /\ Running
    /\ \E w \in doomed :
          /\ wals' = Without(wals, w)
          /\ doomed' = doomed \ {w}
    /\ UNCHANGED <<files, phase, active, imms, readers, gen, startVars, merge, history, bounds>>

FlushStep ==
    \/ \E i \in 1 .. Len(imms) : FlushBegins(i) \/ FlushFinishes(i) \/ FlushThrows(i)
    \/ DropWal

-----------------------------------------------------------------------------
(* The compaction, with close waiting for it (join).                       *)

Winner(k) ==
    LET having == {n \in merge.in : \E r \in files[n].recs : r.key = k}
        n == CHOOSE n \in having : \A m \in having : m[2] <= n[2]
    IN CHOOSE r \in files[n].recs : r.key = k
Merged ==
    {r \in {Winner(k) : k \in {r.key : r \in UNION {files[n].recs : n \in merge.in}}} : ~ r.del}

MergeBegins ==
    /\ phase = "up"
    /\ merge.step = "none"
    /\ rounds < MaxCompactions
    /\ UnderWay = {}
    /\ Cardinality(L0Names) >= L0Trigger
    /\ CreateFile(<<1, gen + 1>>)
    /\ merge' = [step |-> "write", in |-> L0Names, out |-> <<1, gen + 1>>]
    /\ rounds' = rounds + 1
    /\ UNCHANGED <<wals, phase, active, imms, doomed, startVars, latest, puts, starts, now>>

MergeWrites ==
    /\ merge.step = "write"
    /\ files' = [files EXCEPT ![merge.out] = [recs |-> Merged, whole |-> TRUE]]
    /\ merge' = [merge EXCEPT !.step = "remove"]
    /\ UNCHANGED <<wals, phase, memVars, gen, startVars, history, bounds>>

\* One file after the other, in the order of the directory.
MergeRemoves ==
    /\ merge.step = "remove"
    /\ \E n \in merge.in :
          /\ files' = Without(files, n)
          /\ merge' = [merge EXCEPT !.in = @ \ {n}]
    /\ UNCHANGED <<wals, phase, memVars, gen, startVars, history, bounds>>

MergePublishes ==
    /\ merge.step = "remove"
    /\ merge.in = {}
    /\ readers' = <<Reader(merge.out, files[merge.out].recs)>> \o readers
    /\ merge' = NoMerge
    /\ UNCHANGED <<dirVars, phase, active, imms, doomed, gen, startVars, history, bounds>>

MergeStep == MergeWrites \/ MergeRemoves \/ MergePublishes

-----------------------------------------------------------------------------
(* close, and the end of the process, which does not wait for flushes in   *)
(* threads of their own.                                                   *)

Close ==
    /\ phase = "up"
    /\ merge.step = "none"
    /\ phase' = "closing"
    /\ imms' = IF active.full THEN imms ELSE Append(imms, Unflushed(active))
    /\ active' = [active EXCEPT !.full = TRUE]
    /\ UNCHANGED <<dirVars, doomed, readers, gen, startVars, merge, history, bounds>>

\* The flush of the active table is over, if there was one.
Exit ==
    /\ phase = "closing"
    /\ active.wal \notin doomed
    /\ \A i \in 1 .. Len(imms) : imms[i].wal = active.wal => imms[i].step = "failed"
    /\ ProcessEnds
    /\ UNCHANGED <<dirVars, latest, bounds>>

-----------------------------------------------------------------------------

Next ==
    \/ Open \/ OpenThrows \/ ReplayStep \/ Crash
    \/ PutOrRemove
    \/ FlushStep
    \/ MergeBegins \/ MergeStep
    \/ Close \/ Exit

Spec == Init /\ [][Next]_vars

-----------------------------------------------------------------------------
(* Properties.                                                             *)

TypeOK ==
    /\ DOMAIN files \subseteq {0, 1} \X Nat
    /\ \A n \in Names : files[n].recs \subseteq Ops /\ files[n].whole \in BOOLEAN
    /\ DOMAIN wals \subseteq Nat /\ \A w \in DOMAIN wals : wals[w] \in Seq(Ops)
    /\ phase \in {"down", "replay", "up", "closing"}
    /\ active \in [wal : Nat, recs : Seq(Ops), full : BOOLEAN]
    /\ Len(active.recs) <= Capacity
    /\ imms \in Seq([wal : Nat, recs : Seq(Ops), step : {"new", "write", "failed"}, name : {0} \X Nat])
    /\ doomed \subseteq DOMAIN wals
    /\ \A i \in 1 .. Len(readers) : readers[i].name \in {0, 1} \X Nat /\ readers[i].recs \subseteq Ops
    /\ gen \in Nat
    /\ todo \in Seq(DOMAIN wals) /\ done \in Nat
    /\ merge.step \in {"none", "write", "remove"} /\ merge.in \subseteq L0Names

\* What a query answers or, before the process is up, would answer at the end
\* of a start-up that nothing interrupts: the logs are replayed in order.
InLogs == LastFound([w \in DOMAIN wals |-> InTable(wals[w])])
WholeInOrder == InOrder({n \in Names : files[n].whole}, NameGreater)
InDirectory == FirstFound([i \in 1 .. Len(WholeInOrder) |-> InFile(files[WholeInOrder[i]].recs)])
InTodo == Over(LastFound([i \in 2 .. Len(todo) |-> InTable(wals[todo[i]])]),
               InTable(SubSeq(wals[todo[1]], done + 1, Len(wals[todo[1]]))))
View ==
    CASE phase = "down" -> Over(InLogs, InDirectory)
      [] phase = "replay" -> Over(InTodo, Lookup)
      [] OTHER -> Lookup

Answers == [k \in Keys |-> IF View[k].del THEN 0 ELSE View[k].ver]
Store_ == INSTANCE KVStore WITH store <- Answers, ops <- puts

\* Wherever the machine fails, in the middle of a flush, a compaction or a start-up,
\* the newest value of a key is in a whole file or in a log (finish before erase
\* before fs::remove, appendToWal before the removal of the old log).  Excepted are
\* two mishaps of start-up: a file with a number that was counted before, which overwrites
\* another or is taken for an older one, and a log with a prefix of older records that is replayed last.
NothingLost ==
    mishaps = {} => \A k \in Keys :
        \/ latest[k].del
        \/ \E n \in Names : files[n].whole /\ latest[k] \in files[n].recs
        \/ \E w \in DOMAIN wals : latest[k] \in Range(wals[w])

\* Where code and map part: the mishaps; after a compaction a restart puts L1 files
\* before newer L0 files, and a tombstone that was merged away hides nothing any more; a
\* table whose flush failed stays in front of newer files, and its log is replayed over them;
\* a compaction in a process that started with L1 files lifts what was behind them.
Disturbed ==
    \/ "behind" \in mishaps'
    \/ phase' = "down" /\ phase = "replay" /\ active.recs # <<>>
    \/ phase' = "down" /\ L0Names # Names
    \/ merge.step = "remove" /\ starts > 1 /\ \E i \in 1 .. Len(readers) : readers[i].name[1] = 1
    \/ \E i \in 1 .. Len(imms) : imms[i].step = "failed"

\* To its clients the engine, from one process to the next, is the map KVStore: close,
\* crash, start-up, replay, flush and compaction change no answer, Disturbed apart.
ImplementsStore == Store_!Init /\ [][Store_!Next \/ Disturbed]_<<Answers, puts>>

\* While the engine is up each log belongs to a table in memory or is about to be
\* removed: nothing is left that the next start-up would replay over newer files
\* (the order of insert, erase and fs::remove in flushMemTableToDisk).
NoOrphanWal ==
    phase = "up" =>
        \A w \in DOMAIN wals :
            w = active.wal \/ w \in doomed \/ \E i \in 1 .. Len(imms) : imms[i].wal = w

\* merge_entry.hpp and loadSSTables: a larger file number means newer data.  A file
\* that is created gets a number above those of all files that exist.
NumbersGrow == "behind" \notin mishaps

=============================================================================
