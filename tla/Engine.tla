------------------------------- MODULE Engine -------------------------------
(***************************************************************************)
(* The running storage engine (engine/carina_engine.hpp with               *)
(* memtable/memtable.hpp): clients that put, remove and query, the         *)
(* detached thread that flushes each full memtable, and the compaction     *)
(* thread.  Opening and closing the engine is not part of this module, nor *)
(* is the vector side of put.                                              *)
(*                                                                         *)
(* Memtables are numbered in the order in which they become active.  The   *)
(* i-th record inserted into the skip list of table T is named by its rank *)
(* <<T, i>>; ranks are ordered by table, then by position.  If one put     *)
(* returns before another starts, the second gets the larger rank, so for  *)
(* one key a larger rank is a newer value.                                 *)
(***************************************************************************)
EXTENDS Integers, Sequences, FiniteSets

CONSTANTS
    Writers, Readers,  \* client threads that put or remove, and that query
    Keys,
    Deletes,           \* BOOLEAN or {FALSE}: whether clients also remove
    Threshold,         \* memoryThreshold_ of a table, in records
    Capacity,          \* capacity_ of its arena, in records
    L0Trigger,         \* L0_COMPACTION_TRIGGER
    Faults,            \* see FaultKinds
    Nobody,            \* the owner of a free engineMutex_
    \* Bounds.
    MaxPuts,           \* puts and removes of a behaviour
    MaxCompactions,    \* rounds of the compaction thread
    MaxFlushing,       \* a table is retired only if fewer flushes are under way
    CompactAlone       \* compaction and flushes take turns

\* "wal": an append to the WAL fails; "sst": a write of a flush fails;
\* "race": threads interleave inside ++sstFileIdGenerator_.
FaultKinds == {"wal", "sst", "race"}

ASSUME EngineAssumption ==
    /\ Keys # {} /\ Deletes # {} /\ Deletes \subseteq BOOLEAN
    /\ Threshold \in Nat \ {0} /\ Capacity \in Nat /\ Threshold <= Capacity
    /\ L0Trigger \in Nat \ {0}
    /\ Faults \subseteq FaultKinds
    /\ Nobody \notin Writers
    /\ MaxPuts \in Nat /\ MaxCompactions \in Nat /\ MaxFlushing \in Nat \ {0}
    /\ CompactAlone \in BOOLEAN

VARIABLES
    \* memtables
    active,      \* activeMemTable_
    imms,        \* immutableMemTables_, oldest first
    mem,         \* mem[T]: the operations in the skip list of T, oldest first
    frozen,      \* frozen[T]: isImmutable_ of T
    wal,         \* wal[T]: "none" yet, "open", or "gone" (closed and removed)
    \* clients that write
    puts, engineLock, wpc, wop, wtable, wtry,
    \* flushes, one per retired table
    fpc, fid, ffile,
    scanned,     \* scanned[T]: how many records forEach visited, or NotScanned
    \* the disk and the list of readers
    gen,         \* sstFileIdGenerator_
    files,       \* the .sst files ever created, by inode
    ssTables,    \* ssTables_, newest first
    \* the compaction thread
    cpc, cin, cview, cid, cfile, rounds,
    \* clients that query; rfloor is the newest rank the answer must not miss
    rpc, rkey, rfloor, rres

memVars == <<active, imms, mem, frozen, wal>>
writerVars == <<puts, engineLock, wpc, wop, wtable, wtry>>
flushVars == <<fpc, fid, ffile, scanned>>
diskVars == <<gen, files, ssTables>>
compactVars == <<cpc, cin, cview, cid, cfile, rounds>>
readerVars == <<rpc, rkey, rfloor, rres>>
vars == <<memVars, writerVars, flushVars, diskVars, compactVars, readerVars>>

Tables == 1 .. MaxPuts + 1
Ops == [key : Keys, del : Deletes]
NotScanned == -1
NoFile == 0

-----------------------------------------------------------------------------
(* Ranks.                                                                  *)

NoRank == <<0, 0>>
Older(a, b) == a[1] < b[1] \/ (a[1] = b[1] /\ a[2] < b[2])

Op(r) == mem[r[1]][r[2]]
RanksOf(T) == {<<T, i>> : i \in 1 .. Len(mem[T])}
OfKey(S, k) == {r \in S : Op(r).key = k}

\* The newest version of k in S, and NoRank if there is none.
Newest(S, k) ==
    IF OfKey(S, k) = {} THEN NoRank
    ELSE CHOOSE r \in OfKey(S, k) : \A q \in OfKey(S, k) : ~ Older(r, q)

\* A record that reached its table after forEach had passed is in no file.
Late(r) == scanned[r[1]] # NotScanned /\ r[2] > scanned[r[1]]
Settled == {r \in UNION {RanksOf(T) : T \in Tables} : ~ Late(r)}

-----------------------------------------------------------------------------

Init ==
    /\ active = 1
    /\ imms = <<>>
    /\ mem = [T \in Tables |-> <<>>]
    /\ frozen = [T \in Tables |-> FALSE]
    /\ wal = [T \in Tables |-> IF T = 1 THEN "open" ELSE "none"]
    /\ puts = 0
    /\ engineLock = Nobody
    /\ wpc = [w \in Writers |-> "idle"]
    /\ wop \in [Writers -> {CHOOSE o \in Ops : TRUE}]
    /\ wtable = [w \in Writers |-> 1]
    /\ wtry = [w \in Writers |-> 1]
    /\ fpc = [T \in Tables |-> "none"]
    /\ fid = [T \in Tables |-> 0]
    /\ ffile = [T \in Tables |-> NoFile]
    /\ scanned = [T \in Tables |-> NotScanned]
    /\ gen = 0
    /\ files = <<>>
    /\ ssTables = <<>>
    /\ cpc = "idle"
    /\ cin = {}
    /\ cview = {}
    /\ cid = 0
    /\ cfile = NoFile
    /\ rounds = 0
    /\ rpc = [r \in Readers |-> "idle"]
    /\ rkey \in [Readers -> {CHOOSE k \in Keys : TRUE}]
    /\ rfloor = [r \in Readers |-> NoRank]
    /\ rres = [r \in Readers |-> NoRank]

-----------------------------------------------------------------------------
(* put and remove: three attempts at MemTable::put, the first without a    *)
(* lock, the others under engineMutex_, the last on a new table and with   *)
(* its result ignored.                                                     *)

WGoto(w, loc) == wpc' = [wpc EXCEPT ![w] = loc]

BeginPut(w) ==
    /\ wpc[w] = "idle"
    /\ puts < MaxPuts
    /\ puts' = puts + 1
    /\ \E o \in Ops : wop' = [wop EXCEPT ![w] = o]
    /\ wtry' = [wtry EXCEPT ![w] = 1]
    /\ WGoto(w, "load")
    /\ UNCHANGED <<engineLock, wtable, memVars, flushVars, diskVars, compactVars, readerVars>>

\* activeMemTable_ is read without a lock; what follows uses that table.
Load(w) ==
    /\ wpc[w] = "load"
    /\ wtable' = [wtable EXCEPT ![w] = active]
    /\ WGoto(w, "check")
    /\ UNCHANGED <<puts, engineLock, wop, wtry,
                   memVars, flushVars, diskVars, compactVars, readerVars>>

\* MemTable::put returned false.
AttemptFails(w) ==
    WGoto(w, CASE wtry[w] = 1 -> "lock" [] wtry[w] = 2 -> "retire" [] OTHER -> "unlock")

CheckImmutable(w) ==
    /\ wpc[w] = "check"
    /\ \/ frozen[wtable[w]] /\ AttemptFails(w)
       \/ ~ frozen[wtable[w]] /\ WGoto(w, "wal")
    /\ UNCHANGED <<puts, engineLock, wop, wtable, wtry,
                   memVars, flushVars, diskVars, compactVars, readerVars>>

\* Wal::append: durable when it returns, an exception if the log is closed.
AppendWal(w) ==
    /\ wpc[w] = "wal"
    /\ \/ wal[wtable[w]] = "open" /\ WGoto(w, "insert")
       \/ (wal[wtable[w]] # "open" \/ "wal" \in Faults) /\ AttemptFails(w)
    /\ UNCHANGED <<puts, engineLock, wop, wtable, wtry,
                   memVars, flushVars, diskVars, compactVars, readerVars>>

\* Arena::allocate throws when the record does not fit.
ArenaOverruns(T) == Len(mem[T]) <= Capacity     \* a mutant of the next one
ArenaHasRoom(T) == Len(mem[T]) < Capacity

\* OffHeapSkipList::put.
InsertRecord(w) ==
    /\ wpc[w] = "insert"
    /\ LET T == wtable[w] IN
       \/ /\ ArenaHasRoom(T)
          /\ mem' = [mem EXCEPT ![T] = Append(@, wop[w])]
          /\ WGoto(w, "usage")
       \/ /\ ~ ArenaHasRoom(T)
          /\ AttemptFails(w)
          /\ UNCHANGED mem
    /\ UNCHANGED <<active, imms, frozen, wal, puts, engineLock, wop, wtable, wtry,
                   flushVars, diskVars, compactVars, readerVars>>

CheckMemoryUsage(w) ==
    /\ wpc[w] = "usage"
    /\ frozen' = [frozen EXCEPT ![wtable[w]] = @ \/ Len(mem[wtable[w]]) >= Threshold]
    /\ WGoto(w, IF wtry[w] = 1 THEN "return" ELSE "unlock")
    /\ UNCHANGED <<active, imms, mem, wal, puts, engineLock, wop, wtable, wtry,
                   flushVars, diskVars, compactVars, readerVars>>

Lock(w) ==
    /\ wpc[w] = "lock"
    /\ engineLock = Nobody
    /\ engineLock' = w
    /\ wtry' = [wtry EXCEPT ![w] = 2]
    /\ WGoto(w, "load")
    /\ UNCHANGED <<puts, wop, wtable,
                   memVars, flushVars, diskVars, compactVars, readerVars>>

\* A mutant of the next one: engineMutex_ stays locked.
UnlockForgotten(w) ==
    /\ wpc[w] = "unlock"
    /\ WGoto(w, "return")
    /\ UNCHANGED <<puts, engineLock, wop, wtable, wtry,
                   memVars, flushVars, diskVars, compactVars, readerVars>>

Unlock(w) ==
    /\ wpc[w] = "unlock"
    /\ engineLock' = Nobody
    /\ WGoto(w, "return")
    /\ UNCHANGED <<puts, wop, wtable, wtry,
                   memVars, flushVars, diskVars, compactVars, readerVars>>

Return(w) ==
    /\ wpc[w] = "return"
    /\ WGoto(w, "idle")
    /\ UNCHANGED <<puts, engineLock, wop, wtable, wtry,
                   memVars, flushVars, diskVars, compactVars, readerVars>>

-----------------------------------------------------------------------------
(* switchMemTable, by the owner of engineMutex_.                           *)

Flushing == {T \in Tables : fpc[T] \notin {"none", "done", "failed"}}
Compacting == cpc # "idle"

Retire(w) ==
    /\ wpc[w] = "retire"
    /\ Cardinality(Flushing) < MaxFlushing
    /\ CompactAlone => ~ Compacting
    /\ frozen' = [frozen EXCEPT ![active] = TRUE]
    /\ imms' = Append(imms, active)
    /\ WGoto(w, "renew")
    /\ UNCHANGED <<active, mem, wal, puts, engineLock, wop, wtable, wtry,
                   flushVars, diskVars, compactVars, readerVars>>

\* Mutants of Renew: the old WAL is removed at once; no thread is started.
RenewDropsWal(w) ==
    /\ wpc[w] = "renew"
    /\ active' = active + 1
    /\ wal' = [wal EXCEPT ![active] = "gone", ![active + 1] = "open"]
    /\ fpc' = [fpc EXCEPT ![active] = "id"]
    /\ wtry' = [wtry EXCEPT ![w] = 3]
    /\ WGoto(w, "load")
    /\ UNCHANGED <<imms, mem, frozen, puts, engineLock, wop, wtable,
                   fid, ffile, scanned, diskVars, compactVars, readerVars>>
RenewWithoutFlush(w) ==
    /\ wpc[w] = "renew"
    /\ active' = active + 1
    /\ wal' = [wal EXCEPT ![active + 1] = "open"]
    /\ wtry' = [wtry EXCEPT ![w] = 3]
    /\ WGoto(w, "load")
    /\ UNCHANGED <<imms, mem, frozen, puts, engineLock, wop, wtable,
                   flushVars, diskVars, compactVars, readerVars>>

\* The new table gets a WAL of its own, the old one a thread that flushes it.
Renew(w) ==
    /\ wpc[w] = "renew"
    /\ active' = active + 1
    /\ wal' = [wal EXCEPT ![active + 1] = "open"]
    /\ fpc' = [fpc EXCEPT ![active] = "id"]
    /\ wtry' = [wtry EXCEPT ![w] = 3]
    /\ WGoto(w, "load")
    /\ UNCHANGED <<imms, mem, frozen, puts, engineLock, wop, wtable,
                   fid, ffile, scanned, diskVars, compactVars, readerVars>>

WriterStep(w) ==
    \/ Load(w) \/ CheckImmutable(w) \/ AppendWal(w) \/ InsertRecord(w)
    \/ CheckMemoryUsage(w) \/ Lock(w) \/ Retire(w) \/ Renew(w) \/ Unlock(w) \/ Return(w)

-----------------------------------------------------------------------------
(* Files.  An L0 file is named by its id, an L1 file likewise; an open     *)
(* reader or builder keeps its inode when the name is unlinked.            *)

File(level, id, state, recs) ==
    [level |-> level, id |-> id, state |-> state, recs |-> recs, linked |-> TRUE]

Inodes == 1 .. Len(files)
Linked(level) == {f \in Inodes : files[f].linked /\ files[f].level = level}

\* O_CREAT | O_TRUNC: the inode of that name, or a new one.
InodeOf(level, id) ==
    LET same == {f \in Linked(level) : files[f].id = id}
    IN IF same = {} THEN Len(files) + 1 ELSE CHOOSE f \in same : TRUE
Overwrite(f, new) == [g \in Inodes \cup {f} |-> IF g = f THEN new ELSE files[g]]

\* The two halves of ++sstFileIdGenerator_: a plain int64_t, no lock.
Counting == cpc = "store" \/ \E T \in Tables : fpc[T] = "open"
MayCount == "race" \in Faults \/ ~ Counting

-----------------------------------------------------------------------------
(* flushMemTableToDisk of table T.                                         *)

FGoto(T, loc) == fpc' = [fpc EXCEPT ![T] = loc]

LoadFileId(T) ==
    /\ fpc[T] = "id"
    /\ MayCount
    /\ fid' = [fid EXCEPT ![T] = gen + 1]
    /\ FGoto(T, "open")
    /\ UNCHANGED <<memVars, writerVars, ffile, scanned, diskVars, compactVars, readerVars>>

\* The builder opens L0-<id>.sst with O_CREAT | O_TRUNC.
OpenFile(T) ==
    /\ fpc[T] = "open"
    /\ gen' = fid[T]
    /\ ffile' = [ffile EXCEPT ![T] = InodeOf(0, fid[T])]
    /\ files' = Overwrite(ffile'[T], File(0, fid[T], "empty", {}))
    /\ FGoto(T, "scan")
    /\ UNCHANGED <<memVars, writerVars, fid, scanned, ssTables, compactVars, readerVars>>

\* forEach walks the skip list; the builder writes out full blocks.
ScanTable(T) ==
    /\ fpc[T] = "scan"
    /\ scanned' = [scanned EXCEPT ![T] = Len(mem[T])]
    /\ files' = [files EXCEPT ![ffile[T]].state = "partial", ![ffile[T]].recs = RanksOf(T)]
    /\ FGoto(T, "finish")
    /\ UNCHANGED <<memVars, writerVars, fid, ffile, gen, ssTables, compactVars, readerVars>>

\* finish(): filter, index, footer and fsync.
FinishFile(T) ==
    /\ fpc[T] = "finish"
    /\ files' = [files EXCEPT ![ffile[T]].state = "complete"]
    /\ FGoto(T, "reader")
    /\ UNCHANGED <<memVars, writerVars, fid, ffile, scanned, gen, ssTables, compactVars, readerVars>>

\* An exception ends the thread: the table stays in imms and keeps its WAL.
FlushFails(T) ==
    /\ "sst" \in Faults
    /\ fpc[T] \in {"scan", "finish"}
    /\ FGoto(T, "failed")
    /\ UNCHANGED <<memVars, writerVars, fid, ffile, scanned, diskVars, compactVars, readerVars>>

\* The reader opens the file by name and checks the magic number.
OpenReader(T) ==
    /\ fpc[T] = "reader"
    /\ LET f == files[ffile[T]]
       IN FGoto(T, IF f.linked /\ f.state = "complete" THEN "publish" ELSE "failed")
    /\ UNCHANGED <<memVars, writerVars, fid, ffile, scanned, diskVars, compactVars, readerVars>>

\* A mutant of the next one: push_back.
PublishReaderAtEnd(T) ==
    /\ fpc[T] = "publish"
    /\ ssTables' = Append(ssTables, ffile[T])
    /\ FGoto(T, "erase")
    /\ UNCHANGED <<memVars, writerVars, fid, ffile, scanned, gen, files, compactVars, readerVars>>

\* The reader goes to the front of the list.
PublishReader(T) ==
    /\ fpc[T] = "publish"
    /\ ssTables' = <<ffile[T]>> \o ssTables
    /\ FGoto(T, "erase")
    /\ UNCHANGED <<memVars, writerVars, fid, ffile, scanned, gen, files, compactVars, readerVars>>

\* std::remove and erase of a table that is in the list once, if at all.
Without(seq, x) ==
    LET at == {i \in 1 .. Len(seq) : seq[i] = x}
        i == CHOOSE i \in at : TRUE
    IN IF at = {} THEN seq ELSE SubSeq(seq, 1, i - 1) \o SubSeq(seq, i + 1, Len(seq))

EraseImmutable(T) ==
    /\ fpc[T] = "erase"
    /\ imms' = Without(imms, T)
    /\ FGoto(T, "drop")
    /\ UNCHANGED <<active, mem, frozen, wal, writerVars, fid, ffile, scanned,
                   diskVars, compactVars, readerVars>>

DropWal(T) ==
    /\ fpc[T] = "drop"
    /\ wal' = [wal EXCEPT ![T] = "gone"]
    /\ FGoto(T, "done")
    /\ UNCHANGED <<active, imms, mem, frozen, writerVars, fid, ffile, scanned,
                   diskVars, compactVars, readerVars>>

FlushStep(T) ==
    \/ LoadFileId(T) \/ OpenFile(T) \/ ScanTable(T) \/ FinishFile(T) \/ FlushFails(T)
    \/ OpenReader(T) \/ PublishReader(T) \/ EraseImmutable(T) \/ DropWal(T)

-----------------------------------------------------------------------------
(* backgroundCompaction.                                                   *)

\* What a scanner makes of a file: it takes the 8 bytes 40 before the end of
\* the file for the end of the data, without a look at the magic number.  Of an
\* empty file it reads nothing; of a partial one it reads nothing, if the bytes
\* there are not positive, or runs past the end and throws.
Readable(f) == IF files[f].state = "complete" THEN files[f].recs ELSE {}
Garbled(S) == \E f \in S : files[f].state = "partial"

\* For each key the heap pops the entry of the largest file id first, and of
\* one file the newest version; the rest of the key is skipped, a tombstone too
\* (isBottomLevel is true).
HasKey(f, k) == OfKey(Readable(f), k) # {}
Winner(S, k) ==
    LET f == CHOOSE f \in S :
                /\ HasKey(f, k)
                /\ \A g \in S : HasKey(g, k) => files[g].id <= files[f].id
    IN Newest(Readable(f), k)
Merged(S) ==
    LET winners == {Winner(S, k) : k \in {j \in Keys : \E f \in S : HasKey(f, j)}}
    IN {r \in winners : ~ Op(r).del}

ScanL0 ==
    /\ cpc = "idle"
    /\ rounds < MaxCompactions
    /\ CompactAlone => Flushing = {} /\ \A w \in Writers : wpc[w] # "renew"
    /\ Cardinality(Linked(0)) >= L0Trigger
    /\ rounds' = rounds + 1
    /\ \/ /\ cin' = Linked(0)
          /\ cview' = Merged(Linked(0))
          /\ cpc' = "id"
       \/ Garbled(Linked(0)) /\ UNCHANGED <<cin, cview, cpc>>
    /\ UNCHANGED <<memVars, writerVars, flushVars, diskVars, cid, cfile, readerVars>>

LoadL1Id ==
    /\ cpc = "id"
    /\ MayCount
    /\ cid' = gen + 1
    /\ cpc' = "store"
    /\ UNCHANGED <<memVars, writerVars, flushVars, diskVars, cin, cview, cfile, rounds, readerVars>>

\* executeCompaction writes L1-<id>.sst.
WriteL1 ==
    /\ cpc = "store"
    /\ gen' = cid
    /\ cfile' = InodeOf(1, cid)
    /\ files' = Overwrite(cfile', File(1, cid, "complete", cview))
    /\ cpc' = "remove"
    /\ UNCHANGED <<memVars, writerVars, flushVars, ssTables, cin, cview, cid, rounds, readerVars>>

\* The merged files are removed one by one, in the order of the directory.
RemoveL0 ==
    /\ cpc = "remove"
    /\ \E f \in cin :
          /\ files' = [files EXCEPT ![f].linked = FALSE]
          /\ cin' = cin \ {f}
    /\ cpc' = IF Cardinality(cin) = 1 THEN "publish" ELSE "remove"
    /\ UNCHANGED <<memVars, writerVars, flushVars, gen, ssTables, cview, cid, cfile, rounds, readerVars>>

\* A mutant of the next one: the list is replaced.
PublishOnlyL1 ==
    /\ cpc = "publish"
    /\ ssTables' = <<cfile>>
    /\ cview' = {}
    /\ cpc' = "idle"
    /\ UNCHANGED <<memVars, writerVars, flushVars, gen, files, cin, cid, cfile, rounds, readerVars>>

PublishL1 ==
    /\ cpc = "publish"
    /\ ssTables' = <<cfile>> \o ssTables
    /\ cview' = {}
    /\ cpc' = "idle"
    /\ UNCHANGED <<memVars, writerVars, flushVars, gen, files, cin, cid, cfile, rounds, readerVars>>

CompactStep == LoadL1Id \/ WriteL1 \/ RemoveL0 \/ PublishL1

-----------------------------------------------------------------------------
(* query: the active table, then the immutable ones from the newest, then  *)
(* the readers in list order.                                              *)

BeginQuery(r) ==
    /\ rpc[r] = "idle"
    /\ \E k \in Keys :
          /\ rkey' = [rkey EXCEPT ![r] = k]
          /\ rfloor' = [rfloor EXCEPT ![r] = Newest(Settled, k)]
    /\ rpc' = [rpc EXCEPT ![r] = "active"]
    /\ UNCHANGED <<rres, memVars, writerVars, flushVars, diskVars, compactVars>>

\* Looks in one place: the answer is found there, or the next place is asked.
Answer(r, rank, next) ==
    /\ rres' = [rres EXCEPT ![r] = rank]
    /\ rpc' = [rpc EXCEPT ![r] = IF rank # NoRank THEN "done" ELSE next]
    /\ UNCHANGED <<rkey, rfloor, memVars, writerVars, flushVars, diskVars, compactVars>>

\* The first rank found along a sequence of sets of ranks.
FirstHit(seq, k) ==
    LET hits == {i \in 1 .. Len(seq) : Newest(seq[i], k) # NoRank}
    IN IF hits = {} THEN NoRank
       ELSE Newest(seq[CHOOSE i \in hits : \A j \in hits : i <= j], k)

LookInActive(r) ==
    /\ rpc[r] = "active"
    /\ Answer(r, Newest(RanksOf(active), rkey[r]), "imms")

LookInImmutables(r) ==
    /\ rpc[r] = "imms"
    /\ LET n == Len(imms)
           newestFirst == [i \in 1 .. n |-> RanksOf(imms[n + 1 - i])]
       IN Answer(r, FirstHit(newestFirst, rkey[r]), "files")

LookInFiles(r) ==
    /\ rpc[r] = "files"
    /\ LET contents == [i \in 1 .. Len(ssTables) |-> files[ssTables[i]].recs]
       IN Answer(r, FirstHit(contents, rkey[r]), "done")

EndQuery(r) ==
    /\ rpc[r] = "done"
    /\ rpc' = [rpc EXCEPT ![r] = "idle"]
    /\ rfloor' = [rfloor EXCEPT ![r] = NoRank]
    /\ rres' = [rres EXCEPT ![r] = NoRank]
    /\ UNCHANGED <<rkey, memVars, writerVars, flushVars, diskVars, compactVars>>

QueryStep(r) == LookInActive(r) \/ LookInImmutables(r) \/ LookInFiles(r) \/ EndQuery(r)

-----------------------------------------------------------------------------

Next ==
    \/ \E w \in Writers : BeginPut(w) \/ WriterStep(w)
    \/ \E T \in Tables : FlushStep(T)
    \/ ScanL0 \/ CompactStep
    \/ \E r \in Readers : BeginQuery(r) \/ QueryStep(r)

Spec == Init /\ [][Next]_vars

\* Threads that are inside an operation keep running.  The thread of a flush
\* and the compaction thread never wait; a waiter for engineMutex_ gets it once
\* it stays free.
FairSpec ==
    /\ Spec
    /\ \A w \in Writers : WF_vars(WriterStep(w))
    /\ \A T \in Tables : WF_vars(FlushStep(T))
    /\ WF_vars(CompactStep)

-----------------------------------------------------------------------------
(* Properties.                                                             *)

WriterLocations == {"idle", "load", "check", "wal", "insert", "usage", "lock",
                    "retire", "renew", "unlock", "return"}
FlushLocations == {"none", "id", "open", "scan", "finish", "reader", "publish",
                   "erase", "drop", "done", "failed"}
Ranks == Tables \X (1 .. Capacity)

TypeOK ==
    /\ active \in Tables
    /\ imms \in Seq(Tables)
    /\ mem \in [Tables -> Seq(Ops)] /\ \A T \in Tables : Len(mem[T]) <= Capacity
    /\ frozen \in [Tables -> BOOLEAN]
    /\ wal \in [Tables -> {"none", "open", "gone"}]
    /\ puts \in 0 .. MaxPuts
    /\ engineLock \in Writers \cup {Nobody}
    /\ wpc \in [Writers -> WriterLocations]
    /\ wop \in [Writers -> Ops]
    /\ wtable \in [Writers -> Tables]
    /\ wtry \in [Writers -> 1 .. 3]
    /\ fpc \in [Tables -> FlushLocations]
    /\ fid \in [Tables -> Nat]
    /\ ffile \in [Tables -> {NoFile} \cup Inodes]
    /\ scanned \in [Tables -> {NotScanned} \cup 0 .. Capacity]
    /\ gen \in Nat
    /\ files \in Seq([level : {0, 1}, id : Nat, state : {"empty", "partial", "complete"},
                      recs : SUBSET Ranks, linked : BOOLEAN])
    /\ ssTables \in Seq(Inodes)
    /\ cpc \in {"idle", "id", "store", "remove", "publish"}
    /\ cin \subseteq Inodes
    /\ cview \subseteq Ranks
    /\ cid \in Nat
    /\ cfile \in {NoFile} \cup Inodes
    /\ rounds \in 0 .. MaxCompactions
    /\ rpc \in [Readers -> {"idle", "active", "imms", "files", "done"}]
    /\ rkey \in [Readers -> Keys]
    /\ rfloor \in [Readers -> Ranks \cup {NoRank}]
    /\ rres \in [Readers -> Ranks \cup {NoRank}]

\* A query never answers with a version older than the newest one that was in
\* its table when the query started, through switches, flushes and compactions
\* of the tables it walks over (carina_engine.hpp:122-140).  Tombstones count
\* as versions: a removed key does not come back.
ReadFresh == \A r \in Readers : rpc[r] = "done" => ~ Older(rres[r], rfloor[r])

\* The newest version of a key leaves the memtables only into a reader of
\* ssTables_ that holds it: at no moment, however flushes and compactions
\* overlap, is there a place where a query could not come across it
\* (publish before erase, carina_engine.hpp:258-266).
Reachable(rank) ==
    \/ rank[1] = active
    \/ \E i \in 1 .. Len(imms) : imms[i] = rank[1]
    \/ \E i \in 1 .. Len(ssTables) : rank \in files[ssTables[i]].recs
NothingVanishes ==
    \A k \in Keys :
        LET newest == Newest(Settled, k) IN newest = NoRank \/ Reachable(newest)

\* What the directory holds of a key: finished files under their names and
\* WALs not removed.
OnDisk(k) ==
    LET inFiles == UNION {files[f].recs : f \in {g \in Linked(0) \cup Linked(1) : files[g].state = "complete"}}
        inLogs == UNION {RanksOf(T) : T \in {U \in Tables : wal[U] = "open"}}
    IN OfKey(inFiles \cup inLogs, k)

\* At every moment the directory holds the newest version of each key, or one
\* that is newer still, unless that is a tombstone: a record leaves its WAL only
\* for a finished file, and a file only for the result of a merge
\* (carina_engine.hpp:244-272, 327-353).
DiskCovers ==
    \A k \in Keys :
        LET newest == Newest(Settled, k)
        IN \/ newest = NoRank
           \/ Op(newest).del
           \/ \E r \in OnDisk(k) : ~ Older(r, newest)

\* Nothing is added to a table once its flush has walked over it
\* (memtable.hpp:27-48).
NoLateInsert == \A T \in Tables : scanned[T] # NotScanned => Len(mem[T]) = scanned[T]

\* Every put and remove returns, whatever fails: none waits for ever for
\* engineMutex_ or for a table with room (carina_engine.hpp:94-106).
PutReturns == \A w \in Writers : wpc[w] # "idle" ~> wpc[w] = "idle"

\* Every retired table is flushed and its WAL removed, or its flush has failed;
\* none is forgotten (carina_engine.hpp:224-275).
InImms(T) == \E i \in 1 .. Len(imms) : imms[i] = T
RetiredSettled == \A T \in Tables : InImms(T) ~> wal[T] = "gone" \/ fpc[T] = "failed"
=============================================================================
