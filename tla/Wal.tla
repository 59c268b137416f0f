-------------------------------- MODULE Wal --------------------------------
(***************************************************************************)
(* Group commit of one write-ahead log file (engine/wal/wal.hpp).          *)
(*                                                                         *)
(* A thread that appends pushes a request on queue_ and loops until its    *)
(* promise is settled; whoever gets leaderMutex_ drains the queue in       *)
(* batches, writes each batch with one write loop and one fsync, and then  *)
(* settles the promises of the batch one by one.                           *)
(*                                                                         *)
(* A request is named by the order in which it entered queue_: request r   *)
(* is the r-th push_back.  What a request carries (one encoded LogRecord)  *)
(* does not matter to the log, so a request stands for its record.         *)
(***************************************************************************)
EXTENDS Integers, Sequences

CONSTANTS
    Threads,     \* the threads that call append
    MaxAppends,  \* bound on the number of appends of a behaviour
    MaxBatch,    \* MAX_BATCH_SIZE, the most requests of one batch
    Faults,      \* the events the environment may produce, see FaultKinds
    Nobody       \* the owner of a free leaderMutex_

\* "write": ::write fails half-way; "fsync": ::fsync fails; "close": another
\* thread closes the log meanwhile; "crash": the machine stops.
FaultKinds == {"write", "fsync", "close", "crash"}

ASSUME WalAssumption ==
    /\ MaxAppends \in Nat
    /\ MaxBatch \in Nat \ {0}
    /\ Faults \subseteq FaultKinds
    /\ Nobody \notin Threads

VARIABLES
    issued,     \* how many requests were pushed: names the next one
    mine,       \* mine[t]: the request thread t waits for
    pc,         \* pc[t]: where thread t is in append
    queue,      \* queue_
    leader,     \* owner of leaderMutex_
    batch,      \* batch[t]: the requests t popped and has not settled yet
    flushed,    \* flushed[t]: the batch of t was written (not `failed')
    acked,      \* requests whose promise holds a value
    rejected,   \* requests whose promise holds an exception
    file,       \* the bytes of the file, one entry per request (or part of one)
    synced,     \* how many entries an fsync has made durable
    fd,         \* state of fd_, and of the machine
    recovered   \* the requests recover() handed to its consumer

vars == <<issued, mine, pc, queue, leader, batch, flushed, acked, rejected,
          file, synced, fd, recovered>>

Locations == {"idle", "poll", "try", "recheck", "drain", "write", "sync", "notify"}
LeaderLocations == {"recheck", "drain", "write", "sync", "notify"}

Requests == 1 .. MaxAppends
\* A record in the file; whole = FALSE for the torn head of one.
Entries == [req : Requests, whole : BOOLEAN]

Whole(r) == [req |-> r, whole |-> TRUE]
Torn(r) == [req |-> r, whole |-> FALSE]
Wholes(s) == [i \in 1 .. Len(s) |-> Whole(s[i])]

Init ==
    /\ issued = 0
    /\ mine = [t \in Threads |-> 0]
    /\ pc = [t \in Threads |-> "idle"]
    /\ queue = <<>>
    /\ leader = Nobody
    /\ batch = [t \in Threads |-> <<>>]
    /\ flushed = [t \in Threads |-> FALSE]
    /\ acked = {}
    /\ rejected = {}
    /\ file = <<>>
    /\ synced = 0
    /\ fd = "open"
    /\ recovered = <<>>

-----------------------------------------------------------------------------
(* append(): the caller's side.                                            *)

Up == fd \in {"open", "closing", "closed"}

At(t, loc) == Up /\ pc[t] = loc
Goto(t, loc) == pc' = [pc EXCEPT ![t] = loc]

fileVars == <<file, synced, fd, recovered>>
promises == <<acked, rejected>>

Ready(t) == mine[t] \in acked \cup rejected

\* The request enters the queue under queueMutex_.
Enqueue(t) ==
    /\ At(t, "idle")
    /\ issued < MaxAppends
    /\ issued' = issued + 1
    /\ mine' = [mine EXCEPT ![t] = issued + 1]
    /\ queue' = Append(queue, issued + 1)
    /\ Goto(t, "poll")
    /\ UNCHANGED <<leader, batch, flushed, promises, fileVars>>

\* The test of the while loop; fut.get() returns (or rethrows) when it ends.
Poll(t) ==
    /\ At(t, "poll")
    /\ Goto(t, IF Ready(t) THEN "idle" ELSE "try")
    /\ UNCHANGED <<issued, mine, queue, leader, batch, flushed, promises, fileVars>>

\* Mutant: a thread leads without asking for leaderMutex_.
TryLeadUnlocked(t) ==
    /\ At(t, "try")
    /\ leader' = t
    /\ Goto(t, "recheck")
    /\ UNCHANGED <<issued, mine, queue, batch, flushed, promises, fileVars>>

\* try_to_lock on leaderMutex_; a thread that fails waits 10 ms and polls again.
TryLead(t) ==
    /\ At(t, "try")
    /\ \/ /\ leader = Nobody
          /\ leader' = t
          /\ Goto(t, "recheck")
       \/ /\ leader # Nobody
          /\ Goto(t, "poll")
          /\ UNCHANGED leader
    /\ UNCHANGED <<issued, mine, queue, batch, flushed, promises, fileVars>>

\* A previous leader may have settled the promise between the poll and the lock.
Recheck(t) ==
    /\ At(t, "recheck")
    /\ \/ /\ Ready(t)
          /\ leader' = Nobody
          /\ Goto(t, "idle")
       \/ /\ ~ Ready(t)
          /\ Goto(t, "drain")
          /\ UNCHANGED leader
    /\ UNCHANGED <<issued, mine, queue, batch, flushed, promises, fileVars>>

-----------------------------------------------------------------------------
(* drainAndFlushOnce(): the leader's side, repeated until the queue is     *)
(* found empty.                                                            *)

Smaller(a, b) == IF a < b THEN a ELSE b

\* Takes the first n requests of the queue, and m requests off it.
Pop(t, n, m) ==
    /\ batch' = [batch EXCEPT ![t] = SubSeq(queue, 1, n)]
    /\ queue' = SubSeq(queue, m + 1, Len(queue))

\* Mutant: the loop pops one request more than it keeps.
DrainDropsOne(t) ==
    /\ At(t, "drain")
    /\ \/ /\ queue = <<>>
          /\ leader' = Nobody
          /\ Goto(t, "poll")
          /\ UNCHANGED <<queue, batch>>
       \/ /\ queue # <<>>
          /\ LET n == Smaller(MaxBatch, Len(queue)) IN Pop(t, n, n + 1)
          /\ Goto(t, "write")
          /\ UNCHANGED leader
    /\ UNCHANGED <<issued, mine, flushed, promises, fileVars>>

\* Mutant: the bound of the loop is batch.size() <= MAX_BATCH_SIZE.
DrainOneTooMany(t) ==
    /\ At(t, "drain")
    /\ \/ /\ queue = <<>>
          /\ leader' = Nobody
          /\ Goto(t, "poll")
          /\ UNCHANGED <<queue, batch>>
       \/ /\ queue # <<>>
          /\ LET n == Smaller(MaxBatch + 1, Len(queue)) IN Pop(t, n, n)
          /\ Goto(t, "write")
          /\ UNCHANGED leader
    /\ UNCHANGED <<issued, mine, flushed, promises, fileVars>>

Drain(t) ==
    /\ At(t, "drain")
    /\ \/ /\ queue = <<>>
          /\ leader' = Nobody
          /\ Goto(t, "poll")
          /\ UNCHANGED <<queue, batch>>
       \/ /\ queue # <<>>
          /\ LET n == Smaller(MaxBatch, Len(queue)) IN Pop(t, n, n)
          /\ Goto(t, "write")
          /\ UNCHANGED leader
    /\ UNCHANGED <<issued, mine, flushed, promises, fileVars>>

\* The write loop puts the merged buffer at the end of the O_APPEND file.
WriteBatch(t) ==
    /\ At(t, "write")
    /\ fd # "closed"
    /\ file' = file \o Wholes(batch[t])
    /\ flushed' = [flushed EXCEPT ![t] = TRUE]
    /\ Goto(t, "sync")
    /\ UNCHANGED <<issued, mine, queue, leader, batch, promises, synced, fd, recovered>>

\* A write that returns <= 0 ends the loop.  What earlier turns of the loop
\* wrote stays in the file: n whole records and perhaps a part of the next.
WriteFails(t) ==
    /\ At(t, "write")
    /\ \/ /\ fd = "closed"
          /\ UNCHANGED file
       \/ /\ fd # "closed"
          /\ "write" \in Faults
          /\ \E n \in 0 .. Len(batch[t]) - 1 :
                \/ file' = file \o Wholes(SubSeq(batch[t], 1, n))
                \/ file' = Append(file \o Wholes(SubSeq(batch[t], 1, n)),
                                  Torn(batch[t][n + 1]))
    /\ flushed' = [flushed EXCEPT ![t] = FALSE]
    /\ Goto(t, "notify")
    /\ UNCHANGED <<issued, mine, queue, leader, batch, promises, synced, fd, recovered>>

\* Mutant: the promises are settled without an fsync.
SyncOmitted(t) ==
    /\ At(t, "sync")
    /\ Goto(t, "notify")
    /\ UNCHANGED <<issued, mine, queue, leader, batch, flushed, promises, fileVars>>

\* blobSync_() and ::fsync(fd_), whose result the code does not look at.
Sync(t) ==
    /\ At(t, "sync")
    /\ \/ /\ fd # "closed"
          /\ synced' = Len(file)
       \/ /\ fd = "closed" \/ "fsync" \in Faults
          /\ UNCHANGED synced
    /\ Goto(t, "notify")
    /\ UNCHANGED <<issued, mine, queue, leader, batch, flushed, promises, file, fd, recovered>>

\* Mutant: set_exception is forgotten when the write failed.
NotifyOnlySuccess(t) ==
    /\ At(t, "notify")
    /\ acked' = IF flushed[t] THEN acked \cup {Head(batch[t])} ELSE acked
    /\ batch' = [batch EXCEPT ![t] = Tail(@)]
    /\ Goto(t, IF Len(batch[t]) = 1 THEN "drain" ELSE "notify")
    /\ UNCHANGED <<issued, mine, queue, leader, flushed, rejected, fileVars>>

\* The promises of the batch are settled in order, one at a time.
Notify(t) ==
    /\ At(t, "notify")
    /\ \/ /\ flushed[t]
          /\ acked' = acked \cup {Head(batch[t])}
          /\ UNCHANGED rejected
       \/ /\ ~ flushed[t]
          /\ rejected' = rejected \cup {Head(batch[t])}
          /\ UNCHANGED acked
    /\ batch' = [batch EXCEPT ![t] = Tail(@)]
    /\ Goto(t, IF Len(batch[t]) = 1 THEN "drain" ELSE "notify")
    /\ UNCHANGED <<issued, mine, queue, leader, flushed, fileVars>>

-----------------------------------------------------------------------------
(* close(), called by the thread that flushed the table of this log, takes *)
(* no lock: ::fsync, then ::close and fd_ = -1.                            *)

runtime == <<issued, mine, pc, queue, leader, batch, flushed, promises>>

CloseSync ==
    /\ "close" \in Faults
    /\ fd = "open"
    /\ fd' = "closing"
    /\ synced' = Len(file)
    /\ UNCHANGED <<runtime, file, recovered>>

CloseFd ==
    /\ fd = "closing"
    /\ fd' = "closed"
    /\ UNCHANGED <<runtime, file, synced, recovered>>

-----------------------------------------------------------------------------
(* A crash, and recover() on the file that it leaves.                      *)

\* The kernel may have written back any prefix of what was not synced.
CrashImages ==
    LET kept(n) == SubSeq(file, 1, n)
    IN {kept(n) : n \in synced .. Len(file)}
          \cup {Append(kept(n), Torn(file[n + 1].req)) : n \in synced .. Len(file) - 1}

Crash ==
    /\ "crash" \in Faults
    /\ Up
    /\ file' \in CrashImages
    /\ fd' = "crashed"
    /\ UNCHANGED <<runtime, synced, recovered>>

\* Mutant: the torn-write test is >= fileSize, so the last record looks torn.
ReplayStopsEarly(f, n) ==
    /\ \A i \in 1 .. n : f[i].whole
    /\ \/ n + 1 = Len(f)
       \/ n + 1 < Len(f) /\ ~ f[n + 1].whole

\* recover() replays n records: up to the end of the file, or up to the first
\* record that is cut short or fails its CRC.
ReplayStops(f, n) ==
    /\ \A i \in 1 .. n : f[i].whole
    /\ \/ n = Len(f)
       \/ n < Len(f) /\ ~ f[n + 1].whole

Recover ==
    /\ fd = "crashed"
    /\ fd' = "recovered"
    /\ \E n \in 0 .. Len(file) :
          /\ ReplayStops(file, n)
          /\ recovered' = [i \in 1 .. n |-> file[i].req]
    /\ UNCHANGED <<runtime, file, synced>>

-----------------------------------------------------------------------------

Append_(t) == Enqueue(t) \/ Poll(t) \/ TryLead(t) \/ Recheck(t)
Lead(t) == Drain(t) \/ WriteBatch(t) \/ WriteFails(t) \/ Sync(t) \/ Notify(t)

Next ==
    \/ \E t \in Threads : Append_(t) \/ Lead(t)
    \/ CloseSync \/ CloseFd
    \/ Crash \/ Recover

Spec == Init /\ [][Next]_vars

\* A thread inside append keeps running; nobody is obliged to call append.
Running(t) == Poll(t) \/ TryLead(t) \/ Recheck(t) \/ Lead(t)
FairSpec == Spec /\ \A t \in Threads : WF_vars(Running(t))

-----------------------------------------------------------------------------
(* Properties.                                                             *)

TypeOK ==
    /\ issued \in 0 .. MaxAppends
    /\ mine \in [Threads -> 0 .. MaxAppends]
    /\ pc \in [Threads -> Locations]
    /\ queue \in Seq(Requests)
    /\ leader \in Threads \cup {Nobody}
    /\ batch \in [Threads -> Seq(Requests)]
    /\ \A t \in Threads : Len(batch[t]) <= MaxBatch
    /\ flushed \in [Threads -> BOOLEAN]
    /\ acked \subseteq Requests
    /\ rejected \subseteq Requests
    /\ file \in Seq(Entries)
    /\ synced \in 0 .. Len(file)
    /\ fd \in {"open", "closing", "closed", "crashed", "recovered"}
    /\ recovered \in Seq(Requests)

\* A request whose append returned normally is in the durable part of the
\* file: the leader settles promises only after its fsync (wal.hpp:158-168).
AckedDurable == \A r \in acked : \E i \in 1 .. synced : file[i] = Whole(r)

Increasing(s) == \A i, j \in 1 .. Len(s) : i < j => s[i] < s[j]
Reqs(f) == [i \in 1 .. Len(f) |-> f[i].req]

\* The file holds the requests in the order in which they were queued, none
\* twice, whoever led and however writes failed: one leader at a time pops,
\* writes and never puts a request back (wal.hpp:46, 134-157).
LogInQueueOrder == Increasing(Reqs(file))

\* A request that was pushed is settled or is still owned by the queue or by
\* the batch of the leader: none falls between pop_front and set_value, so
\* no thread waits for a promise that nobody holds.
InSeq(r, s) == \E i \in 1 .. Len(s) : s[i] = r
NoRequestLost ==
    \A r \in 1 .. issued :
        \/ r \in acked \cup rejected
        \/ InSeq(r, queue)
        \/ \E t \in Threads : leader = t /\ InSeq(r, batch[t])

\* Every acknowledged request is replayed after a crash, whatever part of the
\* unsynced tail is left (wal.hpp:70).
AckedReplayed ==
    fd = "recovered" => \A r \in acked : InSeq(r, recovered)

\* An acknowledged request is replayed after a crash unless a write that failed
\* had torn the file in front of it: only that can hide it (wal.hpp:96-112).
AckedRecovered ==
    fd = "recovered" =>
        \A r \in acked :
            \/ InSeq(r, recovered)
            \/ \E i, j \in 1 .. Len(file) : i < j /\ ~ file[i].whole /\ file[j].req = r

\* Whatever fails and whoever leads, a thread that called append comes back
\* from it, unless the machine crashes (wal.hpp:45-57).
AppendReturns == \A t \in Threads : pc[t] = "poll" ~> pc[t] = "idle" \/ ~ Up
=============================================================================
