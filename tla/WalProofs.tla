------------------------------ MODULE WalProofs ------------------------------
(***************************************************************************)
(* Theorems about the group commit of module Wal, for any number of        *)
(* threads and appends and any batch size.                                 *)
(***************************************************************************)
EXTENDS Wal, SequenceTheorems, TLAPS

-----------------------------------------------------------------------------
(* Types.  A leader that writes, syncs or notifies holds a batch: without  *)
(* that, Notify could take the head of an empty one.                       *)

BatchLocations == {"write", "sync", "notify"}

LeaderHoldsLock == \A t \in Threads : pc[t] \in LeaderLocations <=> leader = t
BatchInHand == \A t \in Threads : pc[t] \in BatchLocations <=> batch[t] # <<>>

Structure == TypeOK /\ LeaderHoldsLock /\ BatchInHand

LEMMA EmptyIffLen ==
    ASSUME NEW S, NEW s \in Seq(S)
    PROVE  Len(s) \in Nat /\ (s = <<>> <=> Len(s) = 0)
BY EmptySeq, LenProperties

\* What popping n requests does to the queue and to the batch (wal.hpp:138-141).
LEMMA PopProperties ==
    ASSUME NEW q \in Seq(Requests), NEW n \in 0 .. Len(q)
    PROVE  LET b == SubSeq(q, 1, n)
               r == SubSeq(q, n + 1, Len(q))
           IN  /\ b \in Seq(Requests)
               /\ r \in Seq(Requests)
               /\ Len(b) = n
               /\ Len(r) = Len(q) - n
               /\ \A i \in 1 .. n : b[i] = q[i]
               /\ \A i \in 1 .. Len(q) - n : r[i] = q[n + i]
<1>1. Len(q) \in Nat /\ n \in Int
  BY LenProperties
<1>2. \A i \in 1 .. Len(q) : q[i] \in Requests
  BY ElementOfSeq
<1>3. /\ SubSeq(q, 1, n) \in Seq(Requests)
      /\ Len(SubSeq(q, 1, n)) = IF 1 <= n THEN n - 1 + 1 ELSE 0
      /\ \A i \in 1 .. n - 1 + 1 : SubSeq(q, 1, n)[i] = q[1 + i - 1]
  <2>1. \A i \in 1 .. n : q[i] \in Requests
    BY <1>1, <1>2
  <2> QED  BY <1>1, <2>1, SubSeqProperties
<1> QED  OBVIOUS

\* A file that gets n records of a batch, or n and a part of the next.
LEMMA WritesAreEntries ==
    ASSUME NEW f \in Seq(Entries), NEW b \in Seq(Requests), NEW n \in 0 .. Len(b)
    PROVE  LET w == Wholes(SubSeq(b, 1, n))
           IN  /\ w \in Seq(Entries)
               /\ f \o w \in Seq(Entries)
               /\ Len(f \o w) = Len(f) + n
               /\ \A i \in 1 .. Len(f) : (f \o w)[i] = f[i]
               /\ \A i \in 1 .. n : (f \o w)[Len(f) + i] = Whole(b[i])
<1> DEFINE p == SubSeq(b, 1, n)
<1> DEFINE w == Wholes(p)
<1>1. p \in Seq(Requests) /\ Len(p) = n /\ \A i \in 1 .. n : p[i] = b[i]
  BY PopProperties
<1> HIDE DEF p
<1>2. \A i \in 1 .. n : Whole(p[i]) \in Entries
  BY <1>1, ElementOfSeq DEF Whole, Entries
<1>3. n \in Nat
  BY LenProperties
<1>4. w \in [1 .. n -> Entries]
  BY <1>1, <1>2 DEF Wholes
<1>5. w \in Seq(Entries) /\ Len(w) = n
  BY <1>3, <1>4
<1>6. \A i \in 1 .. n : w[i] = Whole(b[i])
  BY <1>1 DEF Wholes
<1> HIDE DEF w
<1>7. /\ f \o w \in Seq(Entries)
      /\ Len(f \o w) = Len(f) + n
      /\ \A i \in 1 .. Len(f) + n :
            (f \o w)[i] = IF i <= Len(f) THEN f[i] ELSE w[i - Len(f)]
  BY <1>5, ConcatProperties
<1>8. Len(f) \in Nat
  BY LenProperties
<1> QED  BY <1>3, <1>5, <1>6, <1>7, <1>8 DEF w, p

LEMMA InitStructure == Init => Structure
<1> SUFFICES ASSUME Init PROVE Structure
  OBVIOUS
<1> USE WalAssumption DEF Init
<1>1. TypeOK
  <2>1. <<>> \in Seq(Requests) /\ <<>> \in Seq(Entries) /\ Len(<<>>) = 0
    BY EmptySeq
  <2> QED  BY <2>1 DEF TypeOK, Locations
<1>2. LeaderHoldsLock
  BY DEF LeaderHoldsLock, LeaderLocations
<1>3. BatchInHand
  BY DEF BatchInHand, BatchLocations
<1> QED  BY <1>1, <1>2, <1>3 DEF Structure

LEMMA StructureStep == Structure /\ [Next]_vars => Structure'
<1> SUFFICES ASSUME Structure, [Next]_vars PROVE Structure'
  OBVIOUS
<1> USE WalAssumption
<1> USE DEF Structure, TypeOK, LeaderHoldsLock, BatchInHand, Locations,
            LeaderLocations, BatchLocations, At, Goto, promises, fileVars
<1>q. Len(queue) \in Nat /\ Len(file) \in Nat
  BY LenProperties
<1>b. \A t \in Threads : Len(batch[t]) \in Nat
  BY LenProperties
<1>1. ASSUME NEW t \in Threads, Enqueue(t) PROVE Structure'
  <2>1. issued + 1 \in Requests
    BY <1>1 DEF Enqueue, Requests
  <2>2. queue' \in Seq(Requests)
    BY <1>1, <2>1, AppendProperties DEF Enqueue
  <2>3. issued' \in 0 .. MaxAppends /\ mine' \in [Threads -> 0 .. MaxAppends]
    BY <1>1, <2>1 DEF Enqueue, Requests
  <2>4. UNCHANGED <<leader, batch, flushed, acked, rejected, file, synced, fd, recovered>>
    BY <1>1 DEF Enqueue
  <2>5. pc' = [pc EXCEPT ![t] = "poll"] /\ pc[t] = "idle"
    BY <1>1 DEF Enqueue
  <2>6. TypeOK'
    BY <2>2, <2>3, <2>4, <2>5
  <2>7. LeaderHoldsLock' /\ BatchInHand'
    BY <2>4, <2>5
  <2> QED  BY <2>6, <2>7
<1>2. ASSUME NEW t \in Threads, Poll(t) PROVE Structure'
  BY <1>2 DEF Poll
<1>3. ASSUME NEW t \in Threads, TryLead(t) PROVE Structure'
  BY <1>3 DEF TryLead
<1>4. ASSUME NEW t \in Threads, Recheck(t) PROVE Structure'
  BY <1>4 DEF Recheck
<1>5. ASSUME NEW t \in Threads, Drain(t) PROVE Structure'
  <2>1. CASE queue = <<>>
    BY <1>5, <2>1 DEF Drain
  <2>2. CASE queue # <<>>
    <3> DEFINE n == Smaller(MaxBatch, Len(queue))
    <3>1. n \in 0 .. Len(queue) /\ n <= MaxBatch /\ n > 0
      BY <2>2, EmptyIffLen DEF Smaller
    <3> HIDE DEF n
    <3>2. Pop(t, n, n) /\ Goto(t, "write") /\ UNCHANGED leader
      BY <1>5, <2>2 DEF Drain, n
    <3>3. /\ batch'[t] \in Seq(Requests)
          /\ Len(batch'[t]) = n
          /\ queue' \in Seq(Requests)
      BY <3>1, <3>2, PopProperties DEF Pop
    <3>4. batch'[t] # <<>>
      BY <3>1, <3>3, EmptyIffLen
    <3> QED  BY <1>5, <3>1, <3>2, <3>3, <3>4 DEF Drain, Pop
  <2> QED  BY <2>1, <2>2
<1>6. ASSUME NEW t \in Threads, WriteBatch(t) PROVE Structure'
  <2>1. Wholes(batch[t]) \in Seq(Entries) /\ Len(Wholes(batch[t])) \in Nat
    <3>1. Wholes(SubSeq(batch[t], 1, Len(batch[t]))) \in Seq(Entries)
      BY <1>b, WritesAreEntries
    <3>2. SubSeq(batch[t], 1, Len(batch[t])) = batch[t]
      BY SubSeqFull
    <3> QED  BY <3>1, <3>2, LenProperties
  <2>2. file' \in Seq(Entries) /\ Len(file') = Len(file) + Len(Wholes(batch[t]))
    BY <1>6, <2>1, ConcatProperties DEF WriteBatch
  <2>3. synced' \in 0 .. Len(file')
    BY <1>6, <1>q, <2>1, <2>2 DEF WriteBatch
  <2> QED  BY <1>6, <2>2, <2>3 DEF WriteBatch
<1>7. ASSUME NEW t \in Threads, WriteFails(t) PROVE Structure'
  <2>1. file' \in Seq(Entries) /\ Len(file') \in Nat /\ Len(file') >= Len(file)
    <3>1. CASE UNCHANGED file
      BY <1>q, <3>1
    <3>2. ASSUME NEW n \in 0 .. Len(batch[t]) - 1,
                 \/ file' = file \o Wholes(SubSeq(batch[t], 1, n))
                 \/ file' = Append(file \o Wholes(SubSeq(batch[t], 1, n)),
                                   Torn(batch[t][n + 1]))
          PROVE  file' \in Seq(Entries) /\ Len(file') \in Nat /\ Len(file') >= Len(file)
      <4> DEFINE g == file \o Wholes(SubSeq(batch[t], 1, n))
      <4>1. n \in 0 .. Len(batch[t]) /\ n + 1 \in 1 .. Len(batch[t])
        BY <1>b
      <4>2. g \in Seq(Entries) /\ Len(g) = Len(file) + n
        BY <4>1, WritesAreEntries
      <4>3. Torn(batch[t][n + 1]) \in Entries
        BY <4>1, ElementOfSeq DEF Torn, Entries
      <4>4. file' = g \/ file' = Append(g, Torn(batch[t][n + 1]))
        BY <3>2
      <4> HIDE DEF g
      <4>5. /\ Append(g, Torn(batch[t][n + 1])) \in Seq(Entries)
            /\ Len(Append(g, Torn(batch[t][n + 1]))) = Len(g) + 1
        BY <4>2, <4>3, AppendProperties
      <4>6. file' \in Seq(Entries)
        BY <4>2, <4>4, <4>5
      <4>7. Len(file') = Len(file) + n \/ Len(file') = Len(file) + n + 1
        BY <4>2, <4>4, <4>5
      <4> QED  BY <1>q, <4>1, <4>6, <4>7
    <3> QED  BY <1>7, <3>1, <3>2 DEF WriteFails
  <2>2. synced' \in 0 .. Len(file')
    BY <1>7, <1>q, <2>1 DEF WriteFails
  <2> QED  BY <1>7, <2>1, <2>2 DEF WriteFails
<1>8. ASSUME NEW t \in Threads, Sync(t) PROVE Structure'
  BY <1>8, <1>q DEF Sync
<1>9. ASSUME NEW t \in Threads, Notify(t) PROVE Structure'
  <2>1. batch[t] # <<>>
    BY <1>9 DEF Notify
  <2>2. /\ Head(batch[t]) \in Requests
        /\ Tail(batch[t]) \in Seq(Requests)
        /\ Len(Tail(batch[t])) = Len(batch[t]) - 1
    BY <2>1, HeadTailProperties
  <2>3. Tail(batch[t]) = <<>> <=> Len(batch[t]) = 1
    <3>1. Tail(batch[t]) = <<>> <=> Len(Tail(batch[t])) = 0
      BY <2>2, EmptyIffLen
    <3> QED  BY <1>b, <2>2, <3>1, SMTT(20)
  <2> QED  BY <1>9, <1>b, <2>1, <2>2, <2>3, SMTT(20) DEF Notify
<1>10. CASE CloseSync \/ CloseFd
  BY <1>10, <1>q DEF CloseSync, CloseFd, runtime
<1>11. CASE Crash
  <2>1. file' \in Seq(Entries) /\ Len(file') \in Nat /\ synced <= Len(file')
    <3>1. \A i \in 1 .. Len(file) : file[i] \in Entries
      BY ElementOfSeq
    <3>2. \A n \in 0 .. Len(file) :
            SubSeq(file, 1, n) \in Seq(Entries) /\ Len(SubSeq(file, 1, n)) = n
      <4> TAKE n \in 0 .. Len(file)
      <4>1. \A i \in 1 .. n : file[i] \in Entries
        BY <1>q, <3>1
      <4> QED  BY <1>q, <4>1, SubSeqProperties
    <3>3. CASE \E n \in synced .. Len(file) : file' = SubSeq(file, 1, n)
      BY <1>q, <3>2, <3>3
    <3>4. ASSUME NEW n \in synced .. Len(file) - 1,
                 file' = Append(SubSeq(file, 1, n), Torn(file[n + 1].req))
          PROVE  file' \in Seq(Entries) /\ Len(file') \in Nat /\ synced <= Len(file')
      <4>1. n \in 0 .. Len(file) /\ n + 1 \in 1 .. Len(file)
        BY <1>q
      <4>2. Torn(file[n + 1].req) \in Entries
        BY <3>1, <4>1 DEF Torn, Entries
      <4>3. SubSeq(file, 1, n) \in Seq(Entries) /\ Len(SubSeq(file, 1, n)) = n
        BY <3>2, <4>1
      <4>4. file' \in Seq(Entries) /\ Len(file') = n + 1
        BY <3>4, <4>2, <4>3, AppendProperties
      <4> QED  BY <1>q, <4>1, <4>4
    <3> QED  BY <1>11, <3>3, <3>4 DEF Crash, CrashImages
  <2>2. synced' \in 0 .. Len(file')
    BY <1>11, <1>q, <2>1 DEF Crash, runtime
  <2> QED  BY <1>11, <2>1, <2>2 DEF Crash, runtime
<1>12. CASE Recover
  <2>1. recovered' \in Seq(Requests)
    <3>1. \A i \in 1 .. Len(file) : file[i].req \in Requests
      <4>1. \A i \in 1 .. Len(file) : file[i] \in Entries
        BY ElementOfSeq
      <4> QED  BY <4>1 DEF Entries
    <3>2. PICK n \in 0 .. Len(file) : recovered' = [i \in 1 .. n |-> file[i].req]
      BY <1>12 DEF Recover
    <3>3. n \in Nat /\ recovered' \in [1 .. n -> Requests]
      BY <1>q, <3>1, <3>2
    <3> QED  BY <3>3
  <2> QED  BY <1>12, <2>1 DEF Recover, runtime
<1>13. CASE UNCHANGED vars
  BY <1>13 DEF vars
<1> QED
  BY <1>1, <1>2, <1>3, <1>4, <1>5, <1>6, <1>7, <1>8, <1>9, <1>10, <1>11, <1>12, <1>13
     DEF Next, Append_, Lead

\* The state of every reachable log has the types of TypeOK, and no batch is
\* larger than MAX_BATCH_SIZE (wal.hpp:26, 134-141).
THEOREM TypeCorrect == Spec => []TypeOK
<1>1. Structure => TypeOK
  BY DEF Structure
<1> QED  BY <1>1, InitStructure, StructureStep, PTL DEF Spec

-----------------------------------------------------------------------------
(* Durability.  Between the fsync and set_value the batch is in the synced *)
(* part of the file; between the write and the fsync it is in the file.    *)

Durable(r) == \E i \in 1 .. synced : file[i] = Whole(r)
Written(r) == \E i \in 1 .. Len(file) : file[i] = Whole(r)

NeverClosed == fd \in {"open", "crashed", "recovered"}
AckedIsDurable == \A r \in acked : Durable(r)
NotifiedIsDurable ==
    \A t \in Threads : pc[t] = "notify" /\ flushed[t] =>
        \A i \in 1 .. Len(batch[t]) : Durable(batch[t][i])
SyncingIsWritten ==
    \A t \in Threads : Up /\ pc[t] = "sync" =>
        \A i \in 1 .. Len(batch[t]) : Written(batch[t][i])

Durability == NeverClosed /\ AckedIsDurable /\ NotifiedIsDurable /\ SyncingIsWritten

\* What an fsync made durable stays where it is in the file: writes append,
\* and a crash takes only what was not synced.
SyncedKept ==
    /\ synced <= synced'
    /\ \A i \in 1 .. synced : file'[i] = file[i]

\* While the machine runs the file only grows.
Grown ==
    /\ Len(file) <= Len(file')
    /\ \A i \in 1 .. Len(file) : file'[i] = file[i]

LEMMA BatchGrows ==
    ASSUME Structure, NEW t \in Threads, WriteBatch(t)
    PROVE  /\ Grown
           /\ Len(file') = Len(file) + Len(batch[t])
           /\ \A i \in 1 .. Len(batch[t]) : file'[Len(file) + i] = Whole(batch[t][i])
<1>1. file \in Seq(Entries) /\ batch[t] \in Seq(Requests)
  BY DEF Structure, TypeOK
<1>2. Len(file) \in Nat /\ Len(batch[t]) \in Nat
  BY <1>1, LenProperties
<1>3. SubSeq(batch[t], 1, Len(batch[t])) = batch[t]
  BY <1>1, SubSeqFull
<1>4. file' = file \o Wholes(batch[t])
  BY DEF WriteBatch
<1>5. /\ Len(file') = Len(file) + Len(batch[t])
      /\ \A i \in 1 .. Len(file) : file'[i] = file[i]
      /\ \A i \in 1 .. Len(batch[t]) : file'[Len(file) + i] = Whole(batch[t][i])
  <2>1. file' = file \o Wholes(SubSeq(batch[t], 1, Len(batch[t])))
    BY <1>3, <1>4
  <2>2. Len(batch[t]) \in 0 .. Len(batch[t])
    BY <1>2
  <2> QED  BY <1>1, <2>1, <2>2, WritesAreEntries
<1> QED  BY <1>2, <1>5 DEF Grown

LEMMA FailedWriteGrows ==
    ASSUME Structure, NEW t \in Threads, WriteFails(t)
    PROVE  Grown
<1>1. file \in Seq(Entries) /\ batch[t] \in Seq(Requests)
  BY DEF Structure, TypeOK
<1>2. Len(file) \in Nat /\ Len(batch[t]) \in Nat
  BY <1>1, LenProperties
<1>3. CASE UNCHANGED file
  BY <1>2, <1>3 DEF Grown
<1>4. ASSUME NEW n \in 0 .. Len(batch[t]) - 1,
             \/ file' = file \o Wholes(SubSeq(batch[t], 1, n))
             \/ file' = Append(file \o Wholes(SubSeq(batch[t], 1, n)),
                               Torn(batch[t][n + 1]))
      PROVE  Grown
  <2> DEFINE g == file \o Wholes(SubSeq(batch[t], 1, n))
  <2>1. n \in 0 .. Len(batch[t]) /\ n + 1 \in 1 .. Len(batch[t])
    BY <1>2
  <2>2. /\ g \in Seq(Entries)
        /\ Len(g) = Len(file) + n
        /\ \A i \in 1 .. Len(file) : g[i] = file[i]
    BY <1>1, <2>1, WritesAreEntries
  <2>3. Torn(batch[t][n + 1]) \in Entries
    BY <1>1, <2>1, ElementOfSeq DEF Torn, Entries
  <2>4. file' = g \/ file' = Append(g, Torn(batch[t][n + 1]))
    BY <1>4
  <2> HIDE DEF g
  <2>5. /\ Len(Append(g, Torn(batch[t][n + 1]))) = Len(g) + 1
        /\ \A i \in 1 .. Len(g) : Append(g, Torn(batch[t][n + 1]))[i] = g[i]
    BY <2>2, <2>3, AppendProperties
  <2>6. CASE file' = g
    BY <1>2, <2>1, <2>2, <2>6 DEF Grown
  <2>7. CASE file' = Append(g, Torn(batch[t][n + 1]))
    BY <1>2, <2>1, <2>2, <2>5, <2>7 DEF Grown
  <2> QED  BY <2>4, <2>6, <2>7
<1> QED  BY <1>3, <1>4 DEF WriteFails

LEMMA CrashKeepsSynced ==
    ASSUME Structure, Crash
    PROVE  \A i \in 1 .. synced : file'[i] = file[i]
<1>1. file \in Seq(Entries) /\ synced \in 0 .. Len(file) /\ Len(file) \in Nat
  BY LenProperties DEF Structure, TypeOK
<1>2. \A i \in 1 .. Len(file) : file[i] \in Entries
  BY <1>1, ElementOfSeq
<1>3. ASSUME NEW n \in synced .. Len(file)
      PROVE  /\ SubSeq(file, 1, n) \in Seq(Entries)
             /\ Len(SubSeq(file, 1, n)) = n
             /\ \A i \in 1 .. n : SubSeq(file, 1, n)[i] = file[i]
  <2>1. n \in Nat /\ \A i \in 1 .. n : file[i] \in Entries
    BY <1>1, <1>2
  <2> QED  BY <2>1, SubSeqProperties
<1>4. CASE \E n \in synced .. Len(file) : file' = SubSeq(file, 1, n)
  BY <1>1, <1>3, <1>4
<1>5. ASSUME NEW n \in synced .. Len(file) - 1,
             file' = Append(SubSeq(file, 1, n), Torn(file[n + 1].req))
      PROVE  \A i \in 1 .. synced : file'[i] = file[i]
  <2>1. n \in synced .. Len(file) /\ n + 1 \in 1 .. Len(file) /\ synced <= n
    BY <1>1
  <2>2. Torn(file[n + 1].req) \in Entries
    BY <1>2, <2>1 DEF Torn, Entries
  <2>3. \A i \in 1 .. n : file'[i] = SubSeq(file, 1, n)[i]
    BY <1>3, <1>5, <2>1, <2>2, AppendProperties
  <2> QED  BY <1>1, <1>3, <2>1, <2>3
<1> QED  BY <1>4, <1>5 DEF Crash, CrashImages

LEMMA SyncedNeverLost == Structure /\ [Next]_vars => SyncedKept
<1> SUFFICES ASSUME Structure, [Next]_vars PROVE SyncedKept
  OBVIOUS
<1>1. synced \in 0 .. Len(file) /\ Len(file) \in Nat
  BY LenProperties DEF Structure, TypeOK
<1>2. ASSUME NEW t \in Threads, WriteBatch(t) PROVE SyncedKept
  BY <1>1, <1>2, BatchGrows DEF SyncedKept, Grown, WriteBatch
<1>3. ASSUME NEW t \in Threads, WriteFails(t) PROVE SyncedKept
  BY <1>1, <1>3, FailedWriteGrows DEF SyncedKept, Grown, WriteFails
<1>4. ASSUME NEW t \in Threads, Sync(t) PROVE SyncedKept
  BY <1>1, <1>4 DEF SyncedKept, Sync
<1>5. CASE Crash
  BY <1>1, <1>5, CrashKeepsSynced DEF SyncedKept, Crash
<1>6. CASE CloseSync
  BY <1>1, <1>6 DEF SyncedKept, CloseSync
<1>7. CASE UNCHANGED <<file, synced>>
  BY <1>1, <1>7 DEF SyncedKept
<1> QED
  BY <1>2, <1>3, <1>4, <1>5, <1>6, <1>7
     DEF Next, Append_, Lead, Enqueue, Poll, TryLead, Recheck, Drain, Notify,
         CloseFd, Recover, vars, fileVars

LEMMA DurableStays ==
    ASSUME Structure, [Next]_vars, NEW r, Durable(r)
    PROVE  Durable(r)'
<1>1. synced \in Nat /\ SyncedKept
  BY SyncedNeverLost DEF Structure, TypeOK
<1>2. PICK i \in 1 .. synced : file[i] = Whole(r)
  BY DEF Durable
<1>3. synced' \in Nat
  BY StructureStep DEF Structure, TypeOK
<1> QED  BY <1>1, <1>2, <1>3 DEF Durable, SyncedKept, Whole

LEMMA DurabilityStep ==
    ASSUME Faults \cap {"fsync", "close"} = {}
    PROVE  Structure /\ Durability /\ [Next]_vars => Durability'
<1> SUFFICES ASSUME Structure, Durability, [Next]_vars PROVE Durability'
  OBVIOUS
<1> USE DEF Durability
<1>1. \A r : Durable(r) => Durable(r)'
  BY DurableStays
<1>2. ASSUME NEW t \in Threads, Notify(t) PROVE Durability'
  <2>1. /\ batch[t] \in Seq(Requests)
        /\ batch[t] # <<>>
        /\ pc[t] = "notify"
        /\ flushed \in [Threads -> BOOLEAN]
        /\ pc \in [Threads -> Locations]
        /\ batch \in [Threads -> Seq(Requests)]
    BY <1>2 DEF Notify, Structure, TypeOK, BatchInHand, At, BatchLocations
  <2>2. /\ Len(batch[t]) \in Nat /\ Len(batch[t]) > 0
        /\ Len(Tail(batch[t])) = Len(batch[t]) - 1
        /\ \A i \in 1 .. Len(Tail(batch[t])) : Tail(batch[t])[i] = batch[t][i + 1]
        /\ Head(batch[t]) = batch[t][1]
    BY <2>1, EmptyIffLen, HeadTailProperties
  <2>3. NeverClosed'
    BY <1>2 DEF Notify, NeverClosed, fileVars
  <2>4. AckedIsDurable'
    <3>1. CASE flushed[t]
      <4>1. Durable(batch[t][1])
        BY <2>1, <2>2, <3>1 DEF NotifiedIsDurable
      <4> QED  BY <1>1, <1>2, <2>2, <3>1, <4>1 DEF Notify, AckedIsDurable
    <3>2. CASE ~ flushed[t]
      BY <1>1, <1>2, <3>2 DEF Notify, AckedIsDurable
    <3> QED  BY <3>1, <3>2
  <2>5. \A u \in Threads : u # t => UNCHANGED <<pc[u], batch[u], flushed[u]>>
    BY <1>2, <2>1 DEF Notify, Goto
  <2>6. flushed'[t] = flushed[t] /\ batch'[t] = Tail(batch[t]) /\ pc'[t] \in {"drain", "notify"}
    BY <1>2, <2>1 DEF Notify, Goto
  <2>7. UNCHANGED fd
    BY <1>2 DEF Notify, fileVars
  <2>8. NotifiedIsDurable'
    <3> SUFFICES ASSUME NEW u \in Threads, pc'[u] = "notify", flushed'[u],
                        NEW i \in 1 .. Len(batch'[u]), NEW r, r = batch'[u][i]
                 PROVE  Durable(r)'
      BY DEF NotifiedIsDurable
    <3>1. CASE u = t
      <4>1. i \in 1 .. Len(Tail(batch[t])) /\ r = Tail(batch[t])[i]
        BY <2>6, <3>1
      <4>2. i + 1 \in 1 .. Len(batch[t]) /\ r = batch[t][i + 1]
        BY <2>2, <4>1
      <4>3. Durable(r)
        BY <2>1, <2>6, <3>1, <4>2 DEF NotifiedIsDurable
      <4> QED  BY <1>1, <4>3
    <3>2. CASE u # t
      <4>1. pc[u] = "notify" /\ flushed[u] /\ i \in 1 .. Len(batch[u]) /\ r = batch[u][i]
        BY <2>5, <3>2
      <4> QED  BY <1>1, <4>1 DEF NotifiedIsDurable
    <3> QED  BY <3>1, <3>2
  <2>9. SyncingIsWritten'
    BY <1>2, <2>5, <2>6, <2>7 DEF SyncingIsWritten, Written, Notify, Up, fileVars
  <2> QED  BY <2>3, <2>4, <2>8, <2>9
<1>3. ASSUME NEW t \in Threads, WriteBatch(t) PROVE Durability'
  <2>1. /\ pc \in [Threads -> Locations]
        /\ flushed \in [Threads -> BOOLEAN]
        /\ Len(file) \in Nat
        /\ Len(batch[t]) \in Nat
    BY LenProperties DEF Structure, TypeOK
  <2>2. \A u \in Threads : u # t => UNCHANGED <<pc[u], flushed[u]>>
    BY <1>3, <2>1 DEF WriteBatch, Goto
  <2>3. pc'[t] = "sync" /\ UNCHANGED <<batch, acked, fd>>
    BY <1>3, <2>1 DEF WriteBatch, Goto, promises
  <2>4. NeverClosed' /\ AckedIsDurable'
    BY <1>1, <2>3 DEF NeverClosed, AckedIsDurable
  <2>5. NotifiedIsDurable'
    BY <1>1, <2>2, <2>3 DEF NotifiedIsDurable
  <2>6. SyncingIsWritten'
    <3>1. \A r : Written(r) => Written(r)'
      BY <1>3, <2>1, BatchGrows DEF Written, Grown, Whole
    <3>2. \A i \in 1 .. Len(batch[t]) : Written(batch[t][i])'
      BY <1>3, <2>1, <2>3, BatchGrows DEF Written, Whole
    <3> QED  BY <2>2, <2>3, <3>1, <3>2 DEF SyncingIsWritten, Up
  <2> QED  BY <2>4, <2>5, <2>6
<1>4. ASSUME NEW t \in Threads, WriteFails(t) PROVE Durability'
  <2>1. /\ pc \in [Threads -> Locations]
        /\ flushed \in [Threads -> BOOLEAN]
        /\ Len(file) \in Nat
    BY LenProperties DEF Structure, TypeOK
  <2>2. \A u \in Threads : u # t => UNCHANGED <<pc[u], flushed[u]>>
    BY <1>4, <2>1 DEF WriteFails, Goto
  <2>3. pc'[t] = "notify" /\ ~ flushed'[t] /\ UNCHANGED <<batch, acked, fd>>
    BY <1>4, <2>1 DEF WriteFails, Goto, promises
  <2>4. NeverClosed' /\ AckedIsDurable'
    BY <1>1, <2>3 DEF NeverClosed, AckedIsDurable
  <2>5. NotifiedIsDurable'
    BY <1>1, <2>2, <2>3 DEF NotifiedIsDurable
  <2>6. SyncingIsWritten'
    <3>1. \A r : Written(r) => Written(r)'
      BY <1>4, <2>1, FailedWriteGrows DEF Written, Grown, Whole
    <3> QED  BY <2>2, <2>3, <3>1 DEF SyncingIsWritten, Up
  <2> QED  BY <2>4, <2>5, <2>6
<1>5. ASSUME NEW t \in Threads, Sync(t) PROVE Durability'
  <2>1. /\ pc \in [Threads -> Locations]
        /\ Len(file) \in Nat
    BY LenProperties DEF Structure, TypeOK
  <2>2. \A u \in Threads : u # t => UNCHANGED pc[u]
    BY <1>5, <2>1 DEF Sync, Goto
  <2>3. /\ pc[t] = "sync" /\ pc'[t] = "notify" /\ Up
        /\ UNCHANGED <<batch, acked, fd, flushed, file>>
    BY <1>5, <2>1 DEF Sync, Goto, At, promises
  <2>4. synced' = Len(file)
    BY <1>5 DEF Sync, NeverClosed
  <2>5. NeverClosed' /\ AckedIsDurable'
    BY <1>1, <2>3 DEF NeverClosed, AckedIsDurable
  <2>6. NotifiedIsDurable'
    <3>1. \A i \in 1 .. Len(batch[t]) : Durable(batch[t][i])'
      BY <2>3, <2>4 DEF SyncingIsWritten, Written, Durable, Whole
    <3> QED  BY <1>1, <2>2, <2>3, <3>1 DEF NotifiedIsDurable
  <2>7. SyncingIsWritten'
    BY <2>2, <2>3 DEF SyncingIsWritten, Written, Whole, Up
  <2> QED  BY <2>5, <2>6, <2>7
<1>6. ASSUME NEW t \in Threads, Drain(t) PROVE Durability'
  <2>1. /\ pc \in [Threads -> Locations]
        /\ batch \in [Threads -> Seq(Requests)]
    BY DEF Structure, TypeOK
  <2>2. \A u \in Threads : u # t => UNCHANGED <<pc[u], batch[u]>>
    BY <1>6, <2>1 DEF Drain, Pop, Goto
  <2>3. pc'[t] \in {"poll", "write"} /\ UNCHANGED <<acked, fd, flushed, file>>
    BY <1>6, <2>1 DEF Drain, Goto, promises, fileVars
  <2> QED
    BY <1>1, <2>2, <2>3
       DEF NeverClosed, AckedIsDurable, NotifiedIsDurable, SyncingIsWritten, Written, Up
<1>7. ASSUME NEW t \in Threads, Append_(t) PROVE Durability'
  <2>1. pc \in [Threads -> Locations]
    BY DEF Structure, TypeOK
  <2>2. \A u \in Threads : u # t => UNCHANGED pc[u]
    BY <1>7, <2>1 DEF Append_, Enqueue, Poll, TryLead, Recheck, Goto
  <2>3. /\ pc'[t] \in {"idle", "poll", "try", "recheck", "drain"}
        /\ UNCHANGED <<acked, fd, flushed, file, batch>>
    BY <1>7, <2>1 DEF Append_, Enqueue, Poll, TryLead, Recheck, Goto, promises, fileVars
  <2> QED
    BY <1>1, <2>2, <2>3
       DEF NeverClosed, AckedIsDurable, NotifiedIsDurable, SyncingIsWritten, Written, Up
<1>8. CASE Crash \/ Recover
  <2>1. UNCHANGED <<acked, flushed, batch, pc>> /\ fd' \in {"crashed", "recovered"}
    BY <1>8 DEF Crash, Recover, runtime, promises
  <2> QED
    BY <1>1, <2>1 DEF NeverClosed, AckedIsDurable, NotifiedIsDurable, SyncingIsWritten, Up
<1>9. ~ CloseSync /\ ~ CloseFd
  BY DEF CloseSync, CloseFd, NeverClosed
<1>10. CASE UNCHANGED vars
  BY <1>1, <1>10
     DEF vars, NeverClosed, AckedIsDurable, NotifiedIsDurable, SyncingIsWritten, Written, Up
<1> QED
  BY <1>2, <1>3, <1>4, <1>5, <1>6, <1>7, <1>8, <1>9, <1>10 DEF Next, Lead

\* As long as fsync does not fail and nobody closes the log under its writers,
\* a request whose append returned is durable (wal.hpp:134-170).
THEOREM AppendIsDurable ==
    ASSUME Faults \cap {"fsync", "close"} = {}
    PROVE  Spec => []AckedDurable
<1>1. Init => Durability
  BY EmptySeq
     DEF Init, Durability, NeverClosed, AckedIsDurable, NotifiedIsDurable, SyncingIsWritten
<1>2. Durability => AckedDurable
  BY DEF Durability, AckedIsDurable, Durable, AckedDurable
<1> QED
  BY <1>1, <1>2, InitStructure, StructureStep, DurabilityStep, PTL DEF Spec

-----------------------------------------------------------------------------
(* Nothing is lost.                                                        *)

LEMMA NoRequestLostStep == Structure /\ NoRequestLost /\ [Next]_vars => NoRequestLost'
<1> SUFFICES ASSUME Structure, NoRequestLost, [Next]_vars,
                    NEW r \in 1 .. issued'
             PROVE  \/ r \in acked' \cup rejected'
                    \/ InSeq(r, queue')
                    \/ \E t \in Threads : leader' = t /\ InSeq(r, batch'[t])
  BY DEF NoRequestLost
<1> DEFINE Owned == \/ r \in acked' \cup rejected'
                    \/ InSeq(r, queue')
                    \/ \E t \in Threads : leader' = t /\ InSeq(r, batch'[t])
<1>t. /\ issued \in Nat /\ Len(queue) \in Nat
      /\ queue \in Seq(Requests)
      /\ batch \in [Threads -> Seq(Requests)]
      /\ pc \in [Threads -> Locations]
      /\ leader \in Threads \cup {Nobody}
      /\ Nobody \notin Threads
  BY WalAssumption, LenProperties DEF Structure, TypeOK
<1>e. \A t \in Threads : pc[t] \notin BatchLocations => ~ InSeq(r, batch[t])
  BY EmptySeq DEF Structure, BatchInHand, InSeq
<1>1. ASSUME NEW t \in Threads, Enqueue(t) PROVE Owned
  <2>1. /\ issued' = issued + 1
        /\ queue' = Append(queue, issued + 1)
        /\ UNCHANGED <<leader, batch, acked, rejected>>
    BY <1>1 DEF Enqueue, promises
  <2>2. issued + 1 \in Requests
    BY <1>1, <1>t, WalAssumption DEF Enqueue, Requests
  <2>3. /\ Len(queue') = Len(queue) + 1
        /\ queue'[Len(queue) + 1] = issued + 1
        /\ \A i \in 1 .. Len(queue) : queue'[i] = queue[i]
    BY <1>t, <2>1, <2>2, AppendProperties
  <2>4. CASE r = issued + 1
    BY <1>t, <2>3, <2>4 DEF InSeq
  <2>5. CASE r \in 1 .. issued
    <3>1. InSeq(r, queue) => InSeq(r, queue')
      BY <1>t, <2>3 DEF InSeq
    <3> QED  BY <2>1, <2>5, <3>1 DEF NoRequestLost
  <2> QED  BY <1>t, <2>1, <2>4, <2>5
<1> USE DEF NoRequestLost
<1>2. ASSUME NEW t \in Threads, TryLead(t) PROVE Owned
  <2>1. UNCHANGED <<issued, queue, batch, acked, rejected>>
    BY <1>2 DEF TryLead, promises
  <2>2. leader' = leader \/ leader = Nobody
    BY <1>2 DEF TryLead
  <2> QED  BY <1>t, <2>1, <2>2
<1>3. ASSUME NEW t \in Threads, Recheck(t) PROVE Owned
  <2>1. UNCHANGED <<issued, queue, batch, acked, rejected>> /\ pc[t] = "recheck"
    BY <1>3 DEF Recheck, At, promises
  <2>2. leader = t /\ ~ InSeq(r, batch[t])
    BY <1>e, <2>1 DEF Structure, LeaderHoldsLock, LeaderLocations, BatchLocations
  <2> QED  BY <1>t, <2>1, <2>2
<1>4. ASSUME NEW t \in Threads, Drain(t) PROVE Owned
  <2>1. UNCHANGED <<issued, acked, rejected>> /\ pc[t] = "drain"
    BY <1>4 DEF Drain, At, promises
  <2>2. leader = t /\ ~ InSeq(r, batch[t])
    BY <1>e, <2>1 DEF Structure, LeaderHoldsLock, LeaderLocations, BatchLocations
  <2>3. CASE queue = <<>>
    BY <1>4, <1>t, <2>1, <2>2, <2>3, EmptySeq DEF Drain, InSeq
  <2>4. CASE queue # <<>>
    <3> DEFINE n == Smaller(MaxBatch, Len(queue))
    <3>1. n \in 0 .. Len(queue) /\ n \in Nat
      BY <1>t, WalAssumption DEF Smaller
    <3> HIDE DEF n
    <3>2. Pop(t, n, n) /\ UNCHANGED leader
      BY <1>4, <2>4 DEF Drain, n
    <3>3. /\ Len(batch'[t]) = n /\ \A i \in 1 .. n : batch'[t][i] = queue[i]
          /\ Len(queue') = Len(queue) - n
          /\ \A i \in 1 .. Len(queue) - n : queue'[i] = queue[n + i]
      BY <1>t, <3>1, <3>2, PopProperties DEF Pop
    <3>4. CASE InSeq(r, queue)
      <4>1. PICK i \in 1 .. Len(queue) : queue[i] = r
        BY <3>4 DEF InSeq
      <4>2. CASE i <= n
        BY <1>t, <2>2, <3>1, <3>2, <3>3, <4>1, <4>2 DEF InSeq
      <4>3. CASE i > n
        <5>1. i - n \in 1 .. Len(queue) - n /\ queue'[i - n] = r
          <6>1. i - n \in 1 .. Len(queue) - n /\ n + (i - n) = i
            BY <1>t, <3>1, <4>1, <4>3
          <6> QED  BY <3>3, <4>1, <6>1
        <5> QED  BY <3>3, <5>1 DEF InSeq
      <4> QED  BY <1>t, <3>1, <4>1, <4>2, <4>3
    <3> QED  BY <2>1, <2>2, <3>4
  <2> QED  BY <2>3, <2>4
<1>5. ASSUME NEW t \in Threads, Notify(t) PROVE Owned
  <2>1. UNCHANGED <<issued, queue, leader>> /\ pc[t] = "notify"
    BY <1>5 DEF Notify, At
  <2>2. batch[t] # <<>> /\ batch[t] \in Seq(Requests)
    BY <1>t, <2>1 DEF Structure, BatchInHand, BatchLocations
  <2>3. /\ Len(batch[t]) \in Nat
        /\ Len(Tail(batch[t])) = Len(batch[t]) - 1
        /\ \A i \in 1 .. Len(Tail(batch[t])) : Tail(batch[t])[i] = batch[t][i + 1]
        /\ Head(batch[t]) = batch[t][1]
    BY <2>2, HeadTailProperties, EmptyIffLen
  <2>4. /\ acked \subseteq acked' /\ rejected \subseteq rejected'
        /\ batch[t][1] \in acked' \cup rejected'
        /\ batch' = [batch EXCEPT ![t] = Tail(batch[t])]
    BY <1>5, <2>3 DEF Notify
  <2>5. InSeq(r, batch[t]) => r = batch[t][1] \/ InSeq(r, batch'[t])
    <3> SUFFICES ASSUME NEW i \in 1 .. Len(batch[t]), r = batch[t][i], i # 1
                 PROVE  InSeq(r, batch'[t])
      BY DEF InSeq
    <3>1. i - 1 \in 1 .. Len(Tail(batch[t])) /\ (i - 1) + 1 = i
      BY <2>3
    <3>2. Tail(batch[t])[i - 1] = r
      BY <2>3, <3>1
    <3> QED  BY <1>t, <2>4, <3>1, <3>2 DEF InSeq
  <2> QED  BY <1>t, <2>1, <2>4, <2>5
<1>6. CASE UNCHANGED <<issued, queue, leader, batch, acked, rejected>>
  BY <1>6
<1> QED
  BY <1>1, <1>2, <1>3, <1>4, <1>5, <1>6
     DEF Next, Append_, Lead, Poll, WriteBatch, WriteFails, Sync, CloseSync, CloseFd,
         Crash, Recover, runtime, promises, vars

\* Every request that was pushed is settled, queued or in the leader's hands:
\* no promise is left that nobody will settle (wal.hpp:134-170).
THEOREM NoneLost == Spec => []NoRequestLost
<1>1. Init => NoRequestLost
  BY DEF Init, NoRequestLost
<1> QED  BY <1>1, InitStructure, StructureStep, NoRequestLostStep, PTL DEF Spec

-----------------------------------------------------------------------------
(* Order.  The queue always holds the last requests pushed, so what was    *)
(* popped is a prefix of all requests; the file holds popped requests, and *)
(* while a batch waits for its write it is the end of that prefix.         *)

Popped == issued - Len(queue)

QueueIsTail == \A i \in 1 .. Len(queue) : queue[i] = Popped + i
FileWasPopped == \A i \in 1 .. Len(file) : file[i].req <= Popped
BatchIsNext ==
    \A t \in Threads : pc[t] = "write" =>
        /\ \A i \in 1 .. Len(batch[t]) : batch[t][i] = Popped - Len(batch[t]) + i
        /\ \A i \in 1 .. Len(file) : file[i].req <= Popped - Len(batch[t])
FileInOrder ==
    \A i, j \in 1 .. Len(file) : i < j => file[i].req < file[j].req

Order == QueueIsTail /\ FileWasPopped /\ BatchIsNext /\ FileInOrder

\* What any write leaves: the old file and the head of the batch.
LEMMA WriteExtends ==
    ASSUME Structure, NEW t \in Threads, WriteBatch(t) \/ WriteFails(t)
    PROVE  /\ Grown
           /\ Len(file') \in Nat
           /\ Len(file') <= Len(file) + Len(batch[t])
           /\ \A i \in Len(file) + 1 .. Len(file') : file'[i].req = batch[t][i - Len(file)]
<1>1. file \in Seq(Entries) /\ batch[t] \in Seq(Requests)
  BY DEF Structure, TypeOK
<1>2. Len(file) \in Nat /\ Len(batch[t]) \in Nat
  BY <1>1, LenProperties
<1>3. CASE WriteBatch(t)
  <2>1. /\ Grown
        /\ Len(file') = Len(file) + Len(batch[t])
        /\ \A i \in 1 .. Len(batch[t]) : file'[Len(file) + i] = Whole(batch[t][i])
    BY <1>3, BatchGrows
  <2>2. ASSUME NEW i \in Len(file) + 1 .. Len(file')
        PROVE  file'[i].req = batch[t][i - Len(file)]
    <3>1. i - Len(file) \in 1 .. Len(batch[t]) /\ Len(file) + (i - Len(file)) = i
      BY <1>2, <2>1
    <3>2. file'[i] = Whole(batch[t][i - Len(file)])
      BY <2>1, <3>1
    <3> QED  BY <3>2 DEF Whole
  <2> QED  BY <1>2, <2>1, <2>2
<1>4. CASE WriteFails(t)
  <2>2. ASSUME NEW n \in 0 .. Len(batch[t]) - 1,
               \/ file' = file \o Wholes(SubSeq(batch[t], 1, n))
               \/ file' = Append(file \o Wholes(SubSeq(batch[t], 1, n)),
                                 Torn(batch[t][n + 1]))
        PROVE  /\ Len(file') \in Nat
               /\ Len(file') <= Len(file) + Len(batch[t])
               /\ \A i \in Len(file) + 1 .. Len(file') :
                     file'[i].req = batch[t][i - Len(file)]
    <3> DEFINE g == file \o Wholes(SubSeq(batch[t], 1, n))
    <3>1. n \in 0 .. Len(batch[t]) /\ n + 1 \in 1 .. Len(batch[t])
      BY <1>2
    <3>2. /\ g \in Seq(Entries)
          /\ Len(g) = Len(file) + n
          /\ \A i \in 1 .. n : g[Len(file) + i] = Whole(batch[t][i])
      BY <1>1, <3>1, WritesAreEntries
    <3>3. Torn(batch[t][n + 1]) \in Entries
      BY <1>1, <3>1, ElementOfSeq DEF Torn, Entries
    <3>4. file' = g \/ file' = Append(g, Torn(batch[t][n + 1]))
      BY <2>2
    <3> HIDE DEF g
    <3>5. ASSUME NEW i \in Len(file) + 1 .. Len(file) + n
          PROVE  g[i].req = batch[t][i - Len(file)]
      <4>1. i - Len(file) \in 1 .. n /\ Len(file) + (i - Len(file)) = i
        BY <1>2, <3>1
      <4>2. g[i] = Whole(batch[t][i - Len(file)])
        BY <3>2, <4>1
      <4> QED  BY <4>2 DEF Whole
    <3>6. CASE file' = g
      BY <1>2, <3>1, <3>2, <3>5, <3>6
    <3>7. CASE file' = Append(g, Torn(batch[t][n + 1]))
      <4>1. /\ Len(file') = Len(file) + n + 1
            /\ \A i \in 1 .. Len(file) + n : file'[i] = g[i]
            /\ file'[Len(file) + n + 1] = Torn(batch[t][n + 1])
        BY <3>2, <3>3, <3>7, AppendProperties
      <4>2. file'[Len(file) + n + 1].req = batch[t][n + 1]
        BY <4>1 DEF Torn
      <4>3. ASSUME NEW i \in Len(file) + 1 .. Len(file')
            PROVE  file'[i].req = batch[t][i - Len(file)]
        <5>1. CASE i = Len(file) + n + 1
          <6>1. i - Len(file) = n + 1
            BY <1>2, <3>1, <5>1
          <6> QED  BY <4>2, <5>1, <6>1
        <5>2. CASE i \in Len(file) + 1 .. Len(file) + n
          <6>1. i \in 1 .. Len(file) + n
            BY <1>2, <3>1, <5>2
          <6> QED  BY <3>5, <4>1, <5>2, <6>1
        <5> QED  BY <1>2, <3>1, <4>1, <5>1, <5>2
      <4> QED  BY <1>2, <3>1, <4>1, <4>3
    <3> QED  BY <3>4, <3>6, <3>7
  <2>3. Grown
    BY <1>4, FailedWriteGrows
  <2>4. \/ UNCHANGED file
        \/ \E n \in 0 .. Len(batch[t]) - 1 :
              \/ file' = file \o Wholes(SubSeq(batch[t], 1, n))
              \/ file' = Append(file \o Wholes(SubSeq(batch[t], 1, n)),
                                Torn(batch[t][n + 1]))
    BY <1>4 DEF WriteFails
  <2>5. /\ Len(file') \in Nat
        /\ Len(file') <= Len(file) + Len(batch[t])
        /\ \A i \in Len(file) + 1 .. Len(file') : file'[i].req = batch[t][i - Len(file)]
    <3>1. CASE UNCHANGED file
      BY <1>2, <3>1
    <3> QED  BY <2>2, <2>4, <3>1
  <2> QED  BY <2>3, <2>5
<1> QED  BY <1>3, <1>4

\* What a crash leaves is a prefix, up to the wholeness of its last entry.
LEMMA CrashIsPrefix ==
    ASSUME Structure, Crash
    PROVE  /\ Len(file') <= Len(file)
           /\ \A i \in 1 .. Len(file') : file'[i].req = file[i].req
<1>1. file \in Seq(Entries) /\ synced \in 0 .. Len(file) /\ Len(file) \in Nat
  BY LenProperties DEF Structure, TypeOK
<1>2. \A i \in 1 .. Len(file) : file[i] \in Entries
  BY <1>1, ElementOfSeq
<1>3. ASSUME NEW n \in synced .. Len(file)
      PROVE  /\ SubSeq(file, 1, n) \in Seq(Entries)
             /\ Len(SubSeq(file, 1, n)) = n
             /\ \A i \in 1 .. n : SubSeq(file, 1, n)[i] = file[i]
  <2>1. n \in Nat /\ \A i \in 1 .. n : file[i] \in Entries
    BY <1>1, <1>2
  <2> QED  BY <2>1, SubSeqProperties
<1>4. CASE \E n \in synced .. Len(file) : file' = SubSeq(file, 1, n)
  BY <1>1, <1>3, <1>4
<1>5. ASSUME NEW n \in synced .. Len(file) - 1,
             file' = Append(SubSeq(file, 1, n), Torn(file[n + 1].req))
      PROVE  /\ Len(file') <= Len(file)
             /\ \A i \in 1 .. Len(file') : file'[i].req = file[i].req
  <2>1. n \in synced .. Len(file) /\ n + 1 \in 1 .. Len(file) /\ n \in Nat
    BY <1>1
  <2>2. Torn(file[n + 1].req) \in Entries
    BY <1>2, <2>1 DEF Torn, Entries
  <2>3. /\ Len(file') = n + 1
        /\ \A i \in 1 .. n : file'[i] = file[i]
        /\ file'[n + 1] = Torn(file[n + 1].req)
    BY <1>3, <1>5, <2>1, <2>2, AppendProperties
  <2>4. file'[n + 1].req = file[n + 1].req
    BY <2>3 DEF Torn
  <2> QED  BY <1>1, <2>1, <2>3, <2>4
<1> QED  BY <1>4, <1>5 DEF Crash, CrashImages

LEMMA OrderStep == Structure /\ Order /\ [Next]_vars => Order'
<1> SUFFICES ASSUME Structure, Order, [Next]_vars PROVE Order'
  OBVIOUS
<1> USE DEF Order
<1>t. /\ issued \in Nat /\ Len(queue) \in Nat /\ Len(file) \in Nat
      /\ queue \in Seq(Requests)
      /\ pc \in [Threads -> Locations]
      /\ batch \in [Threads -> Seq(Requests)]
      /\ \A i \in 1 .. Len(file) : file[i].req \in Nat
  <2>1. \A i \in 1 .. Len(file) : file[i] \in Entries
    BY ElementOfSeq DEF Structure, TypeOK
  <2> QED
    BY <2>1, WalAssumption, LenProperties DEF Structure, TypeOK, Entries, Requests
<1>u. \A t \in Threads : Len(batch[t]) \in Nat
  BY <1>t, LenProperties
<1>p. Popped \in Int
  BY <1>t DEF Popped
<1>1. ASSUME NEW t \in Threads, Enqueue(t) PROVE Order'
  <2>1. /\ issued' = issued + 1
        /\ queue' = Append(queue, issued + 1)
        /\ UNCHANGED <<batch, file>>
        /\ pc' = [pc EXCEPT ![t] = "poll"]
    BY <1>1 DEF Enqueue, Goto, fileVars
  <2>2. issued + 1 \in Requests
    BY <1>1, <1>t, WalAssumption DEF Enqueue, Requests
  <2>3. /\ Len(queue') = Len(queue) + 1
        /\ queue'[Len(queue) + 1] = issued + 1
        /\ \A i \in 1 .. Len(queue) : queue'[i] = queue[i]
    BY <1>t, <2>1, <2>2, AppendProperties
  <2>4. Popped' = Popped
    BY <1>t, <2>1, <2>3 DEF Popped
  <2>5. QueueIsTail'
    <3> SUFFICES ASSUME NEW i \in 1 .. Len(queue) + 1 PROVE queue'[i] = Popped + i
      BY <2>3, <2>4 DEF QueueIsTail
    <3>1. CASE i = Len(queue) + 1
      <4>1. Popped + i = issued + 1
        BY <1>t, <3>1 DEF Popped
      <4> QED  BY <2>3, <3>1, <4>1
    <3>2. CASE i \in 1 .. Len(queue)
      BY <2>3, <3>2 DEF QueueIsTail
    <3> QED  BY <1>t, <3>1, <3>2
  <2>6. BatchIsNext'
    BY <1>t, <2>1, <2>4 DEF BatchIsNext
  <2> QED  BY <2>1, <2>4, <2>5, <2>6 DEF FileWasPopped, FileInOrder
<1>2. ASSUME NEW t \in Threads, Drain(t), queue # <<>> PROVE Order'
  <2> DEFINE n == Smaller(MaxBatch, Len(queue))
  <2>1. n \in 0 .. Len(queue) /\ n \in Nat
    BY <1>t, WalAssumption DEF Smaller
  <2> HIDE DEF n
  <2>2. Pop(t, n, n) /\ Goto(t, "write") /\ UNCHANGED <<issued, file, leader>>
    BY <1>2 DEF Drain, n, fileVars
  <2>3. /\ Len(batch'[t]) = n /\ \A i \in 1 .. n : batch'[t][i] = queue[i]
        /\ Len(queue') = Len(queue) - n
        /\ \A i \in 1 .. Len(queue) - n : queue'[i] = queue[n + i]
    BY <1>t, <2>1, <2>2, PopProperties DEF Pop
  <2>4. Popped' = Popped + n
    BY <1>t, <2>1, <2>2, <2>3 DEF Popped
  <2>5. QueueIsTail'
    BY <1>t, <1>p, <2>1, <2>3, <2>4 DEF QueueIsTail
  <2>6. FileWasPopped'
    BY <1>t, <1>p, <2>1, <2>2, <2>4 DEF FileWasPopped
  <2>7. BatchIsNext'
    <3> SUFFICES ASSUME NEW u \in Threads, pc'[u] = "write"
                 PROVE  /\ \A i \in 1 .. Len(batch'[u]) :
                              batch'[u][i] = Popped' - Len(batch'[u]) + i
                        /\ \A i \in 1 .. Len(file') :
                              file'[i].req <= Popped' - Len(batch'[u])
      BY DEF BatchIsNext
    <3>1. u = t
      <4>1. leader = t
        BY <1>2 DEF Drain, At, Structure, LeaderHoldsLock, LeaderLocations
      <4>2. u # t => pc[u] = "write"
        BY <1>t, <2>2 DEF Goto
      <4> QED  BY <4>1, <4>2 DEF Structure, LeaderHoldsLock, LeaderLocations
    <3>2. Popped' - Len(batch'[t]) = Popped
      BY <1>p, <2>1, <2>3, <2>4
    <3>3. \A i \in 1 .. n : batch'[t][i] = Popped + i
      BY <2>1, <2>3 DEF QueueIsTail
    <3> QED  BY <2>2, <2>3, <3>1, <3>2, <3>3 DEF FileWasPopped
  <2> QED  BY <2>2, <2>5, <2>6, <2>7 DEF FileInOrder
<1>3. ASSUME NEW t \in Threads, WriteBatch(t) \/ WriteFails(t) PROVE Order'
  <2>1. /\ pc[t] = "write" /\ pc'[t] # "write"
        /\ \A u \in Threads : u # t => pc'[u] = pc[u]
        /\ UNCHANGED <<issued, queue, batch>>
    BY <1>3, <1>t DEF WriteBatch, WriteFails, At, Goto
  <2>2. Popped' = Popped
    BY <2>1 DEF Popped
  <2>3. /\ Grown
        /\ Len(file') \in Nat
        /\ Len(file') <= Len(file) + Len(batch[t])
        /\ \A i \in Len(file) + 1 .. Len(file') : file'[i].req = batch[t][i - Len(file)]
    BY <1>3, WriteExtends
  <2>4. ASSUME NEW i \in Len(file) + 1 .. Len(file')
        PROVE  file'[i].req = Popped - Len(batch[t]) + (i - Len(file)) /\ file'[i].req <= Popped
    <3>1. i - Len(file) \in 1 .. Len(batch[t])
      BY <1>t, <1>u, <2>3
    <3>2. batch[t][i - Len(file)] = Popped - Len(batch[t]) + (i - Len(file))
      BY <2>1, <3>1 DEF BatchIsNext
    <3>3. Popped - Len(batch[t]) + (i - Len(file)) <= Popped
      BY <1>t, <1>u, <1>p, <3>1
    <3> QED  BY <2>3, <3>2, <3>3
  <2>5. \A i \in 1 .. Len(file) :
            file'[i].req = file[i].req /\ file'[i].req <= Popped - Len(batch[t])
    BY <2>1, <2>3 DEF Grown, BatchIsNext
  <2>6. FileWasPopped'
    BY <1>t, <1>u, <1>p, <2>2, <2>3, <2>4, <2>5 DEF FileWasPopped
  <2>7. FileInOrder'
    <3> SUFFICES ASSUME NEW i \in 1 .. Len(file'), NEW j \in 1 .. Len(file'), i < j
                 PROVE  file'[i].req < file'[j].req
      BY DEF FileInOrder
    <3>1. CASE j <= Len(file)
      <4>1. i \in 1 .. Len(file) /\ j \in 1 .. Len(file)
        BY <1>t, <2>3, <3>1
      <4> QED  BY <2>5, <4>1 DEF FileInOrder
    <3>2. CASE i <= Len(file) /\ j > Len(file)
      <4>1. /\ file'[j].req = Popped - Len(batch[t]) + (j - Len(file))
            /\ file'[i].req <= Popped - Len(batch[t])
            /\ file'[i].req \in Nat
        BY <1>t, <2>3, <2>4, <2>5, <3>2
      <4>2. j - Len(file) \in Nat /\ j - Len(file) >= 1
        BY <1>t, <2>3, <3>2
      <4> DEFINE before == Popped - Len(batch[t])
      <4> DEFINE k == j - Len(file)
      <4>3. before \in Int
        BY <1>p, <1>u
      <4>4. file'[j].req = before + k /\ file'[i].req <= before /\ k \in Nat /\ k >= 1
        BY <4>1, <4>2
      <4> HIDE DEF before, k
      <4> QED  BY <4>1, <4>3, <4>4
    <3>3. CASE i > Len(file)
      <4>1. /\ file'[i].req = Popped - Len(batch[t]) + (i - Len(file))
            /\ file'[j].req = Popped - Len(batch[t]) + (j - Len(file))
        BY <1>t, <2>3, <2>4, <3>3
      <4> QED  BY <1>t, <1>p, <1>u, <2>3, <4>1
    <3> QED  BY <1>t, <2>3, <3>1, <3>2, <3>3
  <2>8. BatchIsNext'
    <3> SUFFICES ASSUME NEW u \in Threads, pc'[u] = "write" PROVE FALSE
      BY DEF BatchIsNext
    <3> QED  BY <2>1 DEF Structure, LeaderHoldsLock, LeaderLocations
  <2> QED  BY <2>1, <2>2, <2>6, <2>7, <2>8 DEF QueueIsTail
<1>4. CASE Crash
  <2>1. UNCHANGED <<issued, queue, batch, pc>>
    BY <1>4 DEF Crash, runtime
  <2>2. /\ Len(file') <= Len(file) /\ Len(file') \in Nat
        /\ \A i \in 1 .. Len(file') : file'[i].req = file[i].req
    BY <1>4, CrashIsPrefix, StructureStep, LenProperties DEF Structure, TypeOK
  <2> QED
    BY <1>t, <2>1, <2>2 DEF Popped, QueueIsTail, FileWasPopped, BatchIsNext, FileInOrder
<1>5. ASSUME UNCHANGED <<issued, queue, file>>,
             \A t \in Threads : pc'[t] = "write" => pc[t] = "write" /\ batch'[t] = batch[t]
      PROVE  Order'
  BY <1>5 DEF Popped, QueueIsTail, FileWasPopped, BatchIsNext, FileInOrder
<1>6. ASSUME NEW t \in Threads,
             \/ Poll(t) \/ TryLead(t) \/ Recheck(t) \/ Sync(t)
             \/ Drain(t) /\ queue = <<>>
      PROVE  Order'
  <2>1. UNCHANGED <<issued, queue, file, batch>>
    BY <1>6 DEF Poll, TryLead, Recheck, Sync, Drain, fileVars
  <2>2. pc'[t] # "write" /\ \A u \in Threads : u # t => pc'[u] = pc[u]
    BY <1>6, <1>t DEF Poll, TryLead, Recheck, Sync, Drain, Goto
  <2> QED  BY <1>5, <2>1, <2>2
<1>7. ASSUME NEW t \in Threads, Notify(t) PROVE Order'
  <2>1. UNCHANGED <<issued, queue, file>>
    BY <1>7 DEF Notify, fileVars
  <2>2. pc'[t] # "write"
        /\ \A u \in Threads : u # t => pc'[u] = pc[u] /\ batch'[u] = batch[u]
    BY <1>7, <1>t DEF Notify, Goto
  <2> QED  BY <1>5, <2>1, <2>2
<1>8. CASE UNCHANGED <<issued, queue, file, pc, batch>>
  BY <1>5, <1>8
<1> QED
  BY <1>1, <1>2, <1>3, <1>4, <1>6, <1>7, <1>8
     DEF Next, Append_, Lead, CloseSync, CloseFd, Recover, runtime, vars

\* The log holds the requests in the order in which they were queued, each at
\* most once, through failed writes, changes of leader and crashes
\* (wal.hpp:41-57, 134-157).
THEOREM QueueOrder == Spec => []LogInQueueOrder
<1>1. Init => Order
  BY EmptySeq
     DEF Init, Order, QueueIsTail, FileWasPopped, BatchIsNext, FileInOrder
<1>2. Structure /\ Order => LogInQueueOrder
  <2> SUFFICES ASSUME Structure, Order PROVE LogInQueueOrder
    OBVIOUS
  <2>1. Len(file) \in Nat
    BY LenProperties DEF Structure, TypeOK
  <2>2. Len(Reqs(file)) = Len(file)
    BY <2>1 DEF Reqs
  <2> QED  BY <2>2 DEF LogInQueueOrder, Increasing, Reqs, Order, FileInOrder
<1> QED  BY <1>1, <1>2, InitStructure, StructureStep, OrderStep, PTL DEF Spec

-----------------------------------------------------------------------------
(* Replay.  What recover() returned is the whole records in front of the   *)
(* first torn one, and the file does not change any more.                  *)

Replayed ==
    fd = "recovered" =>
        \E n \in 0 .. Len(file) :
            ReplayStops(file, n) /\ recovered = [i \in 1 .. n |-> file[i].req]

LEMMA ReplayedStep == Replayed /\ [Next]_vars => Replayed'
<1> SUFFICES ASSUME Replayed, [Next]_vars PROVE Replayed'
  OBVIOUS
<1>1. CASE Recover
  <2>1. UNCHANGED file
    BY <1>1 DEF Recover
  <2>2. PICK n \in 0 .. Len(file) :
           ReplayStops(file, n) /\ recovered' = [i \in 1 .. n |-> file[i].req]
    BY <1>1 DEF Recover
  <2> QED  BY <2>1, <2>2 DEF Replayed, ReplayStops
<1>2. CASE UNCHANGED <<fd, file, recovered>>
  BY <1>2 DEF Replayed, ReplayStops
<1>3. ASSUME NEW t \in Threads, Append_(t) \/ Lead(t) PROVE Replayed'
  BY <1>3
     DEF Replayed, Append_, Lead, Enqueue, Poll, TryLead, Recheck, Drain, WriteBatch,
         WriteFails, Sync, Notify, At, Up, fileVars
<1>4. CASE CloseSync \/ CloseFd \/ Crash
  BY <1>4 DEF Replayed, CloseSync, CloseFd, Crash
<1> QED  BY <1>1, <1>2, <1>3, <1>4 DEF Next, vars

\* A durable record that the replay did not reach has a torn one before it.
LEMMA DurableIsReplayed ==
    ASSUME Structure, Replayed, fd = "recovered", NEW r, Durable(r)
    PROVE  \/ InSeq(r, recovered)
           \/ \E i, j \in 1 .. Len(file) : i < j /\ ~ file[i].whole /\ file[j].req = r
<1>1. Len(file) \in Nat /\ synced \in 0 .. Len(file)
  BY LenProperties DEF Structure, TypeOK
<1>2. PICK j \in 1 .. synced : file[j] = Whole(r)
  BY DEF Durable
<1>3. PICK n \in 0 .. Len(file) :
         ReplayStops(file, n) /\ recovered = [i \in 1 .. n |-> file[i].req]
  BY DEF Replayed
<1>4. file[j].req = r /\ file[j].whole
  BY <1>2 DEF Whole
<1>5. CASE j <= n
  <2>1. Len(recovered) = n /\ recovered[j] = r /\ j \in 1 .. n
    BY <1>1, <1>3, <1>4, <1>5
  <2> QED  BY <2>1 DEF InSeq
<1>6. CASE n < j
  <2>1. n + 1 \in 1 .. Len(file) /\ ~ file[n + 1].whole
    BY <1>1, <1>3, <1>6 DEF ReplayStops
  <2>2. n + 1 < j /\ j \in 1 .. Len(file)
    BY <1>1, <1>4, <1>6, <2>1
  <2> QED  BY <1>4, <2>1, <2>2
<1> QED  BY <1>1, <1>5, <1>6

\* Whatever part of the unsynced tail a crash leaves, every acknowledged request
\* is replayed, or stands behind the torn record of an earlier write that failed
\* (wal.hpp:70-130, 134-170).
THEOREM AckedSurvives ==
    ASSUME Faults \cap {"fsync", "close"} = {}
    PROVE  Spec => []AckedRecovered
<1>1. Init => Durability /\ Replayed
  BY EmptySeq
     DEF Init, Durability, NeverClosed, AckedIsDurable, NotifiedIsDurable, SyncingIsWritten,
         Replayed
<1>2. Structure /\ Durability /\ Replayed => AckedRecovered
  BY DurableIsReplayed DEF Durability, AckedIsDurable, AckedRecovered
<1> QED
  BY <1>1, <1>2, InitStructure, StructureStep, DurabilityStep, ReplayedStep, PTL DEF Spec
=============================================================================
