----------------------------- MODULE VectorLog ------------------------------
(***************************************************************************)
(* A put with a vector (engine/blob, CarinaEngine::put, Wal::drain): the   *)
(* floats go to the vLog, the record with the pointer to the WAL, and the  *)
(* callback that drain makes between write and fsync makes the floats      *)
(* durable before the record.  A crash of the machine, and the start after *)
(* it.  Lengths are in units; a unit holds the number of its put.          *)
(*                                                                         *)
(* There is one vLog file: its number is that of the newest file that      *)
(* exists, so it is never followed by another.  Tables and the order in    *)
(* the WAL are the subject of Engine and Wal.                              *)
(***************************************************************************)
EXTENDS Integers, Sequences, FiniteSets, SequencesExt

CONSTANTS
    Callers,     \* the threads that put
    Dims,        \* lengths of vectors
    MaxVectors,  \* bound: puts
    MaxCrashes   \* bound

ASSUME VectorLogAssumption ==
    /\ IsFiniteSet(Callers)
    /\ Dims \subseteq Nat \ {0} /\ MaxVectors \in Nat /\ MaxCrashes \in Nat

VARIABLES
    vlog,     \* what reads of the vLog file see; 0 is a hole
    durable,  \* what was in it at the last fsync
    offset,   \* currentOffset_
    call,     \* per thread: its place in put, and its pointer
    log,      \* the records in the WAL file
    safe,     \* how many of them are durable
    batch,    \* the threads whose records drain has written
    stage,    \* where drain is
    acked,    \* history: puts that have returned
    vectors, crashes

logVars == <<log, safe, batch, stage>>
vars == <<vlog, durable, offset, call, logVars, acked, vectors, crashes>>

NoPointer == [id |-> 0, at |-> 0, dim |-> 0, run |-> 0]
Ready == [at |-> "ready", ptr |-> NoPointer]
Units(p) == p.at + 1 .. p.at + p.dim

Init ==
    /\ vlog = <<>> /\ durable = <<>> /\ offset = 0
    /\ call = [t \in Callers |-> Ready]
    /\ log = <<>> /\ safe = 0 /\ batch = {} /\ stage = "none"
    /\ acked = {} /\ vectors = 0 /\ crashes = 0

ReserveAtEnd(t) ==  \* a mutant: the end of the file instead of a counter
    /\ call[t].at = "ready"
    /\ vectors < MaxVectors
    /\ vectors' = vectors + 1
    /\ \E d \in Dims :
          call' = [call EXCEPT ![t] =
                     [at |-> "reserved", ptr |-> [id |-> vectors', at |-> Len(vlog), dim |-> d, run |-> crashes]]]
    /\ UNCHANGED <<vlog, durable, offset, logVars, acked, crashes>>
\* fetch_add
Reserve(t) ==
    /\ call[t].at = "ready"
    /\ vectors < MaxVectors
    /\ vectors' = vectors + 1
    /\ \E d \in Dims :
          /\ call' = [call EXCEPT ![t] =
                        [at |-> "reserved", ptr |-> [id |-> vectors', at |-> offset, dim |-> d, run |-> crashes]]]
          /\ offset' = offset + d
    /\ UNCHANGED <<vlog, durable, logVars, acked, crashes>>

\* The file with the first n units of a pointer written.
Written(p, n) ==
    [i \in 1 .. (IF n > 0 /\ p.at + n > Len(vlog) THEN p.at + n ELSE Len(vlog)) |->
        IF i \in p.at + 1 .. p.at + n THEN p.id ELSE IF i <= Len(vlog) THEN vlog[i] ELSE 0]

Pwrite(t) ==
    /\ call[t].at = "reserved"
    /\ vlog' = Written(call[t].ptr, call[t].ptr.dim)
    /\ call' = [call EXCEPT ![t].at = "written"]
    /\ UNCHANGED <<durable, offset, logVars, acked, vectors, crashes>>

\* A write fails half-way: append throws, and put with it.
PwriteThrows(t) ==
    /\ call[t].at = "reserved"
    /\ \E n \in 0 .. call[t].ptr.dim - 1 : vlog' = Written(call[t].ptr, n)
    /\ call' = [call EXCEPT ![t] = Ready]
    /\ UNCHANGED <<durable, offset, logVars, acked, vectors, crashes>>

\* drain: all that wait, in some order, by one write.
Waiting == {t \in Callers : call[t].at = "written"}
Drain ==
    /\ stage = "none"
    /\ \E ts \in SUBSET Waiting :
          /\ ts # {}
          /\ \E order \in SetToSeqs({call[t].ptr : t \in ts}) : log' = log \o order
          /\ batch' = ts
          /\ call' = [t \in Callers |-> IF t \in ts THEN [call[t] EXCEPT !.at = "logged"] ELSE call[t]]
    /\ stage' = "write"
    /\ UNCHANGED <<vlog, durable, offset, safe, acked, vectors, crashes>>

BlobSyncUnset ==  \* a mutant: no callback
    /\ stage = "write"
    /\ stage' = "blobs"
    /\ UNCHANGED <<vlog, durable, offset, call, log, safe, batch, acked, vectors, crashes>>
\* blobSync_, which createNewMemTable has set.
BlobSync ==
    /\ stage = "write"
    /\ durable' = vlog
    /\ stage' = "blobs"
    /\ UNCHANGED <<vlog, offset, call, log, safe, batch, acked, vectors, crashes>>

\* fsync of the WAL, then the promises.
WalSync ==
    /\ stage = "blobs"
    /\ safe' = Len(log)
    /\ acked' = acked \cup {call[t].ptr.id : t \in batch}
    /\ call' = [t \in Callers |-> IF t \in batch THEN Ready ELSE call[t]]
    /\ batch' = {} /\ stage' = "none"
    /\ UNCHANGED <<vlog, durable, offset, log, vectors, crashes>>

\* The BlobWriter of the next process counts on from the end of the file.
OpenWriter == offset' = Len(vlog')

\* Of what is not durable any part may survive.
Crash ==
    /\ crashes < MaxCrashes
    /\ crashes' = crashes + 1
    /\ \E size \in Len(durable) .. Len(vlog) : \E kept \in SUBSET (1 .. size) :
          vlog' = [i \in 1 .. size |-> IF i \in kept THEN vlog[i] ELSE IF i <= Len(durable) THEN durable[i] ELSE 0]
    /\ durable' = vlog' /\ OpenWriter
    /\ \E n \in safe .. Len(log) : log' = SubSeq(log, 1, n) /\ safe' = n
    /\ call' = [t \in Callers |-> Ready]
    /\ batch' = {} /\ stage' = "none"
    /\ UNCHANGED <<acked, vectors>>

Next ==
    \/ \E t \in Callers : Reserve(t) \/ Pwrite(t) \/ PwriteThrows(t)
    \/ Drain \/ BlobSync \/ WalSync
    \/ Crash

Spec == Init /\ [][Next]_vars

-----------------------------------------------------------------------------
(* Properties.                                                             *)

\* readVector finds the floats of its own put, all of them.
Reads(p) == \A i \in Units(p) : i <= Len(vlog) /\ vlog[i] = p.id

\* A put with a vector that has returned: its record is in the WAL and its pointer
\* leads to its floats, after a crash too.
AckedVectorReads ==
    \A id \in acked : \E i \in 1 .. Len(log) : log[i].id = id /\ Reads(log[i])

\* A pointer that was handed out since the last start leads to its own floats once its
\* record can be read, whatever other threads write or fail to write.
PointersApart ==
    /\ \A i \in 1 .. Len(log) : log[i].run = crashes => Reads(log[i])
    /\ \A t, u \in Callers : t # u => Units(call[t].ptr) \cap Units(call[u].ptr) = {}

=============================================================================
