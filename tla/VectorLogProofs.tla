--------------------------- MODULE VectorLogProofs --------------------------
(***************************************************************************)
(* Theorems about module VectorLog, for any set of threads, vectors of any *)
(* length and any number of crashes: pointers lead to the floats of their  *)
(* own put, and those of a put that has returned still do after a crash.   *)
(***************************************************************************)
EXTENDS VectorLog, FiniteSetTheorems, TLAPS

Pointers == [id : Nat, at : Nat, dim : Nat, run : Nat]

Typed ==
    /\ vlog \in Seq(Nat) /\ durable \in Seq(Nat) /\ offset \in Nat
    /\ Len(durable) <= Len(vlog) /\ Len(vlog) <= offset
    /\ call \in [Callers -> [at : {"ready", "reserved", "written", "logged"}, ptr : Pointers]]
    /\ log \in Seq(Pointers) /\ safe \in 0 .. Len(log)
    /\ vectors \in Nat /\ crashes \in Nat

\* The floats of p are in the file, and nobody who may still write will hit them.
InPlace(p) ==
    /\ p.dim # 0 /\ p.at + p.dim <= offset
    /\ Reads(p)
    /\ \A t \in Callers : call[t].at = "reserved" => Units(p) \cap Units(call[t].ptr) = {}

Persistent(p) == \A i \in Units(p) : i <= Len(durable) /\ durable[i] = p.id

CallsSound ==
    \A t \in Callers, p \in Pointers :
        call[t].ptr = p =>
            /\ call[t].at = "ready" => p = NoPointer
            /\ call[t].at # "ready" => p.run = crashes /\ p.dim # 0
            /\ p.at + p.dim <= offset
            /\ call[t].at \in {"written", "logged"} => InPlace(p)
            /\ \A u \in Callers : t # u => Units(p) \cap Units(call[u].ptr) = {}

\* The record of a batch is written before the callback, and its floats are durable after it.
BatchSound ==
    /\ batch \subseteq Callers
    /\ \A t \in batch, p \in Pointers :
          call[t].ptr = p =>
              /\ call[t].at = "logged"
              /\ \E i \in 1 .. Len(log) : log[i] = p
              /\ stage = "blobs" => Persistent(p)

LogSound ==
    \A i \in 1 .. Len(log), p \in Pointers :
        log[i] = p => p.run <= crashes /\ (p.run = crashes => InPlace(p))

AckedSound ==
    \A id \in acked :
        \E i \in 1 .. safe, p \in Pointers :
            log[i] = p /\ p.id = id /\ InPlace(p) /\ Persistent(p)

Placed == Typed /\ CallsSound /\ BatchSound /\ LogSound /\ AckedSound

-----------------------------------------------------------------------------
(* The parts of a step.                                                    *)

LEMMA Initially == VectorLogAssumption /\ Init => Placed
<1> SUFFICES ASSUME VectorLogAssumption, Init PROVE Placed
  OBVIOUS
<1>1. Typed
  BY DEF Init, Typed, Ready, NoPointer, Pointers
<1>2. CallsSound
  BY DEF Init, CallsSound, Ready, NoPointer, Units
<1>3. BatchSound /\ LogSound /\ AckedSound
  BY DEF Init, BatchSound, LogSound, AckedSound
<1> QED  BY <1>1, <1>2, <1>3 DEF Placed

\* pwrite of n units: other places keep what they hold, and the file ends within offset.
LEMMA WrittenIs ==
    ASSUME Typed, NEW p \in Pointers, NEW n \in 0 .. p.dim, p.at + p.dim <= offset
    PROVE  /\ Written(p, n) \in Seq(Nat)
           /\ Len(vlog) <= Len(Written(p, n)) /\ Len(Written(p, n)) <= offset
           /\ \A i \in 1 .. Len(vlog) : i \notin Units(p) => Written(p, n)[i] = vlog[i]
           /\ n = p.dim => \A i \in Units(p) : i <= Len(Written(p, n)) /\ Written(p, n)[i] = p.id
<1> DEFINE m == IF n > 0 /\ p.at + n > Len(vlog) THEN p.at + n ELSE Len(vlog)
           w == [i \in 1 .. m |->
                    IF i \in p.at + 1 .. p.at + n THEN p.id ELSE IF i <= Len(vlog) THEN vlog[i] ELSE 0]
<1>1. p.at \in Nat /\ p.dim \in Nat /\ p.id \in Nat /\ n \in Nat /\ offset \in Nat
      /\ vlog \in Seq(Nat) /\ Len(vlog) \in Nat /\ Len(vlog) <= offset
  BY DEF Typed, Pointers
<1>2. m \in Nat /\ Len(vlog) <= m /\ m <= offset /\ (n > 0 => p.at + n <= m)
  BY <1>1
<1>3. Written(p, n) = w
  BY DEF Written
<1> HIDE DEF m
<1>4. w \in Seq(Nat) /\ Len(w) = m
  <2>1. \A i \in 1 .. m : w[i] \in Nat
    BY <1>1, <1>2
  <2> QED  BY <1>2, <2>1
<1>5. \A i \in 1 .. Len(vlog) : i \notin Units(p) => w[i] = vlog[i]
  <2> TAKE i \in 1 .. Len(vlog)
  <2> HAVE i \notin Units(p)
  <2>1. i \in 1 .. m /\ i \notin p.at + 1 .. p.at + n
    BY <1>1, <1>2 DEF Units
  <2> QED  BY <1>1, <2>1
<1>6. ASSUME n = p.dim, NEW i \in Units(p) PROVE i <= m /\ w[i] = p.id
  <2>1. i \in p.at + 1 .. p.at + n /\ n > 0
    BY <1>1, <1>6 DEF Units
  <2>2. i \in 1 .. m
    BY <1>1, <1>2, <2>1
  <2> QED  BY <1>2, <2>1, <2>2
<1> QED  BY <1>2, <1>3, <1>4, <1>5, <1>6

LEMMA SpaceIs ==
    ASSUME NEW p \in Pointers
    PROVE  /\ Units(p) \subseteq Nat \ {0}
           /\ \A i \in Units(p) : i <= p.at + p.dim
           /\ p.dim # 0 => p.at + p.dim \in Units(p)
BY DEF Pointers, Units

\* The order in which drain writes a batch has each of its records.
LEMMA OrderHasAll ==
    ASSUME NEW S, IsFiniteSet(S), NEW order \in SetToSeqs(S)
    PROVE  /\ order \in Seq(S)
           /\ \A x \in S : \E i \in 1 .. Len(order) : order[i] = x
<1> DEFINE D == 1 .. Cardinality(S)
<1>1. Cardinality(S) \in Nat
  BY FS_CardinalityType
<1>2. order \in [D -> S] /\ \A i, j \in D : i # j => order[i] # order[j]
  BY DEF SetToSeqs
<1>3. order \in Injection(D, S)
  BY <1>2 DEF Injection, IsInjective
<1>4. Cardinality(D) = Cardinality(S) /\ IsFiniteSet(D)
  BY <1>1, FS_Interval
<1>5. order \in Surjection(D, S)
  <2> HIDE DEF D
  <2> QED  BY <1>3, <1>4, FS_Injection
<1>6. \A x \in S : \E i \in D : order[i] = x
  BY <1>5 DEF Surjection
<1>7. order \in Seq(S) /\ Len(order) = Cardinality(S)
  BY <1>1, <1>2
<1> QED  BY <1>6, <1>7

-----------------------------------------------------------------------------
(* What is in place stays there.                                           *)

Stays ==
    \A p \in Pointers : InPlace(p) => InPlace(p)' /\ (Persistent(p) => Persistent(p)')

LEMMA ReserveStays ==
    ASSUME VectorLogAssumption, Placed, NEW t \in Callers, Reserve(t)
    PROVE  Stays
<1> SUFFICES ASSUME NEW p \in Pointers, InPlace(p)
             PROVE  InPlace(p)' /\ (Persistent(p) => Persistent(p)')
  BY DEF Stays
<1>0. Typed
  BY DEF Placed
<1>1. PICK d \in Dims :
          /\ call' = [call EXCEPT ![t] =
                        [at |-> "reserved", ptr |-> [id |-> vectors', at |-> offset, dim |-> d, run |-> crashes]]]
          /\ offset' = offset + d
  BY DEF Reserve
<1>2. d \in Nat /\ offset \in Nat /\ vlog' = vlog /\ durable' = durable
  BY <1>0 DEF Reserve, VectorLogAssumption, Typed
<1>3. Reads(p)' /\ (Persistent(p) => Persistent(p)')
  BY <1>2 DEF InPlace, Reads, Persistent
<1>4. p.dim # 0 /\ p.at + p.dim <= offset'
  BY <1>1, <1>2 DEF InPlace, Pointers
<1>5. ASSUME NEW u \in Callers, call'[u].at = "reserved" PROVE Units(p) \cap Units(call'[u].ptr) = {}
  <2>1. CASE u = t
    <3>1. call'[t].ptr.at = offset /\ call'[t].ptr.dim = d
      BY <1>0, <1>1 DEF Typed
    <3>2. \A i \in Units(call'[t].ptr) : i > offset
      BY <1>2, <3>1 DEF Units
    <3>3. \A i \in Units(p) : i \in Nat /\ i <= offset
      BY <1>2, SpaceIs DEF InPlace, Pointers
    <3> QED  BY <1>2, <2>1, <3>2, <3>3
  <2>2. CASE u # t
    <3>1. call'[u] = call[u]
      BY <1>0, <1>1, <2>2 DEF Typed
    <3> QED  BY <1>5, <3>1 DEF InPlace
  <2> QED  BY <2>1, <2>2
<1> QED  BY <1>3, <1>4, <1>5 DEF InPlace

LEMMA PwriteStays ==
    ASSUME VectorLogAssumption, Placed, NEW t \in Callers, Pwrite(t) \/ PwriteThrows(t)
    PROVE  Stays
<1> SUFFICES ASSUME NEW p \in Pointers, InPlace(p)
             PROVE  InPlace(p)' /\ (Persistent(p) => Persistent(p)')
  BY DEF Stays
<1>0. Typed /\ CallsSound
  BY DEF Placed
<1>1. call[t].at = "reserved" /\ call[t].ptr \in Pointers /\ offset' = offset /\ durable' = durable
  BY <1>0 DEF Pwrite, PwriteThrows, Typed
<1>2. PICK n \in 0 .. call[t].ptr.dim : vlog' = Written(call[t].ptr, n)
  BY <1>1 DEF Pwrite, PwriteThrows, Pointers
<1>3. \A u \in Callers : call'[u].at = "reserved" => call[u] = call'[u]
  BY <1>0 DEF Pwrite, PwriteThrows, Typed, Ready
<1>4. call[t].ptr.at + call[t].ptr.dim <= offset
  BY <1>0, <1>1 DEF CallsSound
<1>5. /\ Len(vlog) <= Len(vlog') /\ vlog' \in Seq(Nat)
      /\ \A i \in 1 .. Len(vlog) : i \notin Units(call[t].ptr) => vlog'[i] = vlog[i]
  <2> DEFINE q == call[t].ptr
  <2>1. q \in Pointers /\ n \in 0 .. q.dim /\ q.at + q.dim <= offset /\ vlog' = Written(q, n)
    BY <1>1, <1>2, <1>4
  <2> HIDE DEF q
  <2>2. /\ Len(vlog) <= Len(vlog') /\ vlog' \in Seq(Nat)
        /\ \A i \in 1 .. Len(vlog) : i \notin Units(q) => vlog'[i] = vlog[i]
    BY <1>0, <2>1, WrittenIs
  <2> QED  BY <2>2 DEF q
<1>6. ASSUME NEW i \in Units(p) PROVE i <= Len(vlog') /\ vlog'[i] = p.id
  <2>1. i <= Len(vlog) /\ vlog[i] = p.id /\ i \notin Units(call[t].ptr)
    BY <1>1, <1>6 DEF InPlace, Reads
  <2>2. i \in Nat \ {0} /\ Len(vlog) \in Nat /\ Len(vlog') \in Nat
    BY <1>0, <1>5, SpaceIs DEF Typed
  <2> QED  BY <1>5, <2>1, <2>2
<1>7. Reads(p)'
  BY <1>6 DEF Reads
<1>8. Persistent(p) => Persistent(p)'
  BY <1>1 DEF Persistent
<1> QED  BY <1>1, <1>3, <1>7, <1>8 DEF InPlace

\* Steps of the leader: none of them writes to the vLog.
LEMMA LeaderStays ==
    ASSUME Placed, Drain \/ BlobSync \/ WalSync \/ UNCHANGED vars
    PROVE  Stays
<1> SUFFICES ASSUME NEW p \in Pointers, InPlace(p)
             PROVE  InPlace(p)' /\ (Persistent(p) => Persistent(p)')
  BY DEF Stays
<1>1. vlog' = vlog /\ offset' = offset /\ durable' \in {durable, vlog}
  BY DEF Drain, BlobSync, WalSync, vars, logVars
<1>2. \A u \in Callers : call'[u].at = "reserved" => call[u] = call'[u]
  <2>0. Typed
    BY DEF Placed
  <2>1. CASE Drain
    <3>1. PICK ts \in SUBSET Callers :
              call' = [t \in Callers |-> IF t \in ts THEN [call[t] EXCEPT !.at = "logged"] ELSE call[t]]
      BY <2>1 DEF Drain, Waiting
    <3>2. \A u \in Callers : u \in ts => call'[u].at = "logged"
      BY <2>0, <3>1 DEF Typed
    <3> QED  BY <3>1, <3>2
  <2>2. CASE BlobSync \/ UNCHANGED vars
    BY <2>2 DEF BlobSync, vars
  <2>3. CASE WalSync
    BY <2>3 DEF WalSync, Ready
  <2> QED  BY <2>1, <2>2, <2>3
<1>3. Reads(p)' /\ (Persistent(p) => Persistent(p)')
  BY <1>1 DEF InPlace, Reads, Persistent
<1> QED  BY <1>1, <1>2, <1>3 DEF InPlace

\* After a crash what was durable is in place: the writer goes on behind it.
LEMMA CrashKeeps ==
    ASSUME VectorLogAssumption, Placed, Crash
    PROVE  /\ \A p \in Pointers : InPlace(p) /\ Persistent(p) => InPlace(p)' /\ Persistent(p)'
           /\ vlog' \in Seq(Nat) /\ durable' = vlog' /\ offset' = Len(vlog')
<1>0. Typed /\ vlog \in Seq(Nat) /\ durable \in Seq(Nat) /\ Len(durable) \in Nat /\ Len(vlog) \in Nat
      /\ Len(durable) <= Len(vlog)
  BY DEF Placed, Typed
<1>1. PICK size \in Len(durable) .. Len(vlog) : \E kept \in SUBSET (1 .. size) :
          vlog' = [i \in 1 .. size |-> IF i \in kept THEN vlog[i] ELSE IF i <= Len(durable) THEN durable[i] ELSE 0]
  BY DEF Crash
<1>2. PICK kept \in SUBSET (1 .. size) :
          vlog' = [i \in 1 .. size |-> IF i \in kept THEN vlog[i] ELSE IF i <= Len(durable) THEN durable[i] ELSE 0]
  BY <1>1
<1>3. \A i \in 1 .. size : vlog'[i] \in Nat
  BY <1>0, <1>2
<1>4. vlog' \in Seq(Nat) /\ Len(vlog') = size /\ size \in Nat /\ Len(durable) <= size
  BY <1>0, <1>2, <1>3
<1>5. durable' = vlog' /\ offset' = Len(vlog')
  BY DEF Crash, OpenWriter
<1>6. \A t \in Callers : call'[t].at # "reserved"
  BY DEF Crash, Ready
<1>7. ASSUME NEW p \in Pointers, InPlace(p), Persistent(p) PROVE InPlace(p)' /\ Persistent(p)'
  <2>1. ASSUME NEW i \in Units(p) PROVE i <= Len(vlog') /\ vlog'[i] = p.id
    <3>1. i \in Nat \ {0} /\ i <= Len(durable) /\ durable[i] = p.id /\ vlog[i] = p.id
      BY <1>7, <2>1, SpaceIs DEF InPlace, Persistent, Reads
    <3>2. i \in 1 .. size
      BY <1>0, <1>4, <3>1
    <3> QED  BY <1>2, <1>4, <3>1, <3>2
  <2>2. p.dim # 0 /\ p.at + p.dim \in Units(p)
    BY <1>7, SpaceIs DEF InPlace
  <2>3. p.at + p.dim <= offset'
    BY <1>5, <2>1, <2>2
  <2>4. Reads(p)' /\ Persistent(p)'
    BY <1>5, <2>1 DEF Reads, Persistent
  <2> QED  BY <1>6, <2>2, <2>3, <2>4 DEF InPlace
<1> QED  BY <1>4, <1>5, <1>7

-----------------------------------------------------------------------------
(* One lemma per action.                                                   *)

LEMMA LogAndAcksKept ==
    ASSUME Placed, Stays, UNCHANGED <<log, safe, acked, crashes>>
    PROVE  LogSound' /\ AckedSound'
<1>1. LogSound'
  BY DEF Placed, LogSound, Stays
<1>2. AckedSound'
  BY DEF Placed, AckedSound, Stays
<1> QED  BY <1>1, <1>2

\* A thread that is not in the batch takes a step of its own.
LEMMA BatchKept ==
    ASSUME Placed, Stays, NEW t \in Callers, call[t].at # "logged",
           \A u \in Callers : u # t => call'[u] = call[u],
           UNCHANGED <<log, batch, stage>>
    PROVE  BatchSound'
<1>1. BatchSound /\ CallsSound /\ Typed
  BY DEF Placed
<1>2. ASSUME NEW u \in batch, NEW p \in Pointers, call'[u].ptr = p
      PROVE  /\ call'[u].at = "logged"
             /\ \E i \in 1 .. Len(log) : log[i] = p
             /\ stage = "blobs" => Persistent(p)'
  <2>0. call[u].ptr \in Pointers /\ u \in Callers
    BY <1>1 DEF Typed, BatchSound
  <2>1. call'[u] = call[u] /\ call[u].at = "logged" /\ call[u].ptr = p
    BY <1>1, <1>2, <2>0 DEF BatchSound
  <2>2. InPlace(p) /\ (stage = "blobs" => Persistent(p)) /\ \E i \in 1 .. Len(log) : log[i] = p
    BY <1>1, <2>0, <2>1 DEF CallsSound, BatchSound
  <2> QED  BY <2>1, <2>2 DEF Stays
<1> QED  BY <1>1, <1>2 DEF BatchSound

\* The pointer of a thread that takes no step.
LEMMA OtherCallsKept ==
    ASSUME Placed, Stays, NEW u \in Callers, NEW p \in Pointers, call'[u] = call[u], call'[u].ptr = p,
           offset' \in Nat, offset <= offset', crashes' = crashes
    PROVE  /\ call'[u].at = "ready" => p = NoPointer
           /\ call'[u].at # "ready" => p.run = crashes' /\ p.dim # 0
           /\ p.at + p.dim <= offset'
           /\ call'[u].at \in {"written", "logged"} => InPlace(p)'
<1>1. CallsSound /\ Typed
  BY DEF Placed
<1>2. InPlace(p) => InPlace(p)'
  BY DEF Stays
<1>3. p.at + p.dim <= offset /\ p.at \in Nat /\ p.dim \in Nat /\ offset \in Nat
  BY <1>1 DEF CallsSound, Typed, Pointers
<1>4. p.at + p.dim <= offset'
  BY <1>3
<1> QED  BY <1>1, <1>2, <1>4 DEF CallsSound

LEMMA ReserveKeeps ==
    ASSUME VectorLogAssumption, Placed, NEW t \in Callers, Reserve(t)
    PROVE  Placed'
<1>0. Typed /\ CallsSound /\ Stays
  BY ReserveStays DEF Placed
<1>1. PICK d \in Dims :
          /\ call' = [call EXCEPT ![t] =
                        [at |-> "reserved", ptr |-> [id |-> vectors', at |-> offset, dim |-> d, run |-> crashes]]]
          /\ offset' = offset + d
  BY DEF Reserve
<1>2. d \in Nat \ {0} /\ offset \in Nat /\ crashes \in Nat /\ vectors' \in Nat /\ call[t].at = "ready"
  BY <1>0 DEF Reserve, VectorLogAssumption, Typed
<1>3. UNCHANGED <<vlog, durable, log, safe, batch, stage, acked, crashes>>
  BY DEF Reserve, logVars
<1>4. PICK new \in Pointers : new = [id |-> vectors', at |-> offset, dim |-> d, run |-> crashes]
  BY <1>2 DEF Pointers
<1>5. call'[t] = [at |-> "reserved", ptr |-> new]
  BY <1>0, <1>1, <1>4 DEF Typed
<1>6. \A u \in Callers : u # t => call'[u] = call[u]
  BY <1>0, <1>1 DEF Typed
<1>7. offset' \in Nat /\ offset <= offset'
  BY <1>1, <1>2
<1>8. Typed'
  <2>1. call'[t] \in [at : {"ready", "reserved", "written", "logged"}, ptr : Pointers]
    BY <1>5
  <2>2. call' \in [Callers -> [at : {"ready", "reserved", "written", "logged"}, ptr : Pointers]]
    BY <1>0, <1>1, <2>1 DEF Typed
  <2>3. Len(vlog) <= offset'
    BY <1>0, <1>7 DEF Typed
  <2> QED  BY <1>0, <1>2, <1>3, <1>7, <2>2, <2>3 DEF Typed
<1>9. CallsSound'
  <2>1. \A u \in Callers : Units(new) \cap Units(call[u].ptr) = {}
    <3> TAKE u \in Callers
    <3>1. \A i \in Units(new) : i > offset
      BY <1>2, <1>4 DEF Units
    <3>2. \A i \in Units(call[u].ptr) : i \in Nat /\ i <= offset
      BY <1>0, SpaceIs, SMTT(20) DEF CallsSound, Typed, Pointers
    <3> QED  BY <1>2, <3>1, <3>2
  <2>2. ASSUME NEW u \in Callers, NEW p \in Pointers, call'[u].ptr = p
        PROVE  \A w \in Callers : u # w => Units(p) \cap Units(call'[w].ptr) = {}
    BY <1>0, <1>5, <1>6, <2>1, <2>2 DEF CallsSound
  <2>3. ASSUME NEW u \in Callers, NEW p \in Pointers, call'[u].ptr = p
        PROVE  /\ call'[u].at = "ready" => p = NoPointer
               /\ call'[u].at # "ready" => p.run = crashes' /\ p.dim # 0
               /\ p.at + p.dim <= offset'
               /\ call'[u].at \in {"written", "logged"} => InPlace(p)'
    <3>1. CASE u # t
      BY <1>0, <1>3, <1>6, <1>7, <2>3, <3>1, OtherCallsKept
    <3>2. CASE u = t
      BY <1>1, <1>2, <1>3, <1>4, <1>5, <2>3, <3>2
    <3> QED  BY <3>1, <3>2
  <2> QED  BY <2>2, <2>3 DEF CallsSound
<1>10. BatchSound' /\ LogSound' /\ AckedSound'
  BY <1>0, <1>2, <1>3, <1>6, BatchKept, LogAndAcksKept
<1> QED  BY <1>8, <1>9, <1>10 DEF Placed

LEMMA PwriteKeeps ==
    ASSUME VectorLogAssumption, Placed, NEW t \in Callers, Pwrite(t) \/ PwriteThrows(t)
    PROVE  Placed'
<1>0. Typed /\ CallsSound /\ Stays
  BY PwriteStays DEF Placed
<1>1. /\ call[t].at = "reserved" /\ offset' = offset /\ offset \in Nat
      /\ UNCHANGED <<durable, log, safe, batch, stage, acked, vectors, crashes>>
  BY <1>0 DEF Pwrite, PwriteThrows, logVars, Typed
<1>2. PICK p \in Pointers : p = call[t].ptr
  BY <1>0 DEF Typed
<1>3. PICK n \in 0 .. p.dim : vlog' = Written(p, n) /\ (Pwrite(t) => n = p.dim)
  BY <1>2 DEF Pwrite, PwriteThrows, Pointers
<1>4. p.at + p.dim <= offset /\ p.run = crashes /\ p.dim # 0
  BY <1>0, <1>1, <1>2 DEF CallsSound
<1>5. /\ vlog' \in Seq(Nat) /\ Len(vlog) <= Len(vlog') /\ Len(vlog') <= offset
      /\ n = p.dim => \A i \in Units(p) : i <= Len(vlog') /\ vlog'[i] = p.id
  BY <1>0, <1>3, <1>4, WrittenIs
<1>6. \A u \in Callers : u # t => call'[u] = call[u]
  BY <1>0 DEF Pwrite, PwriteThrows, Typed
<1>7. \/ Pwrite(t) /\ call'[t] = [at |-> "written", ptr |-> p]
      \/ PwriteThrows(t) /\ call'[t] = Ready
  BY <1>0, <1>2 DEF Pwrite, PwriteThrows, Typed
<1>8. Typed'
  <2>1. call'[t] \in [at : {"ready", "reserved", "written", "logged"}, ptr : Pointers]
    BY <1>7 DEF Ready, NoPointer, Pointers
  <2>2. DOMAIN call' = Callers /\ call' = [u \in Callers |-> call'[u]]
    BY <1>0 DEF Pwrite, PwriteThrows, Typed
  <2>3. \A u \in Callers : call'[u] \in [at : {"ready", "reserved", "written", "logged"}, ptr : Pointers]
    BY <1>0, <1>6, <2>1 DEF Typed
  <2>4. call' \in [Callers -> [at : {"ready", "reserved", "written", "logged"}, ptr : Pointers]]
    BY <2>2, <2>3
  <2>5. Len(durable) <= Len(vlog')
    BY <1>0, <1>5 DEF Typed
  <2> QED  BY <1>0, <1>1, <1>5, <2>4, <2>5 DEF Typed
<1>9. CallsSound'
  <2>1. NoPointer.at = 0 /\ NoPointer.dim = 0 /\ Units(NoPointer) = {}
    BY DEF NoPointer, Units
  <2>2. /\ call'[t].ptr \in {p, NoPointer}
        /\ call'[t].at = "ready" => call'[t].ptr = NoPointer
        /\ call'[t].at # "ready" => call'[t].at = "written" /\ call'[t].ptr = p /\ Pwrite(t)
    BY <1>7 DEF Ready
  <2>3. \A u \in Callers : u # t => Units(p) \cap Units(call'[u].ptr) = {}
    BY <1>0, <1>2, <1>6 DEF CallsSound
  <2>4. Pwrite(t) => InPlace(p)'
    <3> SUFFICES ASSUME Pwrite(t) PROVE InPlace(p)'
      OBVIOUS
    <3>1. Reads(p)'
      BY <1>3, <1>5 DEF Reads
    <3>2. call'[t].at = "written"
      BY <1>0, <1>1 DEF Pwrite, Typed
    <3>3. \A u \in Callers : call'[u].at = "reserved" => Units(p) \cap Units(call'[u].ptr) = {}
      BY <2>3, <3>2
    <3> QED  BY <1>1, <1>4, <3>1, <3>3 DEF InPlace
  <2>5. ASSUME NEW u \in Callers, NEW q \in Pointers, call'[u].ptr = q
        PROVE  /\ call'[u].at = "ready" => q = NoPointer
               /\ call'[u].at # "ready" => q.run = crashes' /\ q.dim # 0
               /\ q.at + q.dim <= offset'
               /\ call'[u].at \in {"written", "logged"} => InPlace(q)'
    <3>1. CASE u # t
      BY <1>0, <1>1, <1>6, <2>5, <3>1, OtherCallsKept
    <3>2. CASE u = t
      <4>1. q \in {p, NoPointer} /\ (call'[t].at # "ready" => call'[t].at = "written" /\ q = p /\ Pwrite(t))
        BY <2>2, <2>5, <3>2
      <4>2. q.at + q.dim <= offset'
        BY <1>1, <1>4, <2>1, <4>1
      <4> QED  BY <1>1, <1>4, <2>2, <2>4, <2>5, <3>2, <4>1, <4>2
    <3> QED  BY <3>1, <3>2
  <2>6. ASSUME NEW u \in Callers, NEW q \in Pointers, call'[u].ptr = q
        PROVE  \A w \in Callers : u # w => Units(q) \cap Units(call'[w].ptr) = {}
    <3>1. CASE u = t
      BY <2>1, <2>2, <2>3, <2>6, <3>1
    <3>2. CASE u # t
      BY <1>0, <1>6, <2>1, <2>2, <2>3, <2>6, <3>2 DEF CallsSound
    <3> QED  BY <3>1, <3>2
  <2> QED  BY <2>5, <2>6 DEF CallsSound
<1>10. BatchSound' /\ LogSound' /\ AckedSound'
  BY <1>0, <1>1, <1>6, BatchKept, LogAndAcksKept
<1> QED  BY <1>8, <1>9, <1>10 DEF Placed

LEMMA DrainKeeps ==
    ASSUME VectorLogAssumption, Placed, Drain
    PROVE  Placed'
<1>0. Typed /\ CallsSound /\ LogSound /\ AckedSound /\ Stays
  BY LeaderStays DEF Placed
<1>1. PICK ts \in SUBSET Waiting :
          /\ \E order \in SetToSeqs({call[t].ptr : t \in ts}) : log' = log \o order
          /\ batch' = ts
          /\ call' = [t \in Callers |-> IF t \in ts THEN [call[t] EXCEPT !.at = "logged"] ELSE call[t]]
  BY DEF Drain
<1> DEFINE S == {call[t].ptr : t \in ts}
<1>2. PICK order \in SetToSeqs(S) : log' = log \o order
  BY <1>1
<1>3. UNCHANGED <<vlog, durable, offset, safe, acked, vectors, crashes>> /\ stage' = "write"
  BY DEF Drain
<1>4. ts \subseteq Callers /\ \A t \in ts : call[t].at = "written"
  BY <1>1 DEF Waiting
<1>5. IsFiniteSet(S)
  <2>1. IsFiniteSet(ts)
    BY <1>4, FS_Subset DEF VectorLogAssumption
  <2> DEFINE f == [t \in ts |-> call[t].ptr]
  <2>2. f \in Surjection(ts, S)
    BY DEF Surjection
  <2> HIDE DEF f, S
  <2> QED  BY <2>1, <2>2, FS_Surjection
<1>6. \A p \in S : p \in Pointers /\ p.run = crashes /\ InPlace(p)
  BY <1>0, <1>4 DEF CallsSound, Typed
<1>7. order \in Seq(S) /\ \A p \in S : \E i \in 1 .. Len(order) : order[i] = p
  <2> HIDE DEF S
  <2> QED  BY <1>5, OrderHasAll
<1> HIDE DEF S
<1>8. log \in Seq(Pointers) /\ order \in Seq(Pointers) /\ Len(log) \in Nat /\ Len(order) \in Nat
      /\ Len(log') = Len(log) + Len(order)
  BY <1>0, <1>2, <1>6, <1>7 DEF Typed
<1>9. /\ \A i \in 1 .. Len(log) : log'[i] = log[i]
      /\ \A i \in 1 .. Len(order) : Len(log) + i \in 1 .. Len(log') /\ log'[Len(log) + i] = order[i]
      /\ \A i \in 1 .. Len(log') : i \in 1 .. Len(log) \/ log'[i] \in S
  <2>1. \A i \in 1 .. Len(log) : log'[i] = log[i]
    BY <1>2, <1>8
  <2>2. \A i \in 1 .. Len(order) : Len(log) + i \in 1 .. Len(log') /\ log'[Len(log) + i] = order[i]
    BY <1>2, <1>8
  <2>3. ASSUME NEW i \in 1 .. Len(log'), i \notin 1 .. Len(log) PROVE log'[i] \in S
    <3>1. i - Len(log) \in 1 .. Len(order) /\ log'[i] = order[i - Len(log)]
      BY <1>2, <1>8, <2>3
    <3> QED  BY <1>7, <3>1
  <2> QED  BY <2>1, <2>2, <2>3
<1>10. \A u \in Callers :
          /\ call'[u].ptr = call[u].ptr
          /\ u \in ts => call'[u].at = "logged"
          /\ u \notin ts => call'[u].at = call[u].at
          /\ call'[u] \in [at : {"ready", "reserved", "written", "logged"}, ptr : Pointers]
  BY <1>0, <1>1 DEF Typed
<1>11. Typed'
  <2>1. call' \in [Callers -> [at : {"ready", "reserved", "written", "logged"}, ptr : Pointers]]
    BY <1>1, <1>10
  <2>2. log' \in Seq(Pointers) /\ safe \in 0 .. Len(log')
    BY <1>0, <1>2, <1>8 DEF Typed
  <2> QED  BY <1>0, <1>3, <2>1, <2>2 DEF Typed
<1>12. CallsSound'
  <2> SUFFICES ASSUME NEW u \in Callers, NEW p \in Pointers, call'[u].ptr = p
               PROVE  /\ call'[u].at = "ready" => p = NoPointer
                      /\ call'[u].at # "ready" => p.run = crashes' /\ p.dim # 0
                      /\ p.at + p.dim <= offset'
                      /\ call'[u].at \in {"written", "logged"} => InPlace(p)'
                      /\ \A w \in Callers : u # w => Units(p) \cap Units(call'[w].ptr) = {}
    BY DEF CallsSound
  <2>1. call[u].ptr = p
    BY <1>10
  <2>2. /\ call[u].at = "ready" => p = NoPointer
        /\ call[u].at # "ready" => p.run = crashes /\ p.dim # 0
        /\ p.at + p.dim <= offset
        /\ call[u].at \in {"written", "logged"} => InPlace(p)
    BY <1>0, <2>1 DEF CallsSound
  <2>3. \A w \in Callers : u # w => Units(p) \cap Units(call'[w].ptr) = {}
    BY <1>0, <1>10, <2>1 DEF CallsSound
  <2>4. InPlace(p) => InPlace(p)'
    BY <1>0 DEF Stays
  <2> QED  BY <1>3, <1>4, <1>10, <2>2, <2>3, <2>4
<1>13. BatchSound'
  <2>1. ASSUME NEW u \in ts, NEW p \in Pointers, call'[u].ptr = p
        PROVE  call'[u].at = "logged" /\ \E i \in 1 .. Len(log') : log'[i] = p
    <3>1. call'[u].at = "logged" /\ call[u].ptr = p
      BY <1>4, <1>10, <2>1
    <3>2. p \in S
      BY <3>1 DEF S
    <3>3. PICK i \in 1 .. Len(order) : order[i] = p
      BY <1>7, <3>2
    <3>4. Len(log) + i \in 1 .. Len(log') /\ log'[Len(log) + i] = p
      BY <1>9, <3>3
    <3> QED  BY <3>1, <3>4
  <2> QED  BY <1>1, <1>3, <1>4, <2>1 DEF BatchSound
<1>14. LogSound'
  <2> SUFFICES ASSUME NEW i \in 1 .. Len(log'), NEW p \in Pointers, log'[i] = p
               PROVE  p.run <= crashes /\ (p.run = crashes => InPlace(p)')
    BY <1>3 DEF LogSound
  <2>1. InPlace(p) => InPlace(p)'
    BY <1>0 DEF Stays
  <2>2. CASE i \in 1 .. Len(log)
    BY <1>0, <1>9, <2>1, <2>2 DEF LogSound
  <2>3. CASE p \in S
    BY <1>0, <1>6, <2>1, <2>3 DEF Typed
  <2> QED  BY <1>9, <2>2, <2>3
<1>15. AckedSound'
  <2> SUFFICES ASSUME NEW id \in acked
               PROVE  \E i \in 1 .. safe, p \in Pointers : log'[i] = p /\ p.id = id /\ InPlace(p)' /\ Persistent(p)'
    BY <1>3 DEF AckedSound
  <2>1. PICK i \in 1 .. safe, p \in Pointers : log[i] = p /\ p.id = id /\ InPlace(p) /\ Persistent(p)
    BY <1>0 DEF AckedSound
  <2>2. i \in 1 .. Len(log)
    BY <1>0 DEF Typed
  <2>3. log'[i] = p
    BY <1>9, <2>1, <2>2
  <2> QED  BY <1>0, <2>1, <2>3 DEF Stays
<1> QED  BY <1>11, <1>12, <1>13, <1>14, <1>15 DEF Placed

\* The callback: what the batch points to becomes durable.
LEMMA BlobSyncKeeps ==
    ASSUME Placed, BlobSync \/ UNCHANGED vars
    PROVE  Placed'
<1>0. Typed /\ CallsSound /\ BatchSound /\ Stays
  BY LeaderStays DEF Placed
<1>1. /\ UNCHANGED <<vlog, offset, call, log, safe, batch, acked, vectors, crashes>>
      /\ \/ durable' = vlog
         \/ durable' = durable /\ stage' = stage
  BY DEF BlobSync, vars, logVars
<1>2. Typed'
  BY <1>0, <1>1 DEF Typed
<1>3. CallsSound'
  BY <1>0, <1>1 DEF CallsSound, Stays
<1>4. BatchSound'
  <2> SUFFICES ASSUME NEW u \in batch, NEW p \in Pointers, call[u].ptr = p, stage' = "blobs"
               PROVE  Persistent(p)'
    BY <1>0, <1>1 DEF BatchSound
  <2>1. InPlace(p)
    BY <1>0 DEF BatchSound, CallsSound
  <2>2. CASE durable' = vlog
    BY <2>1, <2>2 DEF InPlace, Reads, Persistent
  <2>3. CASE stage' = stage
    BY <1>0, <2>1, <2>3 DEF BatchSound, Stays
  <2> QED  BY <1>1, <2>2, <2>3
<1> QED  BY <1>0, <1>1, <1>2, <1>3, <1>4, LogAndAcksKept DEF Placed

\* fsync of the WAL: the records of the batch are among the durable ones.
LEMMA WalSyncKeeps ==
    ASSUME Placed, WalSync
    PROVE  Placed'
<1>0. Typed /\ CallsSound /\ BatchSound /\ LogSound /\ AckedSound /\ Stays
  BY LeaderStays DEF Placed
<1>1. /\ UNCHANGED <<vlog, durable, offset, log, vectors, crashes>>
      /\ stage = "blobs" /\ safe' = Len(log) /\ batch' = {}
      /\ acked' = acked \cup {call[t].ptr.id : t \in batch}
      /\ call' = [t \in Callers |-> IF t \in batch THEN Ready ELSE call[t]]
  BY DEF WalSync
<1>2. NoPointer.at = 0 /\ NoPointer.dim = 0 /\ NoPointer \in Pointers /\ Units(NoPointer) = {}
  BY DEF NoPointer, Pointers, Units
<1>3. \A u \in Callers : call'[u] = call[u] \/ call'[u] = Ready
  BY <1>1
<1>4. Typed'
  <2>1. call' \in [Callers -> [at : {"ready", "reserved", "written", "logged"}, ptr : Pointers]]
    BY <1>0, <1>1, <1>2 DEF Typed, Ready
  <2> QED  BY <1>0, <1>1, <2>1 DEF Typed
<1>5. CallsSound'
  <2> SUFFICES ASSUME NEW u \in Callers, NEW p \in Pointers, call'[u].ptr = p
               PROVE  /\ call'[u].at = "ready" => p = NoPointer
                      /\ call'[u].at # "ready" => p.run = crashes' /\ p.dim # 0
                      /\ p.at + p.dim <= offset'
                      /\ call'[u].at \in {"written", "logged"} => InPlace(p)'
                      /\ \A w \in Callers : u # w => Units(p) \cap Units(call'[w].ptr) = {}
    BY DEF CallsSound
  <2>1. CASE call'[u] = Ready
    BY <1>0, <1>1, <1>2, <2>1 DEF Ready, Typed
  <2>2. CASE call'[u] = call[u]
    <3>1. \A w \in Callers : u # w => Units(p) \cap Units(call'[w].ptr) = {}
      BY <1>0, <1>2, <1>3, <2>2 DEF CallsSound, Ready
    <3>2. InPlace(p) => InPlace(p)'
      BY <1>0 DEF Stays
    <3> QED  BY <1>0, <1>1, <2>2, <3>1, <3>2 DEF CallsSound
  <2> QED  BY <1>3, <2>1, <2>2
<1>6. BatchSound'
  BY <1>1 DEF BatchSound
<1>7. LogSound'
  BY <1>0, <1>1 DEF LogSound, Stays
<1>8. AckedSound'
  <2> SUFFICES ASSUME NEW id \in acked'
               PROVE  \E i \in 1 .. Len(log), p \in Pointers : log[i] = p /\ p.id = id /\ InPlace(p)' /\ Persistent(p)'
    BY <1>1 DEF AckedSound
  <2>1. CASE id \in acked
    <3>1. PICK i \in 1 .. safe, p \in Pointers : log[i] = p /\ p.id = id /\ InPlace(p) /\ Persistent(p)
      BY <1>0, <2>1 DEF AckedSound
    <3>2. i \in 1 .. Len(log)
      BY <1>0 DEF Typed
    <3> QED  BY <1>0, <3>1, <3>2 DEF Stays
  <2>2. CASE id \notin acked
    <3>1. PICK t \in batch : id = call[t].ptr.id
      BY <1>1, <2>2
    <3>2. PICK p \in Pointers : p = call[t].ptr
      BY <1>0 DEF BatchSound, Typed
    <3>3. Persistent(p) /\ InPlace(p) /\ \E i \in 1 .. Len(log) : log[i] = p
      BY <1>0, <1>1, <3>2 DEF BatchSound, CallsSound
    <3> QED  BY <1>0, <3>1, <3>2, <3>3 DEF Stays
  <2> QED  BY <2>1, <2>2
<1> QED  BY <1>4, <1>5, <1>6, <1>7, <1>8 DEF Placed

LEMMA CrashLeaves ==
    ASSUME VectorLogAssumption, Placed, Crash
    PROVE  Placed'
<1>0. Typed /\ LogSound /\ AckedSound
  BY DEF Placed
<1>1. /\ \A p \in Pointers : InPlace(p) /\ Persistent(p) => InPlace(p)' /\ Persistent(p)'
      /\ vlog' \in Seq(Nat) /\ durable' = vlog' /\ offset' = Len(vlog')
  BY CrashKeeps
<1>2. PICK n \in safe .. Len(log) : log' = SubSeq(log, 1, n) /\ safe' = n
  BY DEF Crash
<1>3. /\ call' = [t \in Callers |-> Ready] /\ batch' = {} /\ UNCHANGED <<acked, vectors>>
      /\ crashes' = crashes + 1
  BY DEF Crash
<1>4. safe \in Nat /\ Len(log) \in Nat /\ crashes \in Nat /\ n \in Nat /\ safe <= n /\ n <= Len(log)
  BY <1>0 DEF Typed
<1>5. log' \in Seq(Pointers) /\ Len(log') = n /\ \A i \in 1 .. n : log'[i] = log[i]
  BY <1>0, <1>2, <1>4 DEF Typed
<1>6. NoPointer.at = 0 /\ NoPointer.dim = 0 /\ NoPointer \in Pointers /\ Units(NoPointer) = {}
  BY DEF NoPointer, Pointers, Units
<1>7. Typed'
  <2>1. call' \in [Callers -> [at : {"ready", "reserved", "written", "logged"}, ptr : Pointers]]
    BY <1>3, <1>6 DEF Ready
  <2>2. Len(vlog') \in Nat
    BY <1>1
  <2> QED  BY <1>0, <1>1, <1>2, <1>3, <1>4, <1>5, <2>1, <2>2 DEF Typed
<1>8. CallsSound'
  <2>1. offset' \in Nat
    BY <1>1
  <2> QED  BY <1>3, <1>6, <2>1 DEF CallsSound, Ready
<1>9. BatchSound'
  BY <1>3 DEF BatchSound
<1>10. LogSound'
  <2> SUFFICES ASSUME NEW i \in 1 .. n, NEW p \in Pointers, log'[i] = p
               PROVE  p.run <= crashes + 1 /\ p.run # crashes + 1
    BY <1>3, <1>5 DEF LogSound
  <2>1. i \in 1 .. Len(log) /\ log[i] = p
    BY <1>4, <1>5
  <2>2. p.run <= crashes /\ p.run \in Nat
    BY <1>0, <2>1 DEF LogSound, Pointers
  <2> QED  BY <1>4, <2>2
<1>11. AckedSound'
  <2> SUFFICES ASSUME NEW id \in acked
               PROVE  \E i \in 1 .. n, p \in Pointers : log'[i] = p /\ p.id = id /\ InPlace(p)' /\ Persistent(p)'
    BY <1>2, <1>3 DEF AckedSound
  <2>1. PICK i \in 1 .. safe, p \in Pointers : log[i] = p /\ p.id = id /\ InPlace(p) /\ Persistent(p)
    BY <1>0 DEF AckedSound
  <2>2. i \in 1 .. n /\ log'[i] = p
    BY <1>4, <1>5, <2>1
  <2> QED  BY <1>1, <2>1, <2>2
<1> QED  BY <1>7, <1>8, <1>9, <1>10, <1>11 DEF Placed

-----------------------------------------------------------------------------
(* The theorems.                                                           *)

\* The inductive invariant: pointers that were handed out lie behind everything that is
\* to be kept (Reserve takes the end of the space away at once), what is in the batch of
\* drain is durable before the promises, and what was promised lies in the durable parts of both files.
THEOREM InductivePlaces == Spec => []Placed
<1>1. Init => Placed
  BY Initially, VectorLogAssumption
<1>2. Placed /\ [Next]_vars => Placed'
  <2> SUFFICES ASSUME Placed, [Next]_vars PROVE Placed'
    OBVIOUS
  <2>1. ASSUME NEW t \in Callers, Reserve(t) \/ Pwrite(t) \/ PwriteThrows(t) PROVE Placed'
    BY <2>1, ReserveKeeps, PwriteKeeps, VectorLogAssumption
  <2>2. CASE Drain
    BY <2>2, DrainKeeps, VectorLogAssumption
  <2>3. CASE BlobSync \/ UNCHANGED vars
    BY <2>3, BlobSyncKeeps
  <2>4. CASE WalSync
    BY <2>4, WalSyncKeeps
  <2>5. CASE Crash
    BY <2>5, CrashLeaves, VectorLogAssumption
  <2> QED  BY <2>1, <2>2, <2>3, <2>4, <2>5 DEF Next
<1> QED  BY <1>1, <1>2, PTL DEF Spec

\* currentOffset_.fetch_add: no put writes over the floats of another, whatever fails.
THEOREM NoOverwriting == Spec => []PointersApart
<1>1. Placed => PointersApart
  <2> SUFFICES ASSUME Placed PROVE PointersApart
    OBVIOUS
  <2>1. \A i \in 1 .. Len(log) : log[i].run = crashes => Reads(log[i])
    BY DEF Placed, LogSound, InPlace, Typed
  <2>2. \A t, u \in Callers : t # u => Units(call[t].ptr) \cap Units(call[u].ptr) = {}
    BY DEF Placed, CallsSound, Typed
  <2> QED  BY <2>1, <2>2 DEF PointersApart
<1> QED  BY <1>1, InductivePlaces, PTL

\* The callback before the fsync of the WAL: a put with a vector that has returned finds
\* its floats after any crash.
THEOREM AckedVectorSurvives == Spec => []AckedVectorReads
<1>1. Placed => AckedVectorReads
  <2> SUFFICES ASSUME Placed, NEW id \in acked
               PROVE  \E i \in 1 .. Len(log) : log[i].id = id /\ Reads(log[i])
    BY DEF AckedVectorReads
  <2>1. PICK i \in 1 .. safe, p \in Pointers : log[i] = p /\ p.id = id /\ InPlace(p) /\ Persistent(p)
    BY DEF Placed, AckedSound
  <2>2. i \in 1 .. Len(log)
    BY DEF Placed, Typed
  <2> QED  BY <2>1, <2>2 DEF InPlace
<1> QED  BY <1>1, InductivePlaces, PTL

=============================================================================
